# VirtualOffice-BE: models and proofs

A verification project for the back end in `src/`: a NestJS HTTP API over
MongoDB, Redis and Stripe, and one Colyseus room per stored office in which
connected users move, sit, meet and chat. The modules model the parts that hold
state across several calls, TLC checks small instances of them, and TLAPS proves
the most important results for every value of the constants.

Contents: [the system](#the-system), [modules](#modules-and-code),
[runs](#runs), [what the code gets wrong](#what-the-code-gets-wrong),
[proofs](#proofs), [assumptions](#assumptions),
[not modelled](#not-modelled), [plan](#plan). `PROJECT.json` maps every
definition to the lines it models and lists the hazards behind the properties.

## The system

| Component | State | Operations | What is hard | What makes it correct |
|---|---|---|---|---|
| Office room (`modules/rooms/VOffice.ts`, `schema/`, `commands/`) | players and their attributes, `mapClients`, chairs, whiteboards, meetings with admin, lock and chat; `members.$.online` in the database | `onJoin`, `onLeave`, player, chair, whiteboard and meeting messages | one thread, but `onJoin`, `CONNECT_TO_MEETING` and the choice of a character wait for the database and go on with what they read before; a connection may end at any await; a rejection nobody waits for ends the process | messages are routed to the user's own session, no seat or meeting keeps a departed session, a meeting's fields agree and it is an instance of an abstract one, the database shows who has left as online only for a reason that passes, and comes to show who is there |
| Offices of a process (`VOffice.roomsMap`, `whiteboardRoomIds`, `main.ts`) | the offices, the office of each room, whiteboard ids in use | `onCreate`, `onDispose`, `ROOM_DISPOSE` from HTTP | an office is registered before it has opened; rooms are deleted and shut while offices open and end | ids belong to one open office each, `roomsMap` leads to the room's office, those inside are told of its closure |
| Chat in the office (`ADD_CHAT_MESSAGE`, `modules/chat`) | member lists, stored messages, what each client was sent | send, add and delete members, load history | handlers overlap between reading the list, storing and sending | nothing shown that is not stored, one order for all, nothing missed, nobody shown what is not for them |
| Rooms over HTTP (`modules/rooms/controller.ts`, `service.ts`, `guard/`) | rooms, members, the plan's limit, lobby and other chats, join links in Redis | create, join (two ways), invite, leave, remove, settings, delete, create chat | every check is one call and every write another; no transactions | plan kept, members once, lobby and room together, nobody in uninvited, truthful answers |
| Subscriptions (`modules/payment`, `modules/subcription`) | subscription documents, rooms shut for them, Stripe's own records | checkout, retry, cancel, webhooks | events come late, twice and out of order, and race the customer's requests | active means completed, cancelled means not billed, one event leads to one subscription |
| Tokens (`modules/token`, `modules/auth`) | documents of access and refresh tokens | sign in, refresh, log out, guard | revoking and storing are separate calls; a token is a function of the second it is signed in | revoked stays revoked, what was held at a logout stays refused, the pair handed out works |
| Sign-up (`modules/auth`, `modules/cache`) | account, free plan, one-time password, wrong tries | login, Google, verify | first logins overlap, and verifications; keys expire; a call nobody waits for ends the process | one account, one free plan, a password accepted a bounded number of times |
| Maps, characters, plans, profiles | one collection each, the map of a room | create, change | a copy in hand is older than what it overwrites; names are checked before they are stored | a save changes what it was asked to |
| Listings and statistics (`paginate`, `countByDate`) | none of their own | read page by page, count day by day | documents come and go between the queries | nothing that stays is skipped, the count of a past day misses only sign-ups stored late |
| Uploads, database wrapper, logging, configuration | none across calls | one call each | nothing interleaves | not modelled |

The components interact through the database (the office reads and appends to
chats that HTTP requests create, change and delete; a subscription's end shuts
rooms; joining and leaving an office writes to its room's members) and through
one call, `VOffice.sendRoomMessage`, by which the HTTP side tells the clients of
an office that its room is deleted or shut. Redis holds the one-time passwords
and the join links; Stripe calls back through the webhook.

## Modules and code

**`MeetingCommands`** holds what one synchronous command does to one meeting:
`AddUser`, `RemoveUser`, `SetLock` (`commands/MeetingUpdateArrayCommand.ts`) and
`DropUser` (the loop of `onLeave`). `DropUser` keeps the two facts of the code
that are easy to miss: the hand-over stores `values[0]` of a *method*, which is
`undefined`, and an emptied meeting keeps its lock and chat. The title is set
with the chat's id and read nowhere, so `chatId` stands for both.

**`OfficePresence`** is the connection side. A session goes `away` -> `joining` ->
`in` -> `gone`, or to `refused` when the write of `onJoin` fails; a connection may
also end while `onJoin` waits (`early`), and `onJoin` then finishes without it
(`lost`). `Join` is the stretch of `onJoin` before its await and
`JoinWritten`/`JoinRefused` what follows it. `LeavePresence` starts the write of `online: false` that nobody waits for,
and `OfflineWritten` is its arrival.

**`VOffice`** composes both with furniture and meetings. Every message handler
without an await is one action; `CONNECT_TO_MEETING` is four: `ConnectToMeeting`
(the message), `UserFound`, then `ChatCreated`, or `ChatFound` and `ChatSaved`.
A request holds the client it captured even after that client has left, and the
account that the message names: the chat lists that one, and nothing compares it
with the account the client was authenticated for. Clients of `Candid` sessions name
their own, others any.
`entries[c][u]` counts how often chat `c` lists user `u`.

**`MeetingRooms`** is the abstract specification of the meetings of an office: who
is inside, who is in charge, whether it is locked, and four moves (`Enter`,
`TurnLock`, `End`, `Depart`). It knows no chats, no database and no request in
progress. `VOffice` instantiates it (`Room`) with `insideOf`, `chargeOf` and
`lockedOf`; `MeetingsAreRooms` says that every behaviour of the office is one of it.
A promise the code does not keep is not in it: `Depart` leaves a meeting without
anybody in charge, and an emptied meeting may stay locked.

**`OfficePlayers`** composes `OfficePresence` with the attributes of players and with
the end of the process. What a client reports of itself (place, animation, name,
meeting status, media flags) is copied from its message: `report` stands for all of
it. Choosing a character waits for the database (`ChooseCharacter`, then
`CharacterFound`, `CharacterUnknown`, or a rejection). `Stop` ends the process:
`Killed` by a crash, or because nobody caught a rejection (`CharacterFoundTooLate`,
`CharacterRefused`, `OfflineRefused`). Colyseus then sees the clients off, so
`online: false` may or may not still be written for each; after a crash only writes
already under way may be. `Restart` is docker-compose's `restart: always`: an empty
office on the database as it was left. `before` remembers which sessions an earlier
process has seen.

**`OfficeHosts`** looks at the offices of one process from outside: `Create` is
`onCreate` up to its await, `Furnished` or `Failed` the rest, `Dispose` the end by
the monitor with `onDispose`. `DeleteRoom` and `ShutRoom` write the room and
`SendRoomMessage` tells the clients of the office that `roomsMap` names, a step
later. The public lobby (`main.ts:57`) has no document and never opens.

**`ChatDelivery`** composes `OfficePresence` with `ADD_CHAT_MESSAGE`
(`SendMessage`, `ChatRead`, `MessageStored`, `Delivered`), the two HTTP calls that
change a member list and the loading of the history. A client is what it has been
sent (`inbox`) and how much it had loaded (`loadedAt`).

**`RoomRegistry`** runs each HTTP request from one database call to the next: a
request's `pc` names the call it is about to make. `Patient` users' clients wait
for each answer before they send again, while the requests of others overlap;
`Unlucky` users' calls may fail between two writes, those of others only where
nothing has been written yet. So one module says both what holds for a user who
behaves, whatever others do, and what holds for all. A room is listed by
`GET /rooms` as soon as it is stored, before its lobby is stored and its creation
answered, so every request may name it then; `early` is history and remembers who
did.

**`Subscriptions`** has Stripe as an external party: `checkout[x]` is a checkout
and the subscription it becomes, `Pay`, `InvoiceUnpaid`, `InvoicePaidLate` and
`EndedAtStripe` are the customer's and Stripe's moves, and an event may be handled
at any time after its cause and any number of times. `Saved` writes the changed
fields only, as mongoose does. Handlers of a `Contested` subscription may overlap
and fail; those of others follow one another.

**`TokenPairs`** keeps the tokens of one user (no call touches another's) as
sequences of documents, since `findOne` returns the first that matches. A pair is
named by the second it was signed in; pairs of one second are the same strings.
`current`, `alone` and `ended` are history for the properties.

**`SignUp`** is the account of one address, with its cache keys and their expiry. Any
call of a request may fail (`Abandoned`). The mail with a password and the removal of
an accepted one are not waited for: their rejection ends the process and every request
in it (`ProcessEnds`), and a removal under way may be lost with it. `cut` and `kept` are
history: a login was cut short before it subscribed, and the passwords whose removal
was lost.

**`Catalog`** holds what administrators keep: maps (create, and `PUT`, which finds a
document, sets what is given and saves the fields that differ), characters and
plans (a name is looked for, then the document stored), profiles, and the map of a
room. **`Listings`** holds a collection that others write to while a reader turns the
pages of `paginate` until one is short, and while `countByDate` counts every day by
a query of its own. mongoose stamps a document (`Stamp`) before its insert is sent, and
the database carries inserts out in any order (`Store`). **`Admission`** is one room with one chat and the requests that go
through `AuthGuard`, the guards of room and chat, the checks of privacy, join links
and invitations; every database or cache call is a step, and the answer a status with
what it names. These and `SignUp` share no state; **`MCDirectory`** puts the four side by
side, and a behaviour takes one of them. Its `VIEW` leaves out what no step and no
property reads: of an answer all but what `StatusTruthful` compares with the state, of a
page all but whether it was full.

Definitions that begin `(* Variant: ...` are altered copies of the definition
below them. No specification uses them: each shows that some property notices
a plausible slip there. `MC*` modules name the model values and symmetry sets of
the instances; `*Proofs` modules hold theorems.

## Runs

`tlc -workers 2 -config <name>.cfg <module>`. Every run that passes
exhausts its state space (distinct states in the third column).

| Run | Instance | States | What it shows |
|---|---|---|---|
| `office_seats` | three connections, two of one account, all may drop, two may be refused; two chairs, a whiteboard | 11 k | routing, seats, who has left is shown online only for a reason; with fairness, departed users go offline |
| `office_meetings` | three users, all may drop, one meeting, two `CONNECT_TO_MEETING` in progress, two chats | 740 k | fields agree, the meeting is one of `MeetingRooms`, and until somebody drops it has its admin and ends as new |
| `office_claims` | two users, of whom one names any account, both may drop; one meeting, two `CONNECT_TO_MEETING` in progress, two chats | 192 k | who names its own account is in a group chat while in a meeting |
| `office_players` | three connections, two of one account, two may drop and one be refused; two characters, two look-ups, one end of the process | 885 k | attributes belong together; whoever is there is shown, and visitors go offline although a process ended |
| `office_hosts` | a room and the public lobby, three offices, two connections, three whiteboard ids, two HTTP requests | 271 k | ids, `roomsMap`; with fairness, everybody inside is told of the room's closure |
| `chat_delivery` | three connections of two users, two messages handled at once, one connection may drop | 5.9 M | stored, ordered, complete, addressed |
| `rooms_limits` | a patient user, another with overlapping requests and failing calls, two rooms, limit 1, one chat | 5.0 M | the plan kept by the first and missed by a bounded number by the second, members once |
| `rooms_lobby` | three users, one with failing calls, one room, one chat, two requests | 3.2 M | the lobby lists the members and has its room, but for those who come before it |
| `subscriptions` | two users, one contested subscription and one not, two checkouts, two handlers | 2.1 M | completed, billed, unique, shut for cause |
| `tokens` | two requests, seconds 0..2, four documents of each type | 181 k | revocation, logout, working pairs |
| `directory` | two requests each. Sign-up: two passwords, two wrong tries; catalogue: two maps, names and sizes; listings: four documents, pages of 1 and 2 and unlimited, three days; admission: two visitors, one link | 2.1 M | one account, one plan, few acceptances; saves keep other fields; nothing skipped, past days miss only late sign-ups; truthful answers, nobody uninvited |

One more run, `office_handover`, checks a sentence of the source that the code
does not keep (see the next section).

**Why the bounds are enough.** The races in this code are between two handlers,
or a handler and a departure or a deletion: two requests reach each of them, and
the third session is there so that a meeting outlives a departure (admin, one who
stays, one who comes). Chairs, whiteboards, meetings and chats do not affect one
another, so one or two of each suffice. Two chats are the least with which a
meeting's chat can be replaced. `MaxEntries` is 1 where it matters only whether a list
names a user, and 2 in `rooms_limits`, where it tells "once" from "more than once".
Limit 1 with two rooms puts the check of the plan at its boundary and lets it be missed;
the chats are not looked at there, so one is enough for lobbies to be stored or to wait.
Three users of one room are its creator, somebody whose calls fail and somebody whose do
not. Three seconds give a pair before, in and
after another's; four documents hold two full sign-ins and two pairs in flight.
One end of the process has sessions before it, during it and after it; two offices
of one room and one of another are the least that confuse `roomsMap`, and three ids
are exactly used up by them. Four documents and pages of one or two give a page
before, at and after each insertion or deletion, and the empty last page; three
days have a past, a present and a future.
`MaxDocs` and the clock run out in `tokens`, every connection ends in the office
and chat runs, offices are not reborn and documents and links run out, so these permit
a final state (`CHECK_DEADLOCK FALSE`); the registry and subscriptions runs are checked
for deadlock, since a request can always be sent.

**Fairness** is stated in three modules, and used for one property each. In
`VOffice!FairSpec` (`DepartedGoOffline`) the database answers every call in the
end: a session that is joining gets in, an offline write that was sent arrives,
and a request in progress moves on or fails. `OfficePlayers!Spec`
(`VisitorsGoOffline`) says the same while the process is up, and that
docker-compose restarts it. In `OfficeHosts!Spec` (`ClosureReaches`) a request
whose write was answered goes on to its notice, which is sent without another
await. Nothing is assumed of clients: they need not connect, leave, or send
anything. No end of a process is ever required to happen. Symmetry is not used in
these runs.

**Conditions in properties.** `OnlineIsAccountedFor`, `DepartedGoOffline` and
`VisitorsGoOffline` leave out connections that ended while `onJoin` was waiting, the last
also users who have not come back since a process ended: nothing at start-up resets
`online`. `AdmittedAreInAChat` is about clients that name their own account.
`PresentAreShown` is about users with one connection in this life of the process.
`NothingMissed` is about a user with one connection, for `mapClients` holds one per
user. `EmptyMeetingIsReset` and `AdminUntilDropped` hold until a connection drops.
`ClosureReaches` and the first part of `RoomsMapLeads` are about rooms that have had
one office. `MembersOnce` is about patient users, `CancelledEndsBilling` about
uncontested subscriptions. `LobbyListsMembers` leaves out members who came before the
lobby was stored, and `LobbyHasRoom` rooms on which their creator acted before their
creation was answered. `FreePlanOnce` lets an account be without a plan where a login was
cut short, and `AcceptedAtMostInFlight` leaves out passwords whose removal was lost.
`PastDaysMissOnlyLate` lets a count miss sign-ups stored after it was asked for.
`NoneSkipped` leaves out
documents that share their millisecond with another, and those a deletion may have
moved to an earlier page. `StatusTruthful` leaves out answers to a failed call, answers
that name a user (there is no other truth to hold them against), and the 500 of an
invitation, whose inviter may have no active subscription. Each
condition is necessary: without it the code fails the property.

## What the code gets wrong

Checked as a run that ends in a counterexample:

| Run | The source says | What happens |
|---|---|---|
| `office_handover` | `VOffice.ts:429` "check if admin leave, give authority to second user join" | `connectedUser.values[0]` is undefined: the meeting goes on without an admin, and nobody can lock, unlock or end it |

Kept beside it are the other expectations that do not hold of the code. A
configuration with several lists one of them and the others as comments: give TLC
one at a time. Each is replayed in seconds to two minutes.

| Configuration | Module | Expectations that fail |
|---|---|---|
| `meeting_replays` | `MCVOffice` | participants are players (the client left while its connect was waiting); a chat lists a user once (an ObjectId is compared with a string); everyone in a meeting is in a chat (a client names another account); an open meeting has a chat (it ended and was reset during the wait); an empty meeting is unlocked (the last participant of a locked one drops); a new chat is made only for an empty meeting (`VOffice.ts:104`; two first comers) |
| `office_online` | `MCVOffice` | users without a connection are shown offline (it ended while `onJoin` was waiting, and `online: true` was the later write) |
| `office_crash` | `MCOfficePlayers` | departed users go offline although the process ends |
| `host_replays` | `MCOfficeHosts` | an open office can be told of its closure (a second one took its place in `roomsMap` and failed); nobody enters the office of a deleted room |
| `chat_sender` | `MCChatDelivery` | a message is not shown to its sender |
| `room_replays` | `MCRoomRegistry` | no room exceeds the plan's capacity; nobody joins an inactive room; the lobby lists a member once; every chat's room exists; two users share one private chat; a lobby always has its room (the creator deletes the room between `rooms/controller.ts:80` and `:82`) |
| `sub_replays` | `MCSubscriptions` | who is refused for having the plan has it; a plan is active once per user; no active subscription after its deletion was handled, nor after a failed invoice; what is paid is found (`payment/controller.ts:138`; the session before the retry is paid) |
| `directory_replays` | `MCDirectory` | the total tells the end; nothing is skipped among documents of one millisecond; counts rise from day to day; the counts of past days are exact (a sign-up stamped before midnight is stored later); a name is given once; the map of a room fits its plan; 401 means an expired token; a chat the guard found is there; who comes through the open door finds it open; an account has its free plan although a login was cut short; a one-time password is accepted once; wrong tries add up (one that was read early is written late) |
| `token_same_second` | `MCTokenPairs` | the pair handed out last works, whatever else was signed in its second |

## Proofs

`tlapm <module>` for `VOfficeProofs`, `OfficePlayersProofs`, `OfficeHostsProofs`,
`ChatDeliveryProofs`, `RoomRegistryProofs`, `SubscriptionsProofs`,
`TokenPairsProofs` and `DirectoryProofs`, the last for the parts behind the HTTP
interface that share no state (`SignUp`, `Admission`, `Catalog`, `Listings`). Every
safety and action property that a passing run checks is a theorem, for all values of
the constants; the three liveness properties are not.

What is assumed of the constants is named where they are declared
(`PresenceAssumption`, `OfficeAssumption`, `EntriesAssumption`, `PlayersAssumption`,
`HostsAssumption`, `DeliveryAssumption`, `RegistryAssumption`, `NoChatAssumption`,
`SubscriptionsAssumption`, `NoSubAssumption`, `TokenAssumption`, `SignUpAssumption`,
`AdmissionAssumption`, `CatalogAssumption`, `ListingsAssumption`): a sentinel is none
of the values it stands beside, bounds and counters are numbers, and the sets of
rooms and of requests in flight are finite where a proof counts them. Each is evaluated
by TLC in a run.

The pattern is the same everywhere: an inductive invariant, checked by TLC on the
run's instance before it was proved, one lemma per way a step can change the state,
and the property from the invariant. What each invariant adds, and why the property
alone is not inductive:

*The office* (`VOfficeProofs`). `RoutingCorrect` and `SeatsCorrect` rest on
`PresenceInv`, which adds that players are exactly the connections held or refused:
only from it does it follow that who sends a message has a player, and that the
session a departure unmaps is the one that leaves or another of the user's.
`SoleSessionsReached` adds that the route of a user leads to a connection that is
there as long as there is one. For meetings, four lemmas say what one command keeps,
and `MeetingStep` that every step changes a meeting by one command, preceded in
`ChatCreated` by a new chat id; consistency and the three laws on lock and admin
(`LockHolds`, `LockBelongsToAdmin`, `AdminKeepsOffice`) follow without looking at the
handlers again. *The refinement*, `OfficeImplementsRooms`, maps each command to the
move of `MeetingRooms` it is, and a departure, which changes several meetings at once,
to one `Depart`; consistency is needed to know that the admin whose command turns a
lock or ends a meeting is inside. An undefined admin counts as nobody.
`OnlineAccounted` is inductive with the types: a write that shows a user online is that
of a connection which is then in, or lost. `MeetingUsersChat` needs that a request past
its `find` names a chat that exists, that a request of a client which names its own
account lists that account (`NamesOwn`), and that entries never shrink. The two steady
theorems hold of every prefix of a behaviour in which no connection has dropped:
`NobodyDropped` cannot become true again, and under it `SteadyInv` is inductive.

*Players and the process* (`OfficePlayersProofs`). `LooksCorrect` holds of every
player record, in the room or not (`AllPaired`), for a look-up that was started
before a departure is answered after it. `PresentShown` needs `BeforeAreGone`: the
sessions of an earlier process are gone, and no write of a departure is theirs, so
that a late `online: false` belongs to a connection of this life of the process.

*Offices of a process* (`OfficeHostsProofs`). `OwnIds` and `Leads` say id by id and
office by office what `IdsAccountedFor` and `RoomsMapLeads` say of sets; `Staged`
adds that whiteboards are held only while an office is open. `AllInsideTold` is the
safety half of `ClosureReaches`: a request that has closed a room does not end
before those inside its only office were told. It needs that whoever is inside is
inside an open office (`Inhabited`), which `roomsMap` therefore leads to.

*Chat* (`ChatDeliveryProofs`). The history holds exactly the messages whose handlers
have stored them, each once (`LogHoldsStored`, `StoredIsInLog`, `LogHoldsOnce`), and a
message is shown by its handler's last step and by entry of the list that the
handler read (`ShownWhenDone`, `ShownByEntry`). That gives `ShownStored` and
`ShownListed`; `SameOrder` because a delivery appends one message to all inboxes at
once; `NothingIsMissed` because a history that is loaded before a message is stored is
loaded by a client that its delivery reaches, which is where the reachability of sole
sessions is needed.

*The registry* (`RoomRegistryProofs`). `TypeCorrect` carries which room a request
names at which step. `OvershootIsBounded` and `PlanIsKept` come from one counting
argument: every request that passes the check has seen fewer than `MaxRoom` rooms,
and at most `Parallel(u)` of them are between check and store. `MembershipOnce` needs
that a patient user has one request in flight, and that while it is at `push` the
user is not on the list. `LobbiesHaveRooms` needs that one request stores the lobby of a
room, its creator's own (`SoleCreator`), that a room is deleted by its creator only
(`Deleters`), so before its lobby is stored only by one who was early, and that it reaches
`delete` with its lobby cleared (`ClearedFirst`). `LobbyIsComplete` goes further: while
the lobby is not stored, every member but the creator has been early (`Fresh`), and once
it is, a member whose request is past the lists is in it
(`Complete`); every other request keeps other rooms' lists and its own room's whole.

*Subscriptions* (`SubscriptionsProofs`). The steps are sorted into nine kinds first
(a request begins, creates, opens, saves, cancels, activates, stops, goes on quietly,
or a checkout turns at Stripe), and the invariant is kept by each. What a document
names was opened for it, and an active one has been bought (`EachNamesItsOwn`); a request in
flight holds a checkout of the document it works on (`Known`), and no two are about
to save the same session (`OwnSession`). `CancelledEnds` needs that an uncontested
subscription has one request at work (`Alone`) which has it as it is stored
(`UpToDate`): otherwise the checkout it ends may not be the one that is billed.

*Tokens* (`TokenPairsProofs`). Counting again: a request has revoked since it stored
a valid refresh token, if it is about to store another (`OneEach`, for `FewValid`),
and a refresh token, stored or about to be, has an access token of its second before
it (`Paired`). `Paired` and `HeldStored` give `DeadTokens`: `findOne` returns the first
document of a string, so a string once revoked is refused although it is stored again.
`LogoutIsForGood` follows from it step by step (`EndedRefused`). `Undisturbed` says what a request that nothing overlaps has done
so far, and yields `NoOtherPair` and `PairAccepted`.

*Signing up* (`DirectoryProofs`). `OnePlan`: the account is stored once, and only the
request that stored it subscribes it, unless it is cut short. `UsesCounted` bounds how
often a password whose removal was not lost is accepted by the requests that are about to
verify or to remove it. *The way in*: `StatusesAreTrue` is inductive with the types and
with what is asked by whom (`Planned`: only an invitation looks for a subscription),
because sessions only end and what is deleted does not come back; `NobodyComesUninvited` needs `Invited`: who is on the way to the step that
makes a member found the room public or had a link, and was so shown in for good.
*What administrators keep*: `SavesLeaveOtherFields` needs only the types and that a
map about to be saved is stored. *What they read*: `PastDaysMissLittle` needs that users
are not deleted and that what is stored only grows. `ReadersMissNothing` is an argument
about places: a document alone in its millisecond comes in every listing right after
those ahead of it (`PlaceOf`, a bijection), insertions only push it back, and so what
is still missed lies behind the pages read, which were full (`Behind`).

*Model-checked only:* `DepartedGoOffline`, `VisitorsGoOffline` and `ClosureReaches`:
liveness under fairness, and ENABLED, are outside the prover's reach. No module
declares a RECURSIVE operator, and nothing here needs induction over data.

## Assumptions

- *Colyseus:* a client's messages come only after its `onJoin` completed, its
  `onLeave` as soon as its connection ends, during `onJoin` or later; a connection
  that ends during `onAuth` does not reach `onJoin`; a client whose `onJoin` throws
  is dropped without `onLeave`; a session id is never reused; handlers run to their
  next await.
- *MongoDB and mongoose:* one call is atomic, calls of different requests take
  effect in any order, a document is stamped by the clock of the process before it is
  sent, `save` writes modified paths only and an array append as a
  `$push`, saving a deleted document fails, and unique indexes hold.
- *Clients:* send what they like when they like, except that those of `Candid` sessions
  name their own account and those of `Patient` users wait for each answer.
- *Stripe:* reports every change at least once, in any order; a checkout not yet
  paid stays open.
- *JWT and Redis:* `iat` has whole seconds, `findOne` returns the document stored
  first, keys with an expiry may vanish at any time.
- *Process:* Node 18 raises a rejection that nobody handles as an uncaught
  exception; Colyseus then disconnects its clients, which runs their `onLeave`, and
  ends the process; docker-compose starts it again. A crash runs nothing. Writes
  under way at the end may or may not be carried out.

## Not modelled

Three messages of the office that only pass a signal on to other clients
(`STOP_SCREEN_SHARE`, `MEETING_STOP_CAMERA_SHARE`, `DISCONNECT_STREAM`) and the
schema's unused list of messages; message text, titles, dates, prices, mails and
cookies, which decide at most whether a request is refused, and a refusal is always
possible in the models; token expiry; populated fields and projections of queries;
the five totals of `getStats`. `RolesGuard`, the exception interceptor and the response
interceptor are installed nowhere; `transferOwnership` is a stub,
`handleInvoicePaymentFail` and `MapService.update` are never called. Searches by
text fail for a misspelt operator (`$option`), which the models take for a refusal.
Uploads, the generic database wrapper, configuration, health checks, the HTTP
client and mail templates keep no state.

## Plan

Done: the models of every component in the table above but the last, their runs, and
a theorem for every safety and action property that a run checks. What is left:

1. The safety half of `VisitorsGoOffline` across ends of the process, as
   `OnlineIsAccountedFor` is that of `DepartedGoOffline` within one.
2. An abstract specification of a chat as its members see it (one history, extended
   by whole messages), and `ChatDelivery` shown to implement it; the same for a
   room's membership and `RoomRegistry`.
