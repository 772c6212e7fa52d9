----------------------------- MODULE Admission -----------------------------
(***************************************************************************)
(* What a request over HTTP passes before a room takes a user or a chat    *)
(* changes: AuthGuard, the guards that look for the room and the chat, the *)
(* links that open a private room for a day (src/modules/rooms/service.ts),*)
(* and the status with which AppExceptionFilter answers a refusal.         *)
(*                                                                         *)
(* Every database or cache call of a request is a step.  One room with one *)
(* chat; what joining stores besides the member is in RoomRegistry, what   *)
(* the handlers of a chat's members store in ChatDelivery.                 *)
(***************************************************************************)
EXTENDS Naturals, FiniteSets

CONSTANTS Visitors,       \* users; who belongs to the room changes
          Links,          \* bound: tokens of join links ever made
          Visits,         \* bound: requests in flight at once
          RoomCapacity    \* maxRoomCapacity of the inviter's plan

ASSUME AdmissionAssumption == RoomCapacity \in Nat

VARIABLES
    session,  \* users whose access token is stored and not revoked
    door,     \* the room: exists, active, private
    opened,   \* history: the room has been public at some time
    members,  \* users among its members
    chat,     \* its chat exists
    link,     \* link[l]: never made, in the cache, or expired
    visit     \* the requests in flight and their answers

admissionVars == <<session, door, opened, members, chat, link, visit>>

Operations == {"view", "join", "joinByToken", "joinLink", "invite",
               "addMember", "deleteMember"}
ChatOperations == {"addMember", "deleteMember"}
NoVisit == [pc |-> "none"]
VisitRecords ==
    [pc : {"auth", "guard", "room", "link", "member", "push", "plan", "invitee",
           "make", "mail", "chat", "handler", "named", "inChat", "write"},
     op : Operations, by : Visitors, with : Links, barred : BOOLEAN]
        \cup [pc : {"answered"}, status : {200, 400, 401, 403, 404, 500},
              about : {"none", "room", "chat", "user"},
              op : Operations, by : Visitors, failed : BOOLEAN]

AdmissionTypeOK ==
    /\ session \subseteq Visitors
    /\ door \in [exists : BOOLEAN, active : BOOLEAN, private : BOOLEAN]
    /\ opened \in BOOLEAN /\ chat \in BOOLEAN
    /\ members \subseteq Visitors
    /\ link \in [Links -> {"none", "live", "gone"}]
    /\ visit \in [Visits -> VisitRecords \cup {NoVisit}]

AdmissionInit ==
    /\ session = Visitors
    /\ \E private \in BOOLEAN :
         /\ door = [exists |-> TRUE, active |-> TRUE, private |-> private]
         /\ opened = ~ private
    /\ members = {}
    /\ chat = TRUE
    /\ link = [l \in Links |-> "none"]
    /\ visit = [q \in Visits |-> NoVisit]

Waits(q, pc) == visit[q].pc = pc
GoesTo(q, pc) == visit' = [visit EXCEPT ![q].pc = pc]

(* An answer names what it is about, or nothing; failed: a call did fail.  *)
Respond(q, status, about, failed) ==
    visit' = [visit EXCEPT ![q] =
        [pc |-> "answered", status |-> status, about |-> about,
         op |-> visit[q].op, by |-> visit[q].by, failed |-> failed]]
Reply(q, status) == Respond(q, status, "none", FALSE)
ReplyAbout(q, status, about) == Respond(q, status, about, FALSE)
Fail(q, status) == Respond(q, status, "none", TRUE)
Rest == UNCHANGED <<session, door, opened, chat>>

-----------------------------------------------------------------------------
Request(q, op, u, l) ==
    /\ visit[q].pc \in {"none", "answered"}
    /\ visit' = [visit EXCEPT ![q] = [pc |-> "auth", op |-> op, by |-> u,
                                      with |-> l, barred |-> FALSE]]
    /\ UNCHANGED <<members, link>> /\ Rest

(* The operations that a guard looks for the room for.                     *)
Guarded(q) == visit[q].op \in {"view"} \cup ChatOperations

CanActivate(q) ==
    /\ Waits(q, "auth")
    /\ IF visit[q].by \notin session THEN Reply(q, 401)
       ELSE GoesTo(q, IF Guarded(q) THEN "guard" ELSE "room")
    /\ UNCHANGED <<members, link>> /\ Rest

RoomGuard(q) ==
    /\ Waits(q, "guard")
    /\ IF ~ door.exists THEN ReplyAbout(q, 404, "room")
       ELSE GoesTo(q, IF visit[q].op = "view" THEN "room" ELSE "chat")
    /\ UNCHANGED <<members, link>> /\ Rest

(* What follows once the handler has found the room.                       *)
AfterRoom(op) ==
    CASE op \in {"view", "join"} -> "member"
      [] op = "joinByToken"      -> "link"
      [] op = "invite"           -> "plan"
      [] OTHER                   -> "make"

Joins(q) == visit[q].op \in {"join", "joinByToken"}

(* Variant: a room that is shut down is answered like one that is not there.*)
RoomStatusHidden(q) ==
    IF ~ door.exists \/ (Joins(q) /\ ~ door.active) THEN 404 ELSE 200

RoomStatus(q) ==
    CASE ~ door.exists -> 404
      [] door.exists /\ Joins(q) /\ ~ door.active -> 403
      [] OTHER -> 200

(* What handlers ask later of the room in hand: two of them whether it is  *)
(* private, and that of an invitation whether it is full.                  *)
Barred(op) ==
    \/ op \in {"view", "join"} /\ door.private
    \/ op = "invite" /\ Cardinality(members) >= RoomCapacity

RoomFound(q) ==
    /\ Waits(q, "room")
    /\ CASE RoomStatus(q) = 404 -> ReplyAbout(q, 404, "room")
         [] RoomStatus(q) = 403 -> Reply(q, 403)
         [] OTHER -> visit' = [visit EXCEPT ![q].pc = AfterRoom(visit[q].op),
                                            ![q].barred = Barred(visit[q].op)]
    /\ UNCHANGED <<members, link>> /\ Rest

(* Variant: any token opens the room.                                      *)
TokenUnchecked(q) ==
    /\ Waits(q, "link")
    /\ GoesTo(q, "member")
    /\ UNCHANGED <<members, link>> /\ Rest

JoinTokenChecked(q) ==
    /\ Waits(q, "link")
    /\ IF link[visit[q].with] = "live" THEN GoesTo(q, "member") ELSE Reply(q, 400)
    /\ UNCHANGED <<members, link>> /\ Rest

(* A private room is shown to members, and opens to them only.             *)
Insider(q) == visit[q].by \in members
Verdict(q) ==
    CASE Insider(q) /\ visit[q].op = "joinByToken" -> 400
      [] Insider(q) /\ visit[q].op # "joinByToken" -> 200
      [] ~ Insider(q) /\ visit[q].barred -> IF visit[q].op = "join" THEN 403 ELSE 400
      [] OTHER -> 200

UserInRoomChecked(q) ==
    /\ Waits(q, "member")
    /\ IF ~ Insider(q) /\ ~ visit[q].barred /\ visit[q].op # "view"
       THEN GoesTo(q, "push") ELSE Reply(q, Verdict(q))
    /\ UNCHANGED <<members, link>> /\ Rest

(* Saving a room that is gone is an error.  Once it is saved, the lists of *)
(* its public chats are, and the room is read again: a call that fails     *)
(* leaves the member in.                                                   *)
MemberJoined(q) ==
    /\ Waits(q, "push")
    /\ IF door.exists
       THEN /\ members' = members \cup {visit[q].by}
            /\ Reply(q, 200) \/ Fail(q, 500)
       ELSE UNCHANGED members /\ Reply(q, 500)
    /\ UNCHANGED link /\ Rest

(* The inviter's subscription tells how many members its rooms may have;   *)
(* without an active one the handler fails on null.                        *)
InviterPlanFound(q) ==
    /\ Waits(q, "plan")
    /\ \/ Reply(q, 500)
       \/ IF visit[q].barred THEN Reply(q, 400) ELSE GoesTo(q, "invitee")
    /\ UNCHANGED <<members, link>> /\ Rest

(* Whoever is invited may be a member, a user who is not, or a stranger.   *)
InviteeChecked(q) ==
    /\ Waits(q, "invitee")
    /\ (members # {} /\ Reply(q, 400)) \/ GoesTo(q, "make")
    /\ UNCHANGED <<members, link>> /\ Rest

JoinLinkMade(q) ==
    /\ Waits(q, "make")
    /\ \E l \in Links : link[l] = "none" /\ link' = [link EXCEPT ![l] = "live"]
    /\ IF visit[q].op = "invite" THEN GoesTo(q, "mail") ELSE Reply(q, 200)
    /\ UNCHANGED members /\ Rest

JoinLinkSent(q) ==
    /\ Waits(q, "mail")
    /\ Reply(q, 200)
    /\ UNCHANGED <<members, link>> /\ Rest

ChatGuard(q) ==
    /\ Waits(q, "chat")
    /\ IF chat THEN GoesTo(q, "handler") ELSE ReplyAbout(q, 404, "chat")
    /\ UNCHANGED <<members, link>> /\ Rest

(* The handler looks for the chat again and uses what it finds unchecked;  *)
(* whoever is not its member, or its admin, is turned away.                *)
ChatFound(q) ==
    /\ Waits(q, "handler")
    /\ IF chat THEN Reply(q, 403) \/ GoesTo(q, "named") ELSE Reply(q, 500)
    /\ UNCHANGED <<members, link>> /\ Rest

(* The user named in the body is known or not.                             *)
MemberNamed(q) ==
    /\ Waits(q, "named")
    /\ \/ ReplyAbout(q, 404, "user")
       \/ GoesTo(q, IF visit[q].op = "addMember" THEN "inChat" ELSE "write")
    /\ UNCHANGED <<members, link>> /\ Rest

(* An ApiException without a status is a 500.                              *)
MemberSought(q) ==
    /\ Waits(q, "inChat")
    /\ (chat /\ ReplyAbout(q, 500, "user")) \/ GoesTo(q, "write")
    /\ UNCHANGED <<members, link>> /\ Rest

(* Saving a chat that is gone is an error; pulling from it is not.         *)
ChatMembersWritten(q) ==
    /\ Waits(q, "write")
    /\ Reply(q, IF visit[q].op = "addMember" /\ ~ chat THEN 500 ELSE 200)
    /\ UNCHANGED <<members, link>> /\ Rest

(* A call fails: guards answer for what they look for, whatever went wrong. *)
FailureStatus(q) ==
    CASE Waits(q, "auth") -> 401
      [] Waits(q, "guard") -> 404
      [] Waits(q, "chat") -> 404
      [] OTHER -> 500

CallFails(q) ==
    /\ visit[q].pc \notin {"none", "answered"}
    /\ Fail(q, FailureStatus(q))
    /\ UNCHANGED <<members, link>> /\ Rest

-----------------------------------------------------------------------------
(* Meanwhile                                                               *)

LoggedOut(u) ==
    /\ u \in session
    /\ session' = session \ {u}
    /\ UNCHANGED <<door, opened, members, chat, link, visit>>

SettingsChanged(active, private) ==
    /\ door.exists
    /\ door' = [door EXCEPT !.active = active, !.private = private]
    /\ door' # door
    /\ opened' = (opened \/ ~ private)
    /\ UNCHANGED <<session, members, chat, link, visit>>

ChatsDeleted ==
    /\ chat
    /\ chat' = FALSE
    /\ UNCHANGED <<session, door, opened, members, link, visit>>

Deleted ==
    /\ ~ chat /\ door.exists
    /\ door' = [door EXCEPT !.exists = FALSE]
    /\ members' = {}
    /\ UNCHANGED <<session, opened, chat, link, visit>>

MemberGone(u) ==
    /\ u \in members
    /\ members' = members \ {u}
    /\ UNCHANGED <<session, door, opened, chat, link, visit>>

(* Keys that are set with EX disappear from the cache.                     *)
LinkExpired(l) ==
    /\ link[l] = "live"
    /\ link' = [link EXCEPT ![l] = "gone"]
    /\ UNCHANGED members /\ UNCHANGED visit /\ Rest

AdmissionNext ==
    \/ \E q \in Visits :
         \/ \E op \in Operations, u \in Visitors, l \in Links : Request(q, op, u, l)
         \/ CanActivate(q) \/ RoomGuard(q) \/ RoomFound(q) \/ JoinTokenChecked(q)
         \/ UserInRoomChecked(q) \/ MemberJoined(q)
         \/ InviterPlanFound(q) \/ InviteeChecked(q)
         \/ JoinLinkMade(q) \/ JoinLinkSent(q)
         \/ ChatGuard(q) \/ ChatFound(q) \/ MemberNamed(q) \/ MemberSought(q)
         \/ ChatMembersWritten(q) \/ CallFails(q)
    \/ \E u \in Visitors : LoggedOut(u) \/ MemberGone(u)
    \/ \E active, private \in BOOLEAN : SettingsChanged(active, private)
    \/ ChatsDeleted \/ Deleted
    \/ \E l \in Links : LinkExpired(l)

AdmissionSpec == AdmissionInit /\ [][AdmissionNext]_admissionVars

-----------------------------------------------------------------------------
(* Properties                                                              *)

Answered(q) == Waits(q, "answered")
Failed(q) == visit[q].failed
IsStatus(q, s) == Answered(q) /\ visit[q].status = s

(* An answer tells the truth unless a call failed: 401 that the token is no *)
(* longer good, 404 that the room or the chat it names is no longer there; *)
(* and a 500 that names nothing comes of a deletion that overtook the      *)
(* request, or of an invitation without a subscription (auth.guard.ts      *)
(* 33-41, room.guard.ts 14-22, chat.guard.ts 12-20, controller.ts 426-433).*)
StatusTruthful ==
    \A q \in Visits : Answered(q) /\ ~ Failed(q) =>
        LET reply == visit[q]
        IN  /\ reply.status = 401 => reply.by \notin session
            /\ reply.status = 404 /\ reply.about = "room" => ~ door.exists
            /\ reply.status = 404 /\ reply.about = "chat" => ~ chat
            /\ reply.status = 500 /\ reply.about = "none" =>
                  reply.op = "invite" \/ ~ (door.exists /\ chat)

(* Nobody becomes a member of a room that has always been private before a *)
(* link to it was made, and nobody whatever joins after it was deleted     *)
(* (rooms/controller.ts 128-148, rooms/service.ts 99-104, 129-132).        *)
NobodyUninvited ==
    [][members' \subseteq members
         \/ (door.exists /\ (opened \/ \E l \in Links : link[l] # "none"))]_members

(* 401 is answered to an expired token (auth.guard.ts 39).                 *)
TokenExpiredMeansExpired ==
    \A q \in Visits : IsStatus(q, 401) => visit[q].by \notin session

(* A chat that the guard has found is there when the handler runs          *)
(* (chat.guard.ts 13-18, controller.ts 426).                               *)
GuardedChatIsThere == \A q \in Visits : Waits(q, "handler") => chat

(* Who joins a private room by the open door found it public: a join that  *)
(* is under way when the room is made private still succeeds               *)
(* (controller.ts 145-150).                                                *)
OpenDoorIsOpen ==
    [][\/ members' \subseteq members
       \/ ~ door.private
       \/ \E l \in Links : link[l] # "none"]_members
=============================================================================
