-------------------------- MODULE MeetingCommands --------------------------
(***************************************************************************)
(* A meeting of the office (rooms/schema/OfficeState.ts, class Meeting)    *)
(* and what the synchronous commands of                                    *)
(* rooms/commands/MeetingUpdateArrayCommand.ts and the loop of onLeave in  *)
(* rooms/VOffice.ts make of it.                                            *)
(*                                                                         *)
(* A meeting's title is set and reset in the same assignments as chatId    *)
(* and read nowhere, so chatId stands for both.                            *)
(***************************************************************************)

CONSTANTS NoOne,      \* the empty string in adminUser and in a chair
          Undefined,  \* JavaScript's undefined
          NoChat      \* the empty string in chatId

EmptyMeeting ==
    [connectedUser |-> {}, isOpen |-> FALSE, chatId |-> NoChat,
     isLocked |-> FALSE, adminUser |-> NoOne]

MeetingRecords(Sessions, Chats) ==
    [connectedUser : SUBSET Sessions, isOpen : BOOLEAN,
     chatId : Chats \cup {NoChat}, isLocked : BOOLEAN,
     adminUser : Sessions \cup {NoOne, Undefined}]

(* The fields agree with one another: the meeting is open while somebody is *)
(* in it, it has no admin exactly when it is empty, and an admin is in it. *)
Consistent(meeting) ==
    /\ meeting.isOpen <=> meeting.connectedUser # {}
    /\ meeting.adminUser = NoOne <=> meeting.connectedUser = {}
    /\ meeting.adminUser \in meeting.connectedUser \cup {NoOne, Undefined}

(* Variant: whoever comes last is the admin.                               *)
AddUserAsAdmin(meeting, s) ==
    IF s \in meeting.connectedUser \/ meeting.isLocked
    THEN meeting
    ELSE [meeting EXCEPT !.adminUser = s, !.connectedUser = @ \cup {s},
                         !.isOpen = TRUE]

(* MeetingAddUserCommand: a locked meeting admits nobody; the first session *)
(* in becomes the admin.                                                   *)
AddUser(meeting, s) ==
    IF s \in meeting.connectedUser \/ meeting.isLocked
    THEN meeting
    ELSE [meeting EXCEPT
            !.adminUser = IF meeting.connectedUser = {} THEN s ELSE @,
            !.connectedUser = @ \cup {s},
            !.isOpen = TRUE]

(* Variant: the end of a meeting leaves its lock.                          *)
RemoveUserKeepingLock(meeting, s) ==
    LET staying == IF s = meeting.adminUser THEN {}
                   ELSE meeting.connectedUser \ {s}
    IN  IF ~meeting.isOpen \/ s \notin meeting.connectedUser
        THEN meeting
        ELSE IF staying = {}
             THEN [EmptyMeeting EXCEPT !.isLocked = meeting.isLocked]
             ELSE [meeting EXCEPT !.connectedUser = staying]

(* Variant: the admin leaves alone, like everybody else.                   *)
RemoveUserAlone(meeting, s) ==
    LET staying == meeting.connectedUser \ {s}
    IN  IF ~meeting.isOpen \/ s \notin meeting.connectedUser
        THEN meeting
        ELSE IF staying = {}
             THEN EmptyMeeting
             ELSE [meeting EXCEPT !.connectedUser = staying]

(* MeetingRemoveUserCommand: the admin's departure empties the meeting; an *)
(* emptied meeting is reset altogether.                                    *)
RemoveUser(meeting, s) ==
    LET staying == IF s = meeting.adminUser THEN {}
                   ELSE meeting.connectedUser \ {s}
    IN  IF ~meeting.isOpen \/ s \notin meeting.connectedUser
        THEN meeting
        ELSE IF staying = {}
             THEN EmptyMeeting
             ELSE [meeting EXCEPT !.connectedUser = staying]

(* MeetingLockCommand and MeetingUnLockCommand: the admin's privilege.     *)
SetLock(meeting, s, value) ==
    IF s = meeting.adminUser
    THEN [meeting EXCEPT !.isLocked = value]
    ELSE meeting

(* Variant: an emptied meeting stays open.                                 *)
DropUserStayingOpen(meeting, s) ==
    LET staying == meeting.connectedUser \ {s}
    IN  IF s \notin meeting.connectedUser
        THEN meeting
        ELSE [meeting EXCEPT !.connectedUser = staying,
                !.adminUser = IF staying = {} THEN NoOne
                              ELSE IF s = @ THEN Undefined ELSE @]

(* What onLeave makes of a meeting.  The hand-over reads element 0 of the  *)
(* METHOD values of a SetSchema, which is undefined whoever is left.  An   *)
(* emptied meeting keeps its lock and its chat.                            *)
DropUser(meeting, s) ==
    LET staying == meeting.connectedUser \ {s}
    IN  IF s \notin meeting.connectedUser
        THEN meeting
        ELSE IF staying = {}
             THEN [meeting EXCEPT !.connectedUser = {}, !.isOpen = FALSE,
                                  !.adminUser = NoOne]
             ELSE [meeting EXCEPT
                     !.connectedUser = staying,
                     !.adminUser = IF s = @ THEN Undefined ELSE @]
=============================================================================
