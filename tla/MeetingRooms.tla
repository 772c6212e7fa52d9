---------------------------- MODULE MeetingRooms ----------------------------
(***************************************************************************)
(* What the meetings of an office promise, without chats, databases and    *)
(* half-finished connects: who is in a meeting, who is in charge of it, and *)
(* whether it is locked.                                                   *)
(*                                                                         *)
(* Only who is in charge turns the lock or ends the meeting.  A meeting    *)
(* that loses who was in charge goes on without: nobody takes over before  *)
(* it has emptied.                                                         *)
(***************************************************************************)

CONSTANTS Sessions, Meetings, Nobody

VARIABLES inside, charge, locked

vars == <<inside, charge, locked>>

Init ==
    /\ inside = [m \in Meetings |-> {}]
    /\ charge = [m \in Meetings |-> Nobody]
    /\ locked = [m \in Meetings |-> FALSE]

(* The first one in is in charge.                                          *)
Enter(m, s) ==
    /\ ~locked[m]
    /\ inside' = [inside EXCEPT ![m] = @ \cup {s}]
    /\ charge' = [charge EXCEPT ![m] = IF inside[m] = {} THEN s ELSE @]
    /\ UNCHANGED locked

TurnLock(m) ==
    /\ charge[m] \in inside[m]
    /\ locked' = [locked EXCEPT ![m] = ~@]
    /\ UNCHANGED <<inside, charge>>

End(m) ==
    /\ charge[m] \in inside[m]
    /\ inside' = [inside EXCEPT ![m] = {}]
    /\ charge' = [charge EXCEPT ![m] = Nobody]
    /\ locked' = [locked EXCEPT ![m] = FALSE]

(* Somebody leaves one meeting, or several at once when the connection     *)
(* drops.  The lock of a meeting that empties may lapse or stay.           *)
Depart(s, from, opened) ==
    /\ \A m \in from : s \in inside[m]
    /\ \A m \in opened : inside[m] = {s}
    /\ inside' = [m \in Meetings |-> IF m \in from THEN inside[m] \ {s}
                                     ELSE inside[m]]
    /\ charge' = [m \in Meetings |->
           IF m \in from /\ (charge[m] = s \/ inside[m] = {s}) THEN Nobody
           ELSE charge[m]]
    /\ locked' = [m \in Meetings |-> locked[m] /\ m \notin opened]

Next ==
    \/ \E m \in Meetings : TurnLock(m) \/ End(m) \/ \E s \in Sessions : Enter(m, s)
    \/ \E s \in Sessions, from \in SUBSET Meetings :
          \E opened \in SUBSET from : Depart(s, from, opened)

Spec == Init /\ [][Next]_vars
=============================================================================
