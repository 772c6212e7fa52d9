--------------------------- MODULE Subscriptions ---------------------------
(***************************************************************************)
(* Paid subscriptions: PaymentController and PaymentService (src/modules/  *)
(* payment) over SubscriptionService (src/modules/subcription).  Stripe is *)
(* external: its checkouts and the subscriptions they become, one each,    *)
(* and its webhook events, which arrive late, more than once, in any order.*)
(*                                                                         *)
(* A request holds the document it has found; saving it writes the fields  *)
(* that the handler has changed, and no others.                            *)
(***************************************************************************)
EXTENDS Naturals, FiniteSets

CONSTANTS Users, Plans, Subs,
          Checkouts,   \* bound: checkouts opened at Stripe
          Requests,    \* bound: requests in flight at once
          NoSub, NoCheckout,
          Contested    \* the subscriptions whose handlers may overlap, and
                       \* whose calls may fail between two writes

ASSUME SubscriptionsAssumption ==
    /\ NoSub \notin Subs /\ NoCheckout \notin Checkouts
    /\ Contested \subseteq Subs

VARIABLES
    sub,       \* the documents of the collection of subscriptions
    checkout,  \* at Stripe: a checkout and the subscription it becomes
    rooms,     \* rooms[u][p]: whether the rooms of u under plan p are active
    told,      \* the events that have been answered, by kind and checkout
    req        \* the requests in flight

vars == <<sub, checkout, rooms, told, req>>

Documents ==
    [user : Users, plan : Plans,
     status : {"pending", "active", "cancelled"}, pay : {"pending", "paid"},
     session : Checkouts \cup {NoCheckout},
     stripe : Checkouts \cup {NoCheckout}]

ASSUME NoSubAssumption == NoSub \notin Documents

(* of is the subscription a checkout was opened for, which Stripe is not   *)
(* told; offered once the customer has its address.                        *)
StripeRecords ==
    [state : {"unused", "open", "offered", "active", "pastDue", "ended"},
     of : Subs \cup {NoSub}]

Idle == [pc |-> "idle"]
Unnamed == [pc : {"seek", "refused", "create"}, user : Users, plan : Plans]
Named ==
    [pc : {"session", "retry", "save", "resave", "cancel", "stop",
           "activate", "shut"},
     sub : Subs, found : Documents, checkout : Checkouts \cup {NoCheckout}]

TypeOK ==
    /\ sub \in [Subs -> Documents \cup {NoSub}]
    /\ checkout \in [Checkouts -> StripeRecords]
    /\ rooms \in [Users -> [Plans -> BOOLEAN]]
    /\ told \subseteq {"deleted", "failed"} \X Checkouts
    /\ req \in [Requests -> Unnamed \cup Named \cup {Idle}]

Init ==
    /\ sub = [s \in Subs |-> NoSub]
    /\ checkout = [x \in Checkouts |-> [state |-> "unused", of |-> NoSub]]
    /\ rooms = [u \in Users |-> [p \in Plans |-> TRUE]]
    /\ told = {}
    /\ req = [q \in Requests |-> Idle]

-----------------------------------------------------------------------------
Stored == {s \in Subs : sub[s] # NoSub}
At(q, step) == req[q].pc = step
Goto(q, step) == req' = [req EXCEPT ![q].pc = step]
Answer(q) == req' = [req EXCEPT ![q] = Idle]

InHand(s) ==
    \E p \in Requests : "sub" \in DOMAIN req[p] /\ req[p].sub = s

(* A handler that has found document s.                                    *)
Begin(q, step, s, x) ==
    /\ req[q] = Idle
    /\ s \in Contested \/ ~InHand(s)
    /\ req' = [req EXCEPT ![q] =
           [pc |-> step, sub |-> s, found |-> sub[s], checkout |-> x]]

(* What save writes: the fields of doc that differ from the found ones.    *)
Saved(q, doc) ==
    LET f == req[q].found
    IN  sub' = [sub EXCEPT ![req[q].sub] =
            [field \in DOMAIN doc |->
                IF doc[field] # f[field] THEN doc[field] ELSE @[field]]]

-----------------------------------------------------------------------------
(* POST /payments/checkout                                                 *)

CreateCheckout(q, u, p) ==
    /\ req[q] = Idle
    /\ req' = [req EXCEPT ![q] = [pc |-> "seek", user |-> u, plan |-> p]]
    /\ UNCHANGED <<sub, checkout, rooms, told>>

(* findActivePlan: of any user.                                            *)
ActivePlan(p) ==
    {s \in Stored : /\ sub[s].plan = p
                    /\ sub[s].status = "active"
                    /\ sub[s].pay = "paid"}

PlanSought(q) ==
    /\ At(q, "seek")
    /\ Goto(q, IF ActivePlan(req[q].plan) = {} THEN "create" ELSE "refused")
    /\ UNCHANGED <<sub, checkout, rooms, told>>

NewSub(u, p, status) ==
    [user |-> u, plan |-> p, status |-> status, pay |-> "pending",
     session |-> NoCheckout, stripe |-> NoCheckout]

CreatedAs(q, status) ==
    \E s \in Subs \ Stored :
        LET doc == NewSub(req[q].user, req[q].plan, status)
        IN  /\ sub' = [sub EXCEPT ![s] = doc]
            /\ req' = [req EXCEPT ![q] = [pc |-> "session", sub |-> s,
                   found |-> doc, checkout |-> NoCheckout]]

(* Variant: active from the start, as a free subscription is.              *)
SubCreatedActive(q) ==
    /\ At(q, "create")
    /\ CreatedAs(q, "active")
    /\ UNCHANGED <<checkout, rooms, told>>

SubCreated(q) ==
    /\ At(q, "create")
    /\ CreatedAs(q, "pending")
    /\ UNCHANGED <<checkout, rooms, told>>

Opened(q, x) ==
    /\ checkout' = [checkout EXCEPT ![x] =
           [state |-> "open", of |-> req[q].sub]]
    /\ req' = [req EXCEPT ![q].checkout = x,
           ![q].pc = IF @ = "session" THEN "save" ELSE "resave"]
    /\ UNCHANGED <<sub, rooms, told>>

(* Variant: a checkout that nobody has paid yet is used again.             *)
SessionReopened(q) ==
    /\ req[q].pc \in {"session", "retry"}
    /\ \E x \in Checkouts :
         /\ checkout[x].state \in {"unused", "open", "offered"}
         /\ Opened(q, x)

SessionOpened(q) ==
    /\ req[q].pc \in {"session", "retry"}
    /\ \E x \in Checkouts : checkout[x].state = "unused" /\ Opened(q, x)

(* The session is saved and the customer is told its address.  A retry     *)
(* saves what it has set before the call to Stripe, too.                   *)
SessionSaved(q) ==
    LET f == req[q].found
        x == req[q].checkout
    IN  /\ req[q].pc \in {"save", "resave"}
        /\ Saved(q, IF At(q, "save") THEN [f EXCEPT !.session = x]
                    ELSE [f EXCEPT !.session = x, !.status = "pending",
                                   !.pay = "pending"])
        /\ checkout' = [checkout EXCEPT ![x].state = "offered"]
        /\ Answer(q)
        /\ UNCHANGED <<rooms, told>>

(* POST /payments/checkout_retry                                           *)
RetryCheckout(q, s) ==
    /\ s \in Stored
    /\ sub[s].status # "active"
    /\ Begin(q, "retry", s, NoCheckout)
    /\ UNCHANGED <<sub, checkout, rooms, told>>

-----------------------------------------------------------------------------
(* POST /payments/cancel                                                   *)

Cancel(q, s) ==
    /\ s \in Stored
    /\ Begin(q, "cancel", s, sub[s].stripe)
    /\ UNCHANGED <<sub, checkout, rooms, told>>

(* Variant: Stripe is not asked to stop.                                   *)
CancelSavedOnly(q) ==
    /\ At(q, "cancel")
    /\ Saved(q, [req[q].found EXCEPT !.status = "cancelled"])
    /\ Answer(q)
    /\ UNCHANGED <<checkout, rooms, told>>

CancelSaved(q) ==
    /\ At(q, "cancel")
    /\ Saved(q, [req[q].found EXCEPT !.status = "cancelled"])
    /\ Goto(q, "stop")
    /\ UNCHANGED <<checkout, rooms, told>>

(* Stripe refuses what it does not know or has ended: the request fails.   *)
StripeStopped(q) ==
    LET x == req[q].checkout
    IN  /\ At(q, "stop")
        /\ checkout' = IF x = NoCheckout THEN checkout
                       ELSE [checkout EXCEPT ![x].state = "ended"]
        /\ Answer(q)
        /\ UNCHANGED <<sub, rooms, told>>

-----------------------------------------------------------------------------
(* POST /payments/stripe_webhook                                           *)

(* checkout.session.completed.  An event whose session no document names   *)
(* fails and is answered 400.                                              *)
CheckoutSessionCompleted(q, x) ==
    /\ checkout[x].state \in {"active", "pastDue", "ended"}
    /\ \E s \in Stored : sub[s].session = x /\ Begin(q, "activate", s, x)
    /\ UNCHANGED <<sub, checkout, rooms, told>>

Activated(q) ==
    /\ At(q, "activate")
    /\ Saved(q, [req[q].found EXCEPT !.status = "active", !.pay = "paid",
                                     !.stripe = req[q].checkout])
    /\ Answer(q)
    /\ UNCHANGED <<checkout, rooms, told>>

BoughtWith(x) == {s \in Stored : sub[s].stripe = x}

(* customer.subscription.deleted: the status is set on the document in hand *)
(* and never saved.                                                        *)
SubscriptionDeleted(q, x) ==
    /\ checkout[x].state = "ended"
    /\ \E s \in BoughtWith(x) : Begin(q, "shut", s, x)
    /\ UNCHANGED <<sub, checkout, rooms, told>>

(* Variant: the rooms of the plan, whoever has created them.               *)
RoomsShutForAll(q) ==
    LET f == req[q].found
    IN  /\ At(q, "shut")
        /\ rooms' = [u \in Users |-> [rooms[u] EXCEPT ![f.plan] = FALSE]]
        /\ told' = told \cup {<<"deleted", req[q].checkout>>}
        /\ Answer(q)
        /\ UNCHANGED <<sub, checkout>>

RoomsShut(q) ==
    LET f == req[q].found
    IN  /\ At(q, "shut")
        /\ rooms' = [rooms EXCEPT ![f.user][f.plan] = FALSE]
        /\ told' = told \cup {<<"deleted", req[q].checkout>>}
        /\ Answer(q)
        /\ UNCHANGED <<sub, checkout>>

(* invoice.payment_failed is handled as invoice.upcoming: a mail is sent.  *)
InvoicePaymentFailed(x) ==
    /\ checkout[x].state = "pastDue"
    /\ BoughtWith(x) # {}
    /\ told' = told \cup {<<"failed", x>>}
    /\ UNCHANGED <<sub, checkout, rooms, req>>

-----------------------------------------------------------------------------
(* Outside: the customer, Stripe's clock, and the creator of the rooms,    *)
(* whose free subscription is enough to change a setting.                  *)

Becomes(x, from, to) ==
    /\ checkout[x].state \in from
    /\ checkout' = [checkout EXCEPT ![x].state = to]
    /\ UNCHANGED <<sub, rooms, told, req>>

Pay(x) == Becomes(x, {"offered"}, "active")
InvoiceUnpaid(x) == Becomes(x, {"active"}, "pastDue")
InvoicePaidLate(x) == Becomes(x, {"pastDue"}, "active")
EndedAtStripe(x) == Becomes(x, {"active", "pastDue"}, "ended")

RoomsReopened(u, p) ==
    /\ ~rooms[u][p]
    /\ rooms' = [rooms EXCEPT ![u][p] = TRUE]
    /\ UNCHANGED <<sub, checkout, told, req>>

(* A refusal is answered, or a call fails: between Stripe's answer and what *)
(* must follow it, only for a contested subscription.                      *)
Abandoned(q) ==
    /\ req[q] # Idle
    /\ req[q].pc \in {"stop", "save", "resave"} => req[q].sub \in Contested
    /\ Answer(q)
    /\ UNCHANGED <<sub, checkout, rooms, told>>

-----------------------------------------------------------------------------
Start(q) ==
    \/ \E u \in Users, p \in Plans : CreateCheckout(q, u, p)
    \/ \E s \in Subs : RetryCheckout(q, s) \/ Cancel(q, s)
    \/ \E x \in Checkouts :
         CheckoutSessionCompleted(q, x) \/ SubscriptionDeleted(q, x)

Continue(q) ==
    \/ PlanSought(q) \/ SubCreated(q) \/ SessionOpened(q) \/ SessionSaved(q)
    \/ CancelSaved(q) \/ StripeStopped(q) \/ Activated(q) \/ RoomsShut(q)
    \/ Abandoned(q)

Outside(x) ==
    \/ Pay(x) \/ InvoiceUnpaid(x) \/ InvoicePaidLate(x) \/ EndedAtStripe(x)
    \/ InvoicePaymentFailed(x)

Next ==
    \/ \E q \in Requests : Start(q) \/ Continue(q)
    \/ \E x \in Checkouts : Outside(x)
    \/ \E u \in Users, p \in Plans : RoomsReopened(u, p)

Spec == Init /\ [][Next]_vars

-----------------------------------------------------------------------------
(* Properties                                                              *)

Paid == {"active", "pastDue", "ended"}

(* An active subscription was paid for: it names a checkout that was opened *)
(* for it and completed (service.ts 51-58).                                *)
ActiveWasCompleted ==
    \A s \in Stored : sub[s].status = "active" =>
        /\ sub[s].stripe # NoCheckout
        /\ checkout[sub[s].stripe].state \in Paid
        /\ checkout[sub[s].stripe].of = s

(* While its handlers do not overlap and no call fails, a subscription that *)
(* has been cancelled is not billed on (controller.ts 153-156).            *)
CancelledEndsBilling ==
    \A s \in Stored \ Contested :
        /\ ~InHand(s)
        /\ sub[s].status = "cancelled" /\ sub[s].stripe # NoCheckout
        => checkout[sub[s].stripe].state = "ended"

(* A webhook event leads to one subscription: no two documents name the    *)
(* same session or the same Stripe subscription (subcription/service.ts    *)
(* 80-85).                                                                 *)
EventsLeadToOne ==
    \A s, t \in Stored : s # t =>
        /\ sub[s].session = sub[t].session => sub[s].session = NoCheckout
        /\ sub[s].stripe = sub[t].stripe => sub[s].stripe = NoCheckout

(* Rooms are shut for a subscription of their own creator and plan that    *)
(* Stripe has ended (service.ts 121-133).                                  *)
RoomsShutForCause ==
    \A u \in Users, p \in Plans : ~rooms[u][p] =>
        \E x \in Checkouts, s \in Stored :
            /\ checkout[x] = [state |-> "ended", of |-> s]
            /\ sub[s].user = u /\ sub[s].plan = p

(* The completion of a checkout can be told from what is saved             *)
(* (controller.ts 117-119, 138-140).                                       *)
PaidIsFound ==
    \A x \in Checkouts : checkout[x].state = "active" =>
        LET s == checkout[x].of IN x \in {sub[s].session, sub[s].stripe}

(* A subscription is not active once its deletion at Stripe has been       *)
(* handled (service.ts 120-124).                                           *)
DeletedIsNotActive ==
    \A s \in Stored : <<"deleted", sub[s].stripe>> \in told
                        => sub[s].status # "active"

(* A subscription past due does not stay active once the event has been    *)
(* handled (service.ts 99-108, controller.ts 57-58).                       *)
PastDueExpires ==
    \A s \in Stored :
        /\ sub[s].stripe # NoCheckout
        /\ checkout[sub[s].stripe].state = "pastDue"
        /\ <<"failed", sub[s].stripe>> \in told
        => sub[s].status # "active"

(* Who is refused for having the plan has it (controller.ts 88-90).        *)
RefusedHavePlan ==
    \A q \in Requests : At(q, "refused") =>
        \E s \in ActivePlan(req[q].plan) : sub[s].user = req[q].user

(* A user has a plan once (controller.ts 88-90).                           *)
ActiveOnce ==
    \A s, t \in Stored :
        /\ sub[s].status = "active" /\ sub[t].status = "active"
        /\ sub[s].user = sub[t].user /\ sub[s].plan = sub[t].plan
        => s = t
=============================================================================
