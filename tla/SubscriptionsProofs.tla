------------------------ MODULE SubscriptionsProofs ------------------------
(***************************************************************************)
(* What holds of paid subscriptions for any number of users, documents,    *)
(* checkouts and requests, however the handlers overlap and whatever calls *)
(* fail: what an active document names, whom an event leads to, why rooms  *)
(* are shut.  And, of a subscription whose handlers neither overlap nor    *)
(* fail, that cancelling it ends its billing.                              *)
(***************************************************************************)
EXTENDS Subscriptions, TLAPS

-----------------------------------------------------------------------------
(* Requests                                                                *)

NamedSteps == {"session", "retry", "save", "resave", "cancel", "stop",
               "activate", "shut"}
Works(q) == req[q].pc \in NamedSteps
WorksOn(q, s) == Works(q) /\ req[q].sub = s

LEMMA WorksType ==
    ASSUME TypeOK, NEW q \in Requests, Works(q)
    PROVE  /\ req[q] \in Named
           /\ req[q].sub \in Subs
           /\ req[q].found \in Documents
           /\ req[q].checkout \in Checkouts \cup {NoCheckout}
  BY DEF TypeOK, Works, NamedSteps, Unnamed, Named, Idle

LEMMA WorksDomain ==
    ASSUME TypeOK, NEW q \in Requests
    PROVE  "sub" \in DOMAIN req[q] <=> Works(q)
  <1>1. CASE req[q] \in Unnamed
    <2>1. DOMAIN req[q] = {"pc", "user", "plan"}
      BY <1>1 DEF Unnamed
    <2>2. req[q].pc \in {"seek", "refused", "create"}
      BY <1>1 DEF Unnamed
    <2> QED  BY <2>1, <2>2 DEF Works, NamedSteps
  <1>2. CASE req[q] \in Named
    BY <1>2 DEF Named, Works, NamedSteps
  <1>3. CASE req[q] = Idle
    BY <1>3 DEF Idle, Works, NamedSteps
  <1> QED  BY <1>1, <1>2, <1>3 DEF TypeOK

LEMMA InHandMeans ==
    ASSUME TypeOK, NEW s
    PROVE  InHand(s) <=> \E p \in Requests : WorksOn(p, s)
  BY WorksDomain DEF InHand, WorksOn

(* One request changes to r, and the others stay as they are.              *)
Becoming(q, r) ==
    /\ req' \in [Requests -> Unnamed \cup Named \cup {Idle}]
    /\ req'[q] = r
    /\ \A p \in Requests \ {q} : req'[p] = req[p]

LEMMA BecomingShape ==
    ASSUME TypeOK, NEW q \in Requests,
           NEW r \in Unnamed \cup Named \cup {Idle},
           req' = [req EXCEPT ![q] = r]
    PROVE  Becoming(q, r)
  BY DEF TypeOK, Becoming

LEMMA AnswerShape ==
    ASSUME TypeOK, NEW q \in Requests, Answer(q)
    PROVE  Becoming(q, Idle)
  BY BecomingShape DEF Answer

-----------------------------------------------------------------------------
(* Saving                                                                  *)

Merged(doc, f, cur) ==
    [field \in DOMAIN doc |->
        IF doc[field] # f[field] THEN doc[field] ELSE cur[field]]

LEMMA DocumentFields ==
    ASSUME NEW doc \in Documents
    PROVE  DOMAIN doc = {"user", "plan", "status", "pay", "session", "stripe"}
  BY DEF Documents

LEMMA MergedType ==
    ASSUME NEW doc \in Documents, NEW f \in Documents, NEW cur \in Documents
    PROVE  Merged(doc, f, cur) \in Documents
  BY DocumentFields DEF Documents, Merged

LEMMA MergedFields ==
    ASSUME NEW doc \in Documents, NEW f \in Documents, NEW cur \in Documents,
           NEW field \in {"user", "plan", "status", "pay", "session", "stripe"}
    PROVE  Merged(doc, f, cur)[field] =
               IF doc[field] # f[field] THEN doc[field] ELSE cur[field]
  BY DocumentFields DEF Merged

(* What is saved is the merged document, and nothing else changes.         *)
LEMMA SavedShape ==
    ASSUME TypeOK, NEW q \in Requests, Works(q), req[q].sub \in Stored,
           NEW doc \in Documents, Saved(q, doc)
    PROVE  /\ sub' \in [Subs -> Documents \cup {NoSub}]
           /\ sub[req[q].sub] \in Documents
           /\ sub'[req[q].sub] = Merged(doc, req[q].found, sub[req[q].sub])
           /\ sub'[req[q].sub] \in Documents
           /\ \A t \in Subs \ {req[q].sub} : sub'[t] = sub[t]
           /\ Stored' = Stored
  <1> DEFINE s == req[q].sub
  <1>1. s \in Subs /\ req[q].found \in Documents
    BY WorksType
  <1>2. sub[s] \in Documents
    BY <1>1 DEF TypeOK, Stored
  <1>3. sub' = [sub EXCEPT ![s] = Merged(doc, req[q].found, sub[s])]
    BY DEF Saved, Merged
  <1>4. Merged(doc, req[q].found, sub[s]) \in Documents
    BY <1>1, <1>2, MergedType
  <1>5. /\ sub' \in [Subs -> Documents \cup {NoSub}]
        /\ sub'[s] = Merged(doc, req[q].found, sub[s])
        /\ \A t \in Subs \ {s} : sub'[t] = sub[t]
    BY <1>1, <1>3, <1>4 DEF TypeOK
  <1>6. Stored' = Stored
    BY <1>1, <1>2, <1>4, <1>5, NoSubAssumption DEF Stored
  <1> QED  BY <1>1, <1>2, <1>4, <1>5, <1>6

-----------------------------------------------------------------------------
(* The inductive invariant                                                 *)

(* A session or a Stripe subscription that a document names was opened for *)
(* it; and an active one has been bought.                                  *)
NamesItsOwn(s) ==
    /\ sub[s].session # NoCheckout =>
         /\ checkout[sub[s].session].of = s
         /\ checkout[sub[s].session].state \in Paid \cup {"offered"}
    /\ sub[s].stripe # NoCheckout =>
         /\ checkout[sub[s].stripe].of = s
         /\ checkout[sub[s].stripe].state \in Paid
    /\ sub[s].status = "active" => sub[s].stripe # NoCheckout

EachNamesItsOwn == \A s \in Stored : NamesItsOwn(s)

(* What a request knows of the document that it works on, and of the       *)
(* checkout it has in hand: open until it is saved, by this request alone. *)
KnowsDocument(q) ==
    LET s == req[q].sub IN
    /\ s \in Stored
    /\ req[q].found.user = sub[s].user
    /\ req[q].found.plan = sub[s].plan
    /\ req[q].found.stripe # NoCheckout => sub[s].stripe # NoCheckout

KnowsCheckout(q) ==
    LET s == req[q].sub
        x == req[q].checkout
    IN
    /\ req[q].pc \in {"save", "resave"} =>
         /\ x # NoCheckout
         /\ checkout[x].state = "open" /\ checkout[x].of = s
    /\ req[q].pc \in {"activate", "shut"} => x # NoCheckout
    /\ req[q].pc \in {"activate", "shut", "cancel", "stop"} /\ x # NoCheckout
         => checkout[x].state \in Paid /\ checkout[x].of = s
    /\ req[q].pc = "shut" => checkout[x].state = "ended"

Known == \A q \in Requests : Works(q) => KnowsDocument(q) /\ KnowsCheckout(q)

OwnSession ==
    \A p, q \in Requests :
        /\ req[p].pc \in {"save", "resave"}
        /\ req[q].pc \in {"save", "resave"}
        /\ req[p].checkout = req[q].checkout
        => p = q

(* One request at a time works on a subscription that is not contested,    *)
(* and has it as it is stored, until it has saved it; and a cancelled one  *)
(* is ended at Stripe or about to be.                                      *)
Alone ==
    \A s \in Subs \ Contested : \A p, q \in Requests :
        WorksOn(p, s) /\ WorksOn(q, s) => p = q

UpToDate ==
    \A s \in Subs \ Contested : \A q \in Requests : WorksOn(q, s) =>
        /\ req[q].pc # "stop" => req[q].found = sub[s]
        /\ req[q].pc \in {"cancel", "stop"} => req[q].checkout = sub[s].stripe

Stopped ==
    \A s \in Stored \ Contested :
        /\ \A q \in Requests : WorksOn(q, s) => req[q].pc # "stop"
        /\ sub[s].status = "cancelled" /\ sub[s].stripe # NoCheckout
        => checkout[sub[s].stripe].state = "ended"

IInv ==
    /\ TypeOK /\ EachNamesItsOwn /\ Known /\ OwnSession
    /\ Alone /\ UpToDate /\ Stopped
    /\ RoomsShutForCause

-----------------------------------------------------------------------------
(* What the steps do                                                       *)

OthersStay(q) ==
    /\ req' \in [Requests -> Unnamed \cup Named \cup {Idle}]
    /\ \A p \in Requests \ {q} : req'[p] = req[p]

(* A request begins, moves or ends without a document to work on; it gives *)
(* up a stop at Stripe only of a contested subscription.                   *)
Quiet(q) ==
    /\ OthersStay(q)
    /\ req'[q].pc \notin NamedSteps
    /\ req[q].pc = "stop" => req[q].sub \in Contested
    /\ UNCHANGED <<sub, checkout>>

Begins(q) ==
    LET s == req'[q].sub
        x == req'[q].checkout
    IN
    /\ OthersStay(q)
    /\ ~Works(q)
    /\ s \in Stored
    /\ s \in Contested \/ \A p \in Requests : ~WorksOn(p, s)
    /\ req'[q].found = sub[s]
    /\ \/ req'[q].pc = "retry"
       \/ req'[q].pc = "cancel" /\ x = sub[s].stripe
       \/ req'[q].pc = "activate" /\ x \in Checkouts
            /\ checkout[x].state \in Paid /\ sub[s].session = x
       \/ req'[q].pc = "shut" /\ x \in Checkouts
            /\ checkout[x].state = "ended" /\ sub[s].stripe = x
    /\ UNCHANGED <<sub, checkout>>

Creates(q) ==
    LET s == req'[q].sub IN
    /\ OthersStay(q)
    /\ ~Works(q)
    /\ s \in Subs \ Stored
    /\ req'[q].pc = "session"
    /\ req'[q].found = sub'[s]
    /\ sub' \in [Subs -> Documents \cup {NoSub}]
    /\ sub'[s] \in Documents
    /\ sub'[s].session = NoCheckout /\ sub'[s].stripe = NoCheckout
    /\ sub'[s].status = "pending"
    /\ \A t \in Subs \ {s} : sub'[t] = sub[t]
    /\ UNCHANGED checkout

(* The checkouts, but for x, stay as they are.                             *)
Alters(x) ==
    /\ x \in Checkouts
    /\ checkout' \in [Checkouts -> StripeRecords]
    /\ \A y \in Checkouts \ {x} : checkout'[y] = checkout[y]

Opens(q) ==
    LET x == req'[q].checkout IN
    /\ OthersStay(q)
    /\ req[q].pc \in {"session", "retry"}
    /\ req'[q].pc \in {"save", "resave"}
    /\ req'[q].sub = req[q].sub
    /\ req'[q].found = req[q].found
    /\ Alters(x)
    /\ checkout[x].state = "unused"
    /\ checkout'[x] = [state |-> "open", of |-> req[q].sub]
    /\ UNCHANGED sub

(* The document that the request works on is rewritten, for the user and   *)
(* the plan it had.                                                        *)
Rewrites(q) ==
    LET s == req[q].sub IN
    /\ s \in Stored
    /\ sub' \in [Subs -> Documents \cup {NoSub}]
    /\ sub[s] \in Documents /\ sub'[s] \in Documents
    /\ sub'[s].user = sub[s].user /\ sub'[s].plan = sub[s].plan
    /\ \A t \in Subs \ {s} : sub'[t] = sub[t]
    /\ Stored' = Stored

Saves(q) ==
    LET s == req[q].sub
        x == req[q].checkout
    IN
    /\ OthersStay(q) /\ Rewrites(q) /\ Alters(x)
    /\ req[q].pc \in {"save", "resave"}
    /\ req'[q].pc = "idle"
    /\ sub'[s].stripe = sub[s].stripe
    /\ sub'[s].session \in {x, sub[s].session}
    /\ sub'[s].status \in {"pending", sub[s].status}
    /\ checkout'[x].state = "offered" /\ checkout'[x].of = checkout[x].of

Cancels(q) ==
    LET s == req[q].sub IN
    /\ OthersStay(q) /\ Rewrites(q)
    /\ req[q].pc = "cancel"
    /\ req'[q].pc = "stop"
    /\ req'[q].sub = s
    /\ req'[q].found = req[q].found
    /\ req'[q].checkout = req[q].checkout
    /\ sub'[s].stripe = sub[s].stripe
    /\ sub'[s].session = sub[s].session
    /\ sub'[s].status \in {"cancelled", sub[s].status}
    /\ UNCHANGED checkout

Activates(q) ==
    LET s == req[q].sub IN
    /\ OthersStay(q) /\ Rewrites(q)
    /\ req[q].pc = "activate"
    /\ req'[q].pc = "idle"
    /\ \/ sub'[s].stripe = req[q].checkout
       \/ /\ req[q].found.stripe = req[q].checkout
          /\ sub'[s].stripe = sub[s].stripe
    /\ \/ sub'[s].status = "active"
       \/ /\ req[q].found.status = "active"
          /\ sub'[s].status = sub[s].status
    /\ sub'[s].session = sub[s].session
    /\ UNCHANGED checkout

Stops(q) ==
    LET x == req[q].checkout IN
    /\ OthersStay(q)
    /\ req[q].pc = "stop"
    /\ req'[q].pc = "idle"
    /\ \/ x = NoCheckout /\ checkout' = checkout
       \/ /\ Alters(x)
          /\ checkout'[x].state = "ended" /\ checkout'[x].of = checkout[x].of
    /\ UNCHANGED sub

(* Outside, a checkout that was offered or paid becomes, or stays, paid.   *)
Turns(x) ==
    /\ Alters(x)
    /\ checkout[x].state \in {"offered", "active", "pastDue"}
    /\ checkout'[x].state \in Paid
    /\ checkout'[x].of = checkout[x].of
    /\ UNCHANGED <<sub, req>>

LEMMA StartKinds ==
    ASSUME TypeOK, NEW q \in Requests, Start(q)
    PROVE  Quiet(q) \/ Begins(q)
  <1>1. req[q] = Idle /\ ~Works(q) /\ req[q].pc = "idle"
    BY DEF Start, CreateCheckout, RetryCheckout, Cancel, Begin, Idle, Works,
           NamedSteps, CheckoutSessionCompleted, SubscriptionDeleted
  <1>2. ASSUME NEW u \in Users, NEW p \in Plans, CreateCheckout(q, u, p)
        PROVE  Quiet(q)
    <2>1. [pc |-> "seek", user |-> u, plan |-> p] \in Unnamed
      BY DEF Unnamed
    <2>2. Becoming(q, [pc |-> "seek", user |-> u, plan |-> p])
      BY <1>2, <2>1, BecomingShape DEF CreateCheckout
    <2> QED
      BY <1>1, <1>2, <2>2
      DEF CreateCheckout, Quiet, OthersStay, Becoming, NamedSteps
  <1>3. ASSUME NEW step \in NamedSteps, NEW s \in Stored,
               NEW x \in Checkouts \cup {NoCheckout}, Begin(q, step, s, x)
        PROVE  /\ OthersStay(q)
               /\ req'[q] = [pc |-> step, sub |-> s, found |-> sub[s],
                             checkout |-> x]
               /\ s \in Contested \/ \A p \in Requests : ~WorksOn(p, s)
    <2>1. s \in Subs /\ sub[s] \in Documents
      BY DEF Stored, TypeOK
    <2>2. [pc |-> step, sub |-> s, found |-> sub[s], checkout |-> x] \in Named
      BY <2>1 DEF Named, NamedSteps
    <2>3. Becoming(q, [pc |-> step, sub |-> s, found |-> sub[s],
                       checkout |-> x])
      BY <1>3, <2>2, BecomingShape DEF Begin
    <2> QED  BY <1>3, <2>3, InHandMeans DEF Begin, Becoming, OthersStay
  <1>4. ASSUME NEW s \in Subs, RetryCheckout(q, s)  PROVE  Begins(q)
    <2>1. s \in Stored /\ Begin(q, "retry", s, NoCheckout)
      BY <1>4 DEF RetryCheckout
    <2>2. "retry" \in NamedSteps
      BY DEF NamedSteps
    <2>3. /\ OthersStay(q)
          /\ req'[q] = [pc |-> "retry", sub |-> s, found |-> sub[s],
                        checkout |-> NoCheckout]
          /\ s \in Contested \/ \A p \in Requests : ~WorksOn(p, s)
      BY <1>3, <2>1, <2>2
    <2> QED
      BY <1>1, <1>4, <2>1, <2>3 DEF RetryCheckout, Begins
  <1>5. ASSUME NEW s \in Subs, Cancel(q, s)  PROVE  Begins(q)
    <2>1. s \in Stored /\ Begin(q, "cancel", s, sub[s].stripe)
      BY <1>5 DEF Cancel
    <2>2. sub[s].stripe \in Checkouts \cup {NoCheckout}
      BY <2>1 DEF Stored, TypeOK, Documents
    <2>3. "cancel" \in NamedSteps
      BY DEF NamedSteps
    <2>4. /\ OthersStay(q)
          /\ req'[q] = [pc |-> "cancel", sub |-> s, found |-> sub[s],
                        checkout |-> sub[s].stripe]
          /\ s \in Contested \/ \A p \in Requests : ~WorksOn(p, s)
      BY <1>3, <2>1, <2>2, <2>3
    <2> QED
      BY <1>1, <1>5, <2>1, <2>4 DEF Cancel, Begins
  <1>6. ASSUME NEW x \in Checkouts, CheckoutSessionCompleted(q, x)
        PROVE  Begins(q)
    <2>1. PICK s \in Stored : sub[s].session = x /\ Begin(q, "activate", s, x)
      BY <1>6 DEF CheckoutSessionCompleted
    <2>2. "activate" \in NamedSteps
      BY DEF NamedSteps
    <2>3. /\ OthersStay(q)
          /\ req'[q] = [pc |-> "activate", sub |-> s, found |-> sub[s],
                        checkout |-> x]
          /\ s \in Contested \/ \A p \in Requests : ~WorksOn(p, s)
      BY <1>3, <2>1, <2>2
    <2> QED
      BY <1>1, <1>6, <2>1, <2>3 DEF CheckoutSessionCompleted, Begins, Paid
  <1>7. ASSUME NEW x \in Checkouts, SubscriptionDeleted(q, x)
        PROVE  Begins(q)
    <2>1. PICK s \in Stored : sub[s].stripe = x /\ Begin(q, "shut", s, x)
      BY <1>7 DEF SubscriptionDeleted, BoughtWith
    <2>2. "shut" \in NamedSteps
      BY DEF NamedSteps
    <2>3. /\ OthersStay(q)
          /\ req'[q] = [pc |-> "shut", sub |-> s, found |-> sub[s],
                        checkout |-> x]
          /\ s \in Contested \/ \A p \in Requests : ~WorksOn(p, s)
      BY <1>3, <2>1, <2>2
    <2> QED
      BY <1>1, <1>7, <2>1, <2>3 DEF SubscriptionDeleted, Begins
  <1> QED  BY <1>2, <1>4, <1>5, <1>6, <1>7 DEF Start

(* A request that works on a document is at its later steps.               *)
LEMMA ContinueKinds ==
    ASSUME TypeOK, Known, NEW q \in Requests, Continue(q)
    PROVE  \/ Quiet(q) \/ Creates(q) \/ Opens(q) \/ Saves(q)
           \/ Cancels(q) \/ Stops(q) \/ Activates(q)
  <1> DEFINE s == req[q].sub
             f == req[q].found
             x == req[q].checkout
  <1>1. ASSUME Answer(q)  PROVE  OthersStay(q) /\ req'[q].pc = "idle"
    BY <1>1, AnswerShape DEF Becoming, OthersStay, Idle
  <1>2. ASSUME Works(q)
        PROVE  /\ s \in Stored /\ s \in Subs /\ f \in Documents
               /\ sub[s] \in Documents /\ x \in Checkouts \cup {NoCheckout}
               /\ f.user = sub[s].user /\ f.plan = sub[s].plan
    BY <1>2, WorksType DEF Known, KnowsDocument, Stored, TypeOK
  <1>3. ASSUME Works(q), NEW doc \in Documents, Saved(q, doc),
               doc.user = f.user, doc.plan = f.plan
        PROVE  /\ Rewrites(q)
               /\ sub'[s].status = IF doc.status # f.status
                                   THEN doc.status ELSE sub[s].status
               /\ sub'[s].session = IF doc.session # f.session
                                    THEN doc.session ELSE sub[s].session
               /\ sub'[s].stripe = IF doc.stripe # f.stripe
                                   THEN doc.stripe ELSE sub[s].stripe
    <2>1. /\ sub' \in [Subs -> Documents \cup {NoSub}]
          /\ sub'[s] = Merged(doc, f, sub[s])
          /\ sub'[s] \in Documents
          /\ \A t \in Subs \ {s} : sub'[t] = sub[t]
          /\ Stored' = Stored
      BY <1>2, <1>3, SavedShape
    <2>2. /\ sub'[s].user = IF doc.user # f.user THEN doc.user ELSE sub[s].user
          /\ sub'[s].plan = IF doc.plan # f.plan THEN doc.plan ELSE sub[s].plan
          /\ sub'[s].status = IF doc.status # f.status
                              THEN doc.status ELSE sub[s].status
          /\ sub'[s].session = IF doc.session # f.session
                               THEN doc.session ELSE sub[s].session
          /\ sub'[s].stripe = IF doc.stripe # f.stripe
                              THEN doc.stripe ELSE sub[s].stripe
      BY <1>2, <1>3, <2>1, MergedFields
    <2> QED  BY <1>2, <1>3, <2>1, <2>2 DEF Rewrites
  <1>4. CASE PlanSought(q)
    <2>1. req[q] \in Unnamed /\ req[q].pc = "seek"
      BY <1>4 DEF PlanSought, At, TypeOK, Unnamed, Named, Idle
    <2>2. PICK step \in {"create", "refused"} : Goto(q, step)
      BY <1>4 DEF PlanSought
    <2>3. [req[q] EXCEPT !.pc = step] \in Unnamed
      BY <2>1 DEF Unnamed
    <2>4. Becoming(q, [req[q] EXCEPT !.pc = step])
      BY <2>2, <2>3, BecomingShape DEF Goto
    <2>5. req'[q].pc \notin NamedSteps
      BY <2>1, <2>4 DEF Becoming, Unnamed, NamedSteps
    <2> QED
      BY <1>4, <2>1, <2>4, <2>5 DEF PlanSought, Quiet, Becoming, OthersStay
  <1>5. CASE SubCreated(q)
    <2>1. req[q] \in Unnamed /\ req[q].pc = "create"
      BY <1>5 DEF SubCreated, At, TypeOK, Unnamed, Named, Idle
    <2> DEFINE doc == NewSub(req[q].user, req[q].plan, "pending")
    <2>2. PICK t \in Subs \ Stored :
            /\ sub' = [sub EXCEPT ![t] = doc]
            /\ req' = [req EXCEPT ![q] = [pc |-> "session", sub |-> t,
                   found |-> doc, checkout |-> NoCheckout]]
      BY <1>5 DEF SubCreated, CreatedAs
    <2>3. /\ doc \in Documents
          /\ doc.session = NoCheckout /\ doc.stripe = NoCheckout
          /\ doc.status = "pending"
      BY <2>1 DEF NewSub, Documents, Unnamed
    <2>4. [pc |-> "session", sub |-> t, found |-> doc,
           checkout |-> NoCheckout] \in Named
      BY <2>3 DEF Named
    <2> HIDE DEF doc
    <2>5. Becoming(q, [pc |-> "session", sub |-> t, found |-> doc,
                       checkout |-> NoCheckout])
      BY <2>2, <2>4, BecomingShape
    <2>6. /\ sub' \in [Subs -> Documents \cup {NoSub}]
          /\ sub'[t] = doc
          /\ \A u \in Subs \ {t} : sub'[u] = sub[u]
      BY <2>2, <2>3 DEF TypeOK
    <2>7. ~Works(q)
      BY <2>1 DEF Works, NamedSteps
    <2> QED
      BY <1>5, <2>3, <2>5, <2>6, <2>7
      DEF SubCreated, Creates, Becoming, OthersStay
  <1>6. CASE SessionOpened(q)
    <2>1. req[q].pc \in {"session", "retry"} /\ Works(q)
      BY <1>6 DEF SessionOpened, Works, NamedSteps
    <2>2. PICK y \in Checkouts : checkout[y].state = "unused" /\ Opened(q, y)
      BY <1>6 DEF SessionOpened
    <2>3. PICK step \in {"save", "resave"} :
            req' = [req EXCEPT ![q] =
                       [req[q] EXCEPT !.checkout = y, !.pc = step]]
      <3>1. req' = [req EXCEPT ![q] = [req[q] EXCEPT !.checkout = y,
                !.pc = IF req[q].pc = "session" THEN "save" ELSE "resave"]]
        BY <2>1, <2>2, WorksType DEF Opened, Named, TypeOK
      <3> QED  BY <3>1
    <2>4. /\ [req[q] EXCEPT !.checkout = y, !.pc = step] \in Named
          /\ [req[q] EXCEPT !.checkout = y, !.pc = step].pc = step
          /\ [req[q] EXCEPT !.checkout = y, !.pc = step].checkout = y
          /\ [req[q] EXCEPT !.checkout = y, !.pc = step].sub = s
          /\ [req[q] EXCEPT !.checkout = y, !.pc = step].found = f
      <3>1. req[q] \in Named
        BY <2>1, WorksType
      <3> QED  BY <3>1 DEF Named
    <2>5. Becoming(q, [req[q] EXCEPT !.checkout = y, !.pc = step])
      BY <2>3, <2>4, BecomingShape
    <2>6. [state |-> "open", of |-> s] \in StripeRecords
      BY <1>2, <2>1 DEF StripeRecords
    <2>7. Alters(y) /\ checkout'[y] = [state |-> "open", of |-> s]
      BY <2>2, <2>6 DEF Opened, TypeOK, Alters
    <2>8. sub' = sub
      BY <2>2 DEF Opened
    <2> QED
      BY <2>1, <2>2, <2>4, <2>5, <2>7, <2>8 DEF Opens, Becoming, OthersStay
  <1>7. CASE SessionSaved(q)
    <2>1. req[q].pc \in {"save", "resave"} /\ Works(q)
      BY <1>7 DEF SessionSaved, Works, NamedSteps
    <2>2. x \in Checkouts
      BY <1>2, <2>1 DEF Known, KnowsCheckout
    <2>3. PICK doc \in Documents :
            /\ Saved(q, doc)
            /\ doc.user = f.user /\ doc.plan = f.plan
            /\ doc.session = x /\ doc.stripe = f.stripe
            /\ doc.status \in {"pending", f.status}
            /\ doc.status # f.status => doc.status = "pending"
      <3>1. CASE At(q, "save")
        <4>1. [f EXCEPT !.session = x] \in Documents
          BY <1>2, <2>1, <2>2 DEF Documents
        <4>2. Saved(q, [f EXCEPT !.session = x])
          BY <1>7, <3>1 DEF SessionSaved
        <4> QED  BY <1>2, <2>1, <4>1, <4>2 DEF Documents
      <3>2. CASE ~At(q, "save")
        <4> DEFINE d == [f EXCEPT !.session = x, !.status = "pending",
                                  !.pay = "pending"]
        <4>1. d \in Documents
          BY <1>2, <2>1, <2>2 DEF Documents
        <4>2. Saved(q, d)
          BY <1>7, <3>2 DEF SessionSaved
        <4>3. /\ d.user = f.user /\ d.plan = f.plan /\ d.session = x
              /\ d.stripe = f.stripe /\ d.status = "pending"
          BY <1>2, <2>1 DEF Documents
        <4> QED  BY <4>1, <4>2, <4>3
      <3> QED  BY <3>1, <3>2
    <2>4. /\ Rewrites(q)
          /\ sub'[s].stripe = sub[s].stripe
          /\ sub'[s].session \in {x, sub[s].session}
          /\ sub'[s].status \in {"pending", sub[s].status}
      BY <1>3, <2>1, <2>3
    <2>5. checkout' = [checkout EXCEPT ![x] =
                          [checkout[x] EXCEPT !.state = "offered"]]
      BY <1>7, <2>2 DEF SessionSaved, TypeOK
    <2>6. [checkout[x] EXCEPT !.state = "offered"] \in StripeRecords
      BY <2>2 DEF TypeOK, StripeRecords
    <2>7. Alters(x) /\ checkout'[x] = [checkout[x] EXCEPT !.state = "offered"]
      BY <2>2, <2>5, <2>6 DEF TypeOK, Alters
    <2>8. checkout'[x].state = "offered" /\ checkout'[x].of = checkout[x].of
      BY <2>2, <2>7 DEF TypeOK, StripeRecords
    <2>9. OthersStay(q) /\ req'[q].pc = "idle"
      BY <1>1, <1>7 DEF SessionSaved
    <2> QED  BY <2>1, <2>4, <2>7, <2>8, <2>9 DEF Saves
  <1>8. CASE CancelSaved(q)
    <2>1. req[q].pc = "cancel" /\ Works(q)
      BY <1>8 DEF CancelSaved, At, Works, NamedSteps
    <2> DEFINE d == [f EXCEPT !.status = "cancelled"]
    <2>2. /\ d \in Documents
          /\ d.user = f.user /\ d.plan = f.plan /\ d.session = f.session
          /\ d.stripe = f.stripe /\ d.status = "cancelled"
      BY <1>2, <2>1 DEF Documents
    <2>3. Saved(q, d)
      BY <1>8 DEF CancelSaved
    <2> HIDE DEF d
    <2>4. /\ Rewrites(q)
          /\ sub'[s].stripe = sub[s].stripe
          /\ sub'[s].session = sub[s].session
          /\ sub'[s].status \in {"cancelled", sub[s].status}
      BY <1>3, <2>1, <2>2, <2>3
    <2>5. req[q] \in Named
      BY <2>1, WorksType
    <2>6. /\ [req[q] EXCEPT !.pc = "stop"] \in Named
          /\ [req[q] EXCEPT !.pc = "stop"].pc = "stop"
          /\ [req[q] EXCEPT !.pc = "stop"].sub = s
          /\ [req[q] EXCEPT !.pc = "stop"].found = f
          /\ [req[q] EXCEPT !.pc = "stop"].checkout = x
      BY <2>5 DEF Named
    <2>7. Becoming(q, [req[q] EXCEPT !.pc = "stop"])
      <3>1. req' = [req EXCEPT ![q] = [req[q] EXCEPT !.pc = "stop"]]
        BY <1>8 DEF CancelSaved, Goto, TypeOK
      <3> QED  BY <2>6, <3>1, BecomingShape
    <2>8. checkout' = checkout
      BY <1>8 DEF CancelSaved
    <2> QED
      BY <2>1, <2>4, <2>6, <2>7, <2>8 DEF Cancels, Becoming, OthersStay
  <1>9. CASE StripeStopped(q)
    <2>1. req[q].pc = "stop" /\ Works(q)
      BY <1>9 DEF StripeStopped, At, Works, NamedSteps
    <2>2. OthersStay(q) /\ req'[q].pc = "idle" /\ sub' = sub
      BY <1>1, <1>9 DEF StripeStopped
    <2>3. CASE x = NoCheckout
      BY <1>9, <2>1, <2>2, <2>3 DEF StripeStopped, Stops
    <2>4. CASE x # NoCheckout
      <3>1. x \in Checkouts
        BY <1>2, <2>1, <2>4
      <3>2. checkout' = [checkout EXCEPT ![x] =
                            [checkout[x] EXCEPT !.state = "ended"]]
        BY <1>9, <2>4, <3>1 DEF StripeStopped, TypeOK
      <3>3. [checkout[x] EXCEPT !.state = "ended"] \in StripeRecords
        BY <3>1 DEF TypeOK, StripeRecords
      <3>4. Alters(x) /\ checkout'[x] = [checkout[x] EXCEPT !.state = "ended"]
        BY <3>1, <3>2, <3>3 DEF TypeOK, Alters
      <3>5. checkout'[x].state = "ended" /\ checkout'[x].of = checkout[x].of
        BY <3>1, <3>4 DEF TypeOK, StripeRecords
      <3> QED  BY <2>1, <2>2, <3>4, <3>5 DEF Stops
    <2> QED  BY <2>3, <2>4
  <1>10. CASE Activated(q)
    <2>1. req[q].pc = "activate" /\ Works(q)
      BY <1>10 DEF Activated, At, Works, NamedSteps
    <2> DEFINE d == [f EXCEPT !.status = "active", !.pay = "paid",
                              !.stripe = x]
    <2>2. /\ d \in Documents
          /\ d.user = f.user /\ d.plan = f.plan /\ d.session = f.session
          /\ d.stripe = x /\ d.status = "active"
      BY <1>2, <2>1 DEF Documents
    <2>3. Saved(q, d)
      BY <1>10 DEF Activated
    <2> HIDE DEF d
    <2>4. /\ Rewrites(q)
          /\ sub'[s].session = sub[s].session
          /\ sub'[s].stripe = IF x # f.stripe THEN x ELSE sub[s].stripe
          /\ sub'[s].status = IF "active" # f.status
                              THEN "active" ELSE sub[s].status
      BY <1>3, <2>1, <2>2, <2>3
    <2>5. OthersStay(q) /\ req'[q].pc = "idle" /\ checkout' = checkout
      BY <1>1, <1>10 DEF Activated
    <2> QED  BY <2>1, <2>4, <2>5 DEF Activates
  <1>11. CASE RoomsShut(q) \/ Abandoned(q)
    <2>1. Answer(q) /\ UNCHANGED <<sub, checkout>>
      BY <1>11 DEF RoomsShut, Abandoned
    <2>2. req[q].pc = "stop" => req[q].sub \in Contested
      BY <1>11 DEF RoomsShut, Abandoned, At
    <2> QED  BY <1>1, <2>1, <2>2 DEF Quiet, NamedSteps
  <1> QED
    BY <1>4, <1>5, <1>6, <1>7, <1>8, <1>9, <1>10, <1>11 DEF Continue

LEMMA OutsideKinds ==
    ASSUME TypeOK, NEW x \in Checkouts, Outside(x)
    PROVE  Turns(x) \/ UNCHANGED <<sub, checkout, req>>
  <1>1. CASE InvoicePaymentFailed(x)
    BY <1>1 DEF InvoicePaymentFailed
  <1>2. CASE Pay(x) \/ InvoiceUnpaid(x) \/ InvoicePaidLate(x)
               \/ EndedAtStripe(x)
    <2>1. PICK to \in Paid :
            /\ checkout[x].state \in {"offered", "active", "pastDue"}
            /\ checkout' = [checkout EXCEPT ![x].state = to]
            /\ UNCHANGED <<sub, req>>
      BY <1>2 DEF Pay, InvoiceUnpaid, InvoicePaidLate, EndedAtStripe,
                  Becomes, Paid
    <2>2. [checkout[x] EXCEPT !.state = to] \in StripeRecords
      BY <2>1 DEF TypeOK, StripeRecords, Paid
    <2>3. checkout' = [checkout EXCEPT ![x] = [checkout[x] EXCEPT !.state = to]]
      BY <2>1 DEF TypeOK
    <2>4. Alters(x) /\ checkout'[x] = [checkout[x] EXCEPT !.state = to]
      BY <2>2, <2>3 DEF TypeOK, Alters
    <2>5. checkout'[x].state = to /\ checkout'[x].of = checkout[x].of
      BY <2>4 DEF TypeOK, StripeRecords
    <2> QED  BY <2>1, <2>4, <2>5 DEF Turns
  <1> QED  BY <1>1, <1>2 DEF Outside

(* Every step is of one of these kinds.                                    *)
LEMMA NextKinds ==
    ASSUME TypeOK, Known, Next
    PROVE  \/ \E q \in Requests :
                \/ Quiet(q) \/ Begins(q) \/ Creates(q) \/ Opens(q)
                \/ Saves(q) \/ Cancels(q) \/ Stops(q) \/ Activates(q)
           \/ \E x \in Checkouts : Turns(x)
           \/ UNCHANGED <<sub, checkout, req>>
  <1>1. CASE \E q \in Requests : Start(q)
    BY <1>1, StartKinds
  <1>2. CASE \E q \in Requests : Continue(q)
    BY <1>2, ContinueKinds
  <1>3. CASE \E x \in Checkouts : Outside(x)
    BY <1>3, OutsideKinds
  <1>4. CASE \E u \in Users, p \in Plans : RoomsReopened(u, p)
    BY <1>4 DEF RoomsReopened
  <1> QED  BY <1>1, <1>2, <1>3, <1>4 DEF Next

-----------------------------------------------------------------------------
(* What lasts                                                              *)

(* A checkout that was opened keeps its subscription, what was paid stays  *)
(* so, and what Stripe has ended stays ended.                              *)
LEMMA CheckoutsLast ==
    ASSUME IInv, Next, NEW x \in Checkouts, checkout[x].state # "unused"
    PROVE  /\ checkout'[x].of = checkout[x].of
           /\ checkout[x].state \in Paid => checkout'[x].state \in Paid
           /\ checkout[x].state \in Paid \cup {"offered"} =>
                checkout'[x].state \in Paid \cup {"offered"}
           /\ checkout[x].state = "ended" => checkout'[x].state = "ended"
  <1>1. ASSUME NEW q \in Requests, Opens(q)  PROVE  checkout'[x] = checkout[x]
    BY <1>1 DEF Opens, Alters
  <1>2. ASSUME NEW q \in Requests, Saves(q), checkout'[x] # checkout[x]
        PROVE  /\ checkout[x].state = "open"
               /\ checkout'[x].of = checkout[x].of
    <2>1. x = req[q].checkout /\ Works(q)
      BY <1>2 DEF Saves, Alters, Works, NamedSteps
    <2> QED  BY <1>2, <2>1 DEF Saves, IInv, Known, KnowsCheckout
  <1>3. ASSUME NEW q \in Requests, Stops(q), checkout'[x] # checkout[x]
        PROVE  checkout'[x].state = "ended" /\ checkout'[x].of = checkout[x].of
    BY <1>3 DEF Stops, Alters
  <1>4. ASSUME NEW y \in Checkouts, Turns(y), checkout'[x] # checkout[x]
        PROVE  /\ checkout[x].state \in {"offered", "active", "pastDue"}
               /\ checkout'[x].state \in Paid
               /\ checkout'[x].of = checkout[x].of
    BY <1>4 DEF Turns, Alters
  <1>5. \/ checkout'[x] = checkout[x]
        \/ \E q \in Requests : Opens(q) \/ Saves(q) \/ Stops(q)
        \/ \E y \in Checkouts : Turns(y)
    BY NextKinds DEF IInv, Quiet, Begins, Creates, Cancels, Activates
  <1>6. checkout[x].state \in
            {"unused", "open", "offered", "active", "pastDue", "ended"}
    BY DEF IInv, TypeOK, StripeRecords
  <1> QED  BY <1>1, <1>2, <1>3, <1>4, <1>5, <1>6 DEF Paid

(* A document stays, with its user and its plan; one that has been bought  *)
(* stays bought.                                                           *)
LEMMA DocumentsLast ==
    ASSUME IInv, Next, NEW s \in Stored
    PROVE  /\ s \in Stored'
           /\ sub'[s].user = sub[s].user
           /\ sub'[s].plan = sub[s].plan
           /\ sub[s].stripe # NoCheckout => sub'[s].stripe # NoCheckout
  <1>1. s \in Subs /\ sub[s] # NoSub
    BY DEF Stored
  <1>2. CASE sub' = sub
    BY <1>1, <1>2 DEF Stored
  <1>3. ASSUME NEW q \in Requests, Creates(q)  PROVE  sub'[s] = sub[s]
    BY <1>1, <1>3 DEF Creates
  <1>4. ASSUME NEW q \in Requests, Saves(q) \/ Cancels(q) \/ Activates(q)
        PROVE  /\ s \in Stored'
               /\ sub'[s].user = sub[s].user
               /\ sub'[s].plan = sub[s].plan
               /\ sub[s].stripe # NoCheckout => sub'[s].stripe # NoCheckout
    <2>1. Rewrites(q) /\ Works(q)
      BY <1>4 DEF Saves, Cancels, Activates, Works, NamedSteps
    <2>2. CASE s # req[q].sub
      BY <1>1, <2>1, <2>2 DEF Rewrites
    <2>3. CASE s = req[q].sub
      <3>1. req[q].pc = "activate" => req[q].checkout # NoCheckout
        BY <2>1 DEF IInv, Known, KnowsCheckout
      <3> QED
        BY <1>4, <2>1, <2>3, <3>1 DEF Rewrites, Saves, Cancels, Activates
    <2> QED  BY <2>2, <2>3
  <1>5. \/ sub' = sub
        \/ \E q \in Requests :
             Creates(q) \/ Saves(q) \/ Cancels(q) \/ Activates(q)
    BY NextKinds DEF IInv, Quiet, Begins, Opens, Stops, Turns
  <1> QED  BY <1>1, <1>2, <1>3, <1>4, <1>5 DEF Stored

-----------------------------------------------------------------------------
(* Each part of the invariant is preserved                                 *)

LEMMA StepTypeOK ==
    ASSUME IInv, [Next]_vars
    PROVE  TypeOK'
  <1>1. CASE UNCHANGED vars
    BY <1>1 DEF IInv, TypeOK, vars
  <1>2. CASE Next
    <2>1. req' \in [Requests -> Unnamed \cup Named \cup {Idle}]
      BY <1>2, NextKinds
      DEF IInv, TypeOK, Quiet, Begins, Creates, Opens, Saves, Cancels, Stops,
          Activates, Turns, OthersStay
    <2>2. sub' \in [Subs -> Documents \cup {NoSub}]
      BY <1>2, NextKinds
      DEF IInv, TypeOK, Quiet, Begins, Creates, Opens, Saves, Cancels, Stops,
          Activates, Turns, Rewrites
    <2>3. checkout' \in [Checkouts -> StripeRecords]
      BY <1>2, NextKinds
      DEF IInv, TypeOK, Quiet, Begins, Creates, Opens, Saves, Cancels, Stops,
          Activates, Turns, Alters
    <2>4. /\ rooms' \in [Users -> [Plans -> BOOLEAN]]
          /\ told' \subseteq {"deleted", "failed"} \X Checkouts
      <3>1. ASSUME NEW q \in Requests, RoomsShut(q)
            PROVE  /\ rooms' \in [Users -> [Plans -> BOOLEAN]]
                   /\ told' \subseteq {"deleted", "failed"} \X Checkouts
        <4>1. Works(q) /\ req[q].checkout # NoCheckout
          BY <3>1 DEF RoomsShut, At, Works, NamedSteps, IInv, Known,
                      KnowsCheckout
        <4>2. /\ req[q].found.user \in Users /\ req[q].found.plan \in Plans
              /\ req[q].checkout \in Checkouts
          BY <4>1, WorksType DEF IInv, Documents
        <4>3. told' \subseteq {"deleted", "failed"} \X Checkouts
          BY <3>1, <4>2 DEF RoomsShut, IInv, TypeOK
        <4>4. rooms' \in [Users -> [Plans -> BOOLEAN]]
          BY <3>1, <4>2 DEF RoomsShut, IInv, TypeOK
        <4> QED  BY <4>3, <4>4
      <3>2. ASSUME NEW u \in Users, NEW p \in Plans, RoomsReopened(u, p)
            PROVE  /\ rooms' \in [Users -> [Plans -> BOOLEAN]]
                   /\ told' = told
        BY <3>2 DEF RoomsReopened, IInv, TypeOK
      <3>3. ASSUME NEW x \in Checkouts, InvoicePaymentFailed(x)
            PROVE  /\ rooms' = rooms
                   /\ told' \subseteq {"deleted", "failed"} \X Checkouts
        BY <3>3 DEF InvoicePaymentFailed, IInv, TypeOK
      <3>4. \/ \E q \in Requests : RoomsShut(q)
            \/ \E u \in Users, p \in Plans : RoomsReopened(u, p)
            \/ \E x \in Checkouts : InvoicePaymentFailed(x)
            \/ UNCHANGED <<rooms, told>>
        BY <1>2
        DEF Next, Start, Continue, Outside, CreateCheckout, RetryCheckout,
            Cancel, CheckoutSessionCompleted, SubscriptionDeleted, PlanSought,
            SubCreated, SessionOpened, Opened, SessionSaved, CancelSaved,
            StripeStopped, Activated, Abandoned, Pay, InvoiceUnpaid,
            InvoicePaidLate, EndedAtStripe, Becomes
      <3> QED  BY <3>1, <3>2, <3>3, <3>4 DEF IInv, TypeOK
    <2> QED  BY <2>1, <2>2, <2>3, <2>4 DEF TypeOK
  <1> QED  BY <1>1, <1>2

LEMMA StepEachNamesItsOwn ==
    ASSUME IInv, Next
    PROVE  EachNamesItsOwn'
  <1> SUFFICES ASSUME NEW s \in Subs, sub'[s] # NoSub
               PROVE  NamesItsOwn(s)'
    BY DEF EachNamesItsOwn, Stored
  <1>0. /\ sub[s] # NoSub => sub[s] \in Documents
        /\ sub[s] # NoSub => s \in Stored
    BY DEF IInv, TypeOK, Stored
  <1>1. ASSUME NEW x \in Checkouts, checkout[x].of = s,
               checkout[x].state \in Paid \cup {"offered"}
        PROVE  /\ checkout'[x].of = s
               /\ checkout'[x].state \in Paid \cup {"offered"}
               /\ checkout[x].state \in Paid => checkout'[x].state \in Paid
    <2>1. checkout[x].state # "unused"
      BY <1>1 DEF Paid
    <2> QED  BY <1>1, <2>1, CheckoutsLast
  <1>2. ASSUME sub[s] # NoSub,
               sub'[s].session = sub[s].session,
               sub'[s].stripe = sub[s].stripe,
               sub'[s].status = "active" => sub[s].status = "active"
        PROVE  NamesItsOwn(s)'
    <2>1. NamesItsOwn(s)
      BY <1>2, <1>0 DEF IInv, EachNamesItsOwn
    <2>2. /\ sub[s].session \in Checkouts \cup {NoCheckout}
          /\ sub[s].stripe \in Checkouts \cup {NoCheckout}
      BY <1>0, <1>2 DEF Documents
    <2> QED  BY <1>1, <1>2, <2>1, <2>2 DEF NamesItsOwn
  <1>3. CASE sub'[s] = sub[s]
    BY <1>2, <1>3
  <1>4. ASSUME NEW q \in Requests, Creates(q), sub'[s] # sub[s]
        PROVE  NamesItsOwn(s)'
    BY <1>4 DEF Creates, NamesItsOwn
  <1>5. ASSUME NEW q \in Requests, Saves(q), s = req[q].sub
        PROVE  NamesItsOwn(s)'
    <2>1. Works(q) /\ s \in Stored /\ sub[s] # NoSub
      BY <1>5 DEF Saves, Works, NamedSteps, Rewrites, Stored
    <2> DEFINE x == req[q].checkout
    <2>2. x \in Checkouts /\ checkout[x].of = s
      BY <1>5, <2>1 DEF Saves, IInv, Known, KnowsCheckout, Alters
    <2>3. checkout'[x].of = s /\ checkout'[x].state = "offered"
      BY <1>5, <2>2 DEF Saves
    <2>4. CASE sub'[s].session = sub[s].session
      <3>1. sub'[s].status = "active" => sub[s].status = "active"
        BY <1>5 DEF Saves
      <3> QED  BY <1>2, <1>5, <2>1, <2>4, <3>1 DEF Saves
    <2>5. CASE sub'[s].session = x
      <3>1. NamesItsOwn(s)
        BY <2>1 DEF IInv, EachNamesItsOwn
      <3>2. sub[s].stripe \in Checkouts \cup {NoCheckout}
        BY <1>0, <2>1 DEF Documents
      <3>3. sub'[s].stripe = sub[s].stripe
        BY <1>5 DEF Saves
      <3>4. sub'[s].status = "active" => sub[s].status = "active"
        BY <1>5 DEF Saves
      <3> QED
        BY <1>1, <2>3, <2>5, <3>1, <3>2, <3>3, <3>4 DEF NamesItsOwn
    <2> QED  BY <1>5, <2>4, <2>5 DEF Saves
  <1>6. ASSUME NEW q \in Requests, Cancels(q), s = req[q].sub
        PROVE  NamesItsOwn(s)'
    <2>1. s \in Stored /\ sub[s] # NoSub
      BY <1>6 DEF Cancels, Rewrites, Stored
    <2> QED  BY <1>2, <1>6, <2>1 DEF Cancels
  <1>7. ASSUME NEW q \in Requests, Activates(q), s = req[q].sub
        PROVE  NamesItsOwn(s)'
    <2>1. Works(q) /\ s \in Stored /\ sub[s] # NoSub
      BY <1>7 DEF Activates, Works, NamedSteps, Rewrites, Stored
    <2> DEFINE x == req[q].checkout
    <2>2. /\ x # NoCheckout
          /\ checkout[x].state \in Paid /\ checkout[x].of = s
      BY <1>7, <2>1 DEF Activates, IInv, Known, KnowsCheckout
    <2>3. x \in Checkouts
      BY <2>1, <2>2, WorksType DEF IInv
    <2>4. NamesItsOwn(s)
      BY <2>1 DEF IInv, EachNamesItsOwn
    <2>5. /\ sub[s].session \in Checkouts \cup {NoCheckout}
          /\ sub[s].stripe \in Checkouts \cup {NoCheckout}
      BY <1>0, <2>1 DEF Documents
    <2>6. /\ sub'[s].session = sub[s].session
          /\ sub'[s].stripe \in {x, sub[s].stripe}
      BY <1>7 DEF Activates
    <2>7. sub'[s].stripe # NoCheckout
      <3>1. CASE sub'[s].stripe = x
        BY <2>2, <3>1
      <3>2. CASE sub'[s].stripe # x
        <4>1. req[q].found.stripe = x /\ sub'[s].stripe = sub[s].stripe
          BY <1>7, <3>2 DEF Activates
        <4>2. sub[s].stripe # NoCheckout
          BY <1>7, <2>1, <2>2, <4>1 DEF IInv, Known, KnowsDocument
        <4> QED  BY <4>1, <4>2
      <3> QED  BY <3>1, <3>2
    <2> QED
      BY <1>1, <2>2, <2>3, <2>4, <2>5, <2>6, <2>7 DEF NamesItsOwn
  <1>8. \/ sub'[s] = sub[s]
        \/ \E q \in Requests : Creates(q)
        \/ \E q \in Requests :
             s = req[q].sub /\ (Saves(q) \/ Cancels(q) \/ Activates(q))
    BY NextKinds
    DEF IInv, Quiet, Begins, Opens, Stops, Turns, Saves, Cancels, Activates,
        Rewrites
  <1> QED  BY <1>3, <1>4, <1>5, <1>6, <1>7, <1>8

(* The checkout that a request is about to save is left alone by others.   *)
LEMMA OpenLasts ==
    ASSUME IInv, Next, NEW q \in Requests, req'[q] = req[q],
           req[q].pc \in {"save", "resave"}
    PROVE  checkout'[req[q].checkout] = checkout[req[q].checkout]
  <1> DEFINE x == req[q].checkout
  <1>1. Works(q)
    BY DEF Works, NamedSteps
  <1>2. x \in Checkouts /\ checkout[x].state = "open"
    BY <1>1, WorksType DEF IInv, Known, KnowsCheckout
  <1>3. ASSUME NEW p \in Requests, Saves(p)  PROVE  checkout'[x] = checkout[x]
    <2>1. p # q
      BY <1>3 DEF Saves
    <2>2. req[p].checkout # x
      BY <1>3, <2>1 DEF Saves, IInv, OwnSession
    <2> QED  BY <1>2, <1>3, <2>2 DEF Saves, Alters
  <1>4. ASSUME NEW p \in Requests, Stops(p)  PROVE  checkout'[x] = checkout[x]
    <2>1. Works(p) /\ req[p].pc = "stop"
      BY <1>4 DEF Stops, Works, NamedSteps
    <2>2. req[p].checkout # NoCheckout => checkout[req[p].checkout].state \in Paid
      BY <2>1 DEF IInv, Known, KnowsCheckout
    <2> QED  BY <1>2, <1>4, <2>2, SubscriptionsAssumption DEF Stops, Alters, Paid
  <1>5. ASSUME NEW p \in Requests, Opens(p)  PROVE  checkout'[x] = checkout[x]
    BY <1>2, <1>5 DEF Opens, Alters
  <1>6. ASSUME NEW y \in Checkouts, Turns(y)  PROVE  checkout'[x] = checkout[x]
    BY <1>2, <1>6 DEF Turns, Alters
  <1> QED
    BY <1>3, <1>4, <1>5, <1>6, NextKinds
    DEF IInv, Quiet, Begins, Creates, Cancels, Activates

(* The kinds of step that a request takes itself and works on after it.    *)
LEMMA OwnKinds ==
    ASSUME IInv, Next, NEW q \in Requests, Works(q)', req'[q] # req[q]
    PROVE  Begins(q) \/ Creates(q) \/ Opens(q) \/ Cancels(q)
  <1>1. \E p \in Requests :
          \/ Quiet(p) \/ Begins(p) \/ Creates(p) \/ Opens(p)
          \/ Saves(p) \/ Cancels(p) \/ Stops(p) \/ Activates(p)
    BY NextKinds DEF IInv, Turns
  <1>2. PICK p \in Requests :
          \/ Quiet(p) \/ Begins(p) \/ Creates(p) \/ Opens(p)
          \/ Saves(p) \/ Cancels(p) \/ Stops(p) \/ Activates(p)
    BY <1>1
  <1>3. OthersStay(p)
    BY <1>2 DEF Quiet, Begins, Creates, Opens, Saves, Cancels, Stops, Activates
  <1>4. p = q
    BY <1>3 DEF OthersStay
  <1>5. ~(Quiet(q) \/ Saves(q) \/ Stops(q) \/ Activates(q))
    BY DEF Works, NamedSteps, Quiet, Saves, Stops, Activates
  <1> QED  BY <1>2, <1>4, <1>5

LEMMA StepKnown ==
    ASSUME IInv, Next
    PROVE  Known'
  <1> SUFFICES ASSUME NEW q \in Requests, Works(q)'
               PROVE  KnowsDocument(q)' /\ KnowsCheckout(q)'
    BY DEF Known
  <1>1. CASE req'[q] = req[q]
    <2>1. Works(q)
      BY <1>1 DEF Works
    <2>2. KnowsDocument(q) /\ KnowsCheckout(q)
      BY <2>1 DEF IInv, Known
    <2>3. KnowsDocument(q)'
      BY <1>1, <2>2, DocumentsLast DEF KnowsDocument
    <2>4. req[q].checkout \in Checkouts \cup {NoCheckout}
      BY <2>1, WorksType DEF IInv
    <2>5. CASE req[q].pc \in {"save", "resave"}
      BY <1>1, <2>2, <2>5, OpenLasts, <2>3 DEF KnowsCheckout
    <2>6. CASE req[q].pc \in {"activate", "shut", "cancel", "stop"}
      <3>1. CASE req[q].checkout = NoCheckout
        BY <1>1, <2>2, <2>6, <3>1, <2>3 DEF KnowsCheckout
      <3>2. CASE req[q].checkout # NoCheckout
        <4> DEFINE x == req[q].checkout
        <4>1. x \in Checkouts /\ checkout[x].state \in Paid
          BY <2>2, <2>4, <2>6, <3>2 DEF KnowsCheckout
        <4>2. checkout[x].state # "unused"
          BY <4>1 DEF Paid
        <4>3. /\ checkout'[x].of = checkout[x].of
              /\ checkout'[x].state \in Paid
              /\ checkout[x].state = "ended" => checkout'[x].state = "ended"
          BY <4>1, <4>2, CheckoutsLast
        <4> QED  BY <1>1, <2>2, <2>6, <3>2, <4>1, <4>3, <2>3 DEF KnowsCheckout
      <3> QED  BY <3>1, <3>2
    <2>7. CASE req[q].pc \in {"session", "retry"}
      BY <1>1, <2>7, <2>3 DEF KnowsCheckout
    <2> QED
      BY <2>1, <2>3, <2>5, <2>6, <2>7 DEF Works, NamedSteps
  <1>2. CASE Begins(q)
    <2> DEFINE s == req'[q].sub
               x == req'[q].checkout
    <2>1. s \in Stored /\ sub' = sub /\ checkout' = checkout
      BY <1>2 DEF Begins
    <2>2. NamesItsOwn(s)
      BY <2>1 DEF IInv, EachNamesItsOwn
    <2>3. KnowsDocument(q)'
      BY <1>2, <2>1 DEF Begins, KnowsDocument, Stored
    <2>4. NoCheckout \notin Checkouts
      BY SubscriptionsAssumption
    <2>5. CASE req'[q].pc = "retry"
      BY <2>5, <2>3 DEF KnowsCheckout
    <2>6. CASE req'[q].pc = "cancel" /\ x = sub[s].stripe
      BY <2>1, <2>2, <2>6, <2>3 DEF KnowsCheckout, NamesItsOwn
    <2>7. CASE /\ req'[q].pc = "activate" /\ x \in Checkouts
               /\ checkout[x].state \in Paid /\ sub[s].session = x
      BY <2>1, <2>2, <2>4, <2>7, <2>3 DEF KnowsCheckout, NamesItsOwn
    <2>8. CASE /\ req'[q].pc = "shut" /\ x \in Checkouts
               /\ checkout[x].state = "ended" /\ sub[s].stripe = x
      BY <2>1, <2>2, <2>4, <2>8, <2>3 DEF KnowsCheckout, NamesItsOwn
    <2> QED  BY <1>2, <2>3, <2>5, <2>6, <2>7, <2>8 DEF Begins
  <1>3. CASE Creates(q)
    <2>1. req'[q].sub \in Stored'
      BY <1>3, NoSubAssumption DEF Creates, Stored
    <2> QED  BY <1>3, <2>1 DEF Creates, KnowsDocument, KnowsCheckout
  <1>4. CASE Opens(q)
    <2>1. Works(q)
      BY <1>4 DEF Opens, Works, NamedSteps
    <2>2. KnowsDocument(q)
      BY <2>1 DEF IInv, Known
    <2>3. KnowsDocument(q)'
      BY <1>4, <2>2 DEF Opens, KnowsDocument, Stored
    <2>4. req'[q].checkout # NoCheckout
      BY <1>4, SubscriptionsAssumption DEF Opens, Alters
    <2> QED  BY <1>4, <2>3, <2>4 DEF Opens, KnowsCheckout
  <1>5. CASE Cancels(q)
    <2>1. Works(q)
      BY <1>5 DEF Cancels, Works, NamedSteps
    <2>2. KnowsDocument(q) /\ KnowsCheckout(q)
      BY <2>1 DEF IInv, Known
    <2>3. KnowsDocument(q)'
      BY <1>5, <2>2 DEF Cancels, Rewrites, KnowsDocument
    <2>4. KnowsCheckout(q)'
      BY <1>5, <2>2 DEF Cancels, KnowsCheckout
    <2> QED  BY <2>3, <2>4
  <1> QED  BY <1>1, <1>2, <1>3, <1>4, <1>5, OwnKinds

LEMMA StepOwnSession ==
    ASSUME IInv, Next
    PROVE  OwnSession'
  <1> SUFFICES ASSUME NEW p \in Requests, NEW q \in Requests, p # q,
                      req'[p].pc \in {"save", "resave"},
                      req'[q].pc \in {"save", "resave"},
                      req'[p].checkout = req'[q].checkout
               PROVE  FALSE
    BY DEF OwnSession
  <1>1. ASSUME NEW r \in Requests, req'[r].pc \in {"save", "resave"}
        PROVE  \/ req'[r] = req[r] /\ checkout[req[r].checkout].state = "open"
               \/ Opens(r)
    <2>1. Works(r)'
      BY <1>1 DEF Works, NamedSteps
    <2>2. ~(Begins(r) \/ Creates(r) \/ Cancels(r))
      BY <1>1 DEF Begins, Creates, Cancels
    <2>3. CASE req'[r] = req[r]
      BY <1>1, <2>1, <2>3 DEF IInv, Known, KnowsCheckout, Works
    <2>4. CASE req'[r] # req[r]
      BY <2>1, <2>2, <2>4, OwnKinds
    <2> QED  BY <2>3, <2>4
  <1>2. CASE req'[p] = req[p] /\ req'[q] = req[q]
    BY <1>2 DEF IInv, OwnSession
  <1>3. CASE Opens(p)
    <2>1. req'[q] = req[q]
      BY <1>3 DEF Opens, OthersStay
    <2>2. ~Opens(q)
      BY <2>1 DEF Opens
    <2> QED  BY <1>1, <1>3, <2>1, <2>2 DEF Opens
  <1>4. CASE Opens(q)
    <2>1. req'[p] = req[p]
      BY <1>4 DEF Opens, OthersStay
    <2>2. ~Opens(p)
      BY <2>1 DEF Opens
    <2> QED  BY <1>1, <1>4, <2>1, <2>2 DEF Opens
  <1> QED  BY <1>1, <1>2, <1>3, <1>4

LEMMA StepAlone ==
    ASSUME IInv, Next
    PROVE  Alone'
  <1> SUFFICES ASSUME NEW s \in Subs \ Contested,
                      NEW p \in Requests, NEW q \in Requests, p # q,
                      WorksOn(p, s)', WorksOn(q, s)'
               PROVE  FALSE
    BY DEF Alone
  <1>1. ASSUME NEW r \in Requests, WorksOn(r, s)'
        PROVE  WorksOn(r, s) \/ Begins(r) \/ Creates(r)
    <2>1. CASE req'[r] = req[r]
      BY <1>1, <2>1 DEF WorksOn, Works
    <2>2. CASE Opens(r) \/ Cancels(r)
      BY <1>1, <2>2 DEF WorksOn, Works, NamedSteps, Opens, Cancels
    <2> QED  BY <1>1, <2>1, <2>2, OwnKinds DEF WorksOn
  <1>2. ASSUME NEW r \in Requests, NEW t \in Requests, r # t,
               WorksOn(r, s)', WorksOn(t, s)', Begins(r)
        PROVE  FALSE
    <2>1. req'[t] = req[t]
      BY <1>2 DEF Begins, OthersStay
    <2>2. WorksOn(t, s)
      BY <1>2, <2>1 DEF WorksOn, Works
    <2> QED  BY <1>2, <2>2 DEF Begins, WorksOn
  <1>3. ASSUME NEW r \in Requests, NEW t \in Requests, r # t,
               WorksOn(r, s)', WorksOn(t, s)', Creates(r)
        PROVE  FALSE
    <2>1. req'[t] = req[t]
      BY <1>3 DEF Creates, OthersStay
    <2>2. WorksOn(t, s)
      BY <1>3, <2>1 DEF WorksOn, Works
    <2>3. s \in Stored
      BY <2>2 DEF WorksOn, IInv, Known, KnowsDocument
    <2> QED  BY <1>3, <2>3 DEF Creates, WorksOn
  <1> QED  BY <1>1, <1>2, <1>3 DEF IInv, Alone

LEMMA StepUpToDate ==
    ASSUME IInv, Next
    PROVE  UpToDate'
  <1> SUFFICES ASSUME NEW s \in Subs \ Contested, NEW q \in Requests,
                      WorksOn(q, s)'
               PROVE  /\ req'[q].pc # "stop" => req'[q].found = sub'[s]
                      /\ req'[q].pc \in {"cancel", "stop"} =>
                           req'[q].checkout = sub'[s].stripe
    BY DEF UpToDate
  <1>1. CASE req'[q] = req[q]
    <2>1. WorksOn(q, s)
      BY <1>1 DEF WorksOn, Works
    <2>2. s \in Stored
      BY <2>1 DEF WorksOn, IInv, Known, KnowsDocument
    <2>3. ASSUME NEW p \in Requests, Saves(p) \/ Cancels(p) \/ Activates(p)
          PROVE  sub'[s] = sub[s]
      <3>1. req'[p] # req[p] /\ Works(p)
        BY <2>3 DEF Saves, Cancels, Activates, Works, NamedSteps
      <3>2. p # q
        BY <1>1, <3>1
      <3>3. req[p].sub # s
        BY <2>1, <3>1, <3>2 DEF IInv, Alone, WorksOn
      <3> QED  BY <2>3, <3>3 DEF Saves, Cancels, Activates, Rewrites
    <2>4. ASSUME NEW p \in Requests, Creates(p)  PROVE  sub'[s] = sub[s]
      BY <2>2, <2>4 DEF Creates
    <2>5. sub'[s] = sub[s]
      BY <2>3, <2>4, NextKinds DEF IInv, Quiet, Begins, Opens, Stops, Turns
    <2> QED  BY <1>1, <2>1, <2>5 DEF IInv, UpToDate
  <1>2. CASE Begins(q)
    BY <1>2 DEF Begins, WorksOn
  <1>3. CASE Creates(q)
    BY <1>3 DEF Creates, WorksOn
  <1>4. CASE Opens(q)
    <2>1. WorksOn(q, s)
      BY <1>4 DEF Opens, WorksOn, Works, NamedSteps
    <2>2. req[q].pc # "stop" /\ req'[q].pc \notin {"cancel", "stop"}
      BY <1>4 DEF Opens
    <2> QED  BY <1>4, <2>1, <2>2 DEF Opens, IInv, UpToDate
  <1>5. CASE Cancels(q)
    <2>1. WorksOn(q, s) /\ s = req[q].sub
      BY <1>5 DEF Cancels, WorksOn, Works, NamedSteps
    <2> QED  BY <1>5, <2>1 DEF Cancels, IInv, UpToDate
  <1> QED  BY <1>1, <1>2, <1>3, <1>4, <1>5, OwnKinds DEF WorksOn

(* A request that has saved a cancellation leaves that step by a stop at   *)
(* Stripe, unless the subscription is contested.                           *)
LEMMA StopNotSkipped ==
    ASSUME IInv, Next, NEW q \in Requests, req[q].pc = "stop",
           req[q].sub \notin Contested, req'[q] # req[q]
    PROVE  Stops(q)
  <1>1. PICK p \in Requests :
          \/ Quiet(p) \/ Begins(p) \/ Creates(p) \/ Opens(p)
          \/ Saves(p) \/ Cancels(p) \/ Stops(p) \/ Activates(p)
    BY NextKinds DEF IInv, Turns
  <1>2. OthersStay(p)
    BY <1>1 DEF Quiet, Begins, Creates, Opens, Saves, Cancels, Stops, Activates
  <1>3. p = q
    BY <1>2 DEF OthersStay
  <1>4. ~(\/ Quiet(q) \/ Begins(q) \/ Creates(q) \/ Opens(q)
          \/ Saves(q) \/ Cancels(q) \/ Activates(q))
    BY DEF Quiet, Begins, Creates, Opens, Saves, Cancels, Activates, Works,
           NamedSteps
  <1> QED  BY <1>1, <1>3, <1>4

LEMMA StepStopped ==
    ASSUME IInv, Next
    PROVE  Stopped'
  <1> SUFFICES ASSUME NEW s \in Subs \ Contested, sub'[s] # NoSub,
                      \A q \in Requests : WorksOn(q, s)' => req'[q].pc # "stop",
                      sub'[s].status = "cancelled",
                      sub'[s].stripe # NoCheckout
               PROVE  checkout'[sub'[s].stripe].state = "ended"
    BY DEF Stopped, Stored
  <1>1. ASSUME NEW q \in Requests, WorksOn(q, s), req[q].pc = "stop"
        PROVE  checkout'[sub'[s].stripe].state = "ended"
    <2>1. req'[q] # req[q]
      BY <1>1 DEF WorksOn, Works
    <2>2. Stops(q)
      BY <1>1, <2>1, StopNotSkipped DEF WorksOn
    <2>3. req[q].checkout = sub[s].stripe
      BY <1>1 DEF IInv, UpToDate
    <2> QED  BY <2>2, <2>3 DEF Stops
  <1>2. ASSUME \A q \in Requests : WorksOn(q, s) => req[q].pc # "stop",
               sub[s] # NoSub,
               sub[s].status = "cancelled", sub'[s].stripe = sub[s].stripe
        PROVE  checkout'[sub'[s].stripe].state = "ended"
    <2>1. s \in Stored \ Contested
      BY <1>2 DEF Stored
    <2>2. checkout[sub[s].stripe].state = "ended"
      BY <1>2, <2>1 DEF IInv, Stopped
    <2>3. sub[s].stripe \in Checkouts
      BY <1>2, <2>1 DEF IInv, TypeOK, Documents, Stored
    <2> QED  BY <1>2, <2>2, <2>3, CheckoutsLast
  <1>3. CASE \A q \in Requests : WorksOn(q, s) => req[q].pc # "stop"
    <2>1. CASE sub'[s] = sub[s]
      BY <1>2, <1>3, <2>1
    <2>2. ASSUME NEW q \in Requests, Creates(q), sub'[s] # sub[s]
          PROVE  FALSE
      BY <2>2 DEF Creates
    <2>3. ASSUME NEW q \in Requests, Saves(q), req[q].sub = s
          PROVE  checkout'[sub'[s].stripe].state = "ended"
      <3>1. sub[s] # NoSub
        BY <2>3 DEF Saves, Rewrites, Stored
      <3> QED  BY <1>2, <1>3, <2>3, <3>1 DEF Saves
    <2>4. ASSUME NEW q \in Requests, Cancels(q), req[q].sub = s
          PROVE  FALSE
      BY <2>4 DEF Cancels, WorksOn, Works, NamedSteps
    <2>5. ASSUME NEW q \in Requests, Activates(q), req[q].sub = s
          PROVE  FALSE
      <3>1. WorksOn(q, s) /\ req[q].pc # "stop"
        BY <2>5 DEF Activates, WorksOn, Works, NamedSteps
      <3>2. req[q].found = sub[s]
        BY <3>1 DEF IInv, UpToDate
      <3>3. sub'[s].status = "active"
        BY <2>5, <3>2 DEF Activates
      <3> QED  BY <3>3
    <2>6. \/ sub'[s] = sub[s]
          \/ \E q \in Requests : Creates(q)
          \/ \E q \in Requests :
               s = req[q].sub /\ (Saves(q) \/ Cancels(q) \/ Activates(q))
      BY NextKinds
      DEF IInv, Quiet, Begins, Opens, Stops, Turns, Saves, Cancels, Activates,
          Rewrites
    <2> QED  BY <2>1, <2>2, <2>3, <2>4, <2>5, <2>6
  <1> QED  BY <1>1, <1>3

(* Rooms are shut by the handler of a deletion, for the user and the plan  *)
(* of the subscription that it works on.                                   *)
LEMMA ShutBy ==
    ASSUME IInv, Next, NEW u \in Users, NEW p \in Plans,
           rooms[u][p], ~rooms'[u][p]
    PROVE  \E q \in Requests :
             /\ RoomsShut(q)
             /\ req[q].found.user = u /\ req[q].found.plan = p
  <1>1. ASSUME NEW v \in Users, NEW r \in Plans, RoomsReopened(v, r)
        PROVE  FALSE
    BY <1>1 DEF RoomsReopened, IInv, TypeOK
  <1>2. \/ \E q \in Requests : RoomsShut(q)
        \/ \E v \in Users, r \in Plans : RoomsReopened(v, r)
        \/ UNCHANGED rooms
    BY DEF Next, Start, Continue, Outside, CreateCheckout, RetryCheckout,
           Cancel, CheckoutSessionCompleted, SubscriptionDeleted, PlanSought,
           SubCreated, SessionOpened, Opened, SessionSaved, CancelSaved,
           StripeStopped, Activated, Abandoned, Pay, InvoiceUnpaid,
           InvoicePaidLate, EndedAtStripe, Becomes, InvoicePaymentFailed
  <1>3. PICK q \in Requests : RoomsShut(q)
    BY <1>1, <1>2
  <1>4. rooms' = [rooms EXCEPT ![req[q].found.user][req[q].found.plan] = FALSE]
    BY <1>3 DEF RoomsShut
  <1>5. req[q].found.user = u /\ req[q].found.plan = p
    BY <1>4 DEF IInv, TypeOK
  <1> QED  BY <1>3, <1>5

LEMMA StepRoomsShutForCause ==
    ASSUME IInv, Next, TypeOK'
    PROVE  RoomsShutForCause'
  <1> SUFFICES ASSUME NEW u \in Users, NEW p \in Plans, ~rooms'[u][p]
               PROVE  \E x \in Checkouts, s \in Stored' :
                        /\ checkout'[x] = [state |-> "ended", of |-> s]
                        /\ sub'[s].user = u /\ sub'[s].plan = p
    BY DEF RoomsShutForCause
  <1>1. ASSUME NEW x \in Checkouts, NEW s \in Stored,
               checkout[x].state = "ended", checkout[x].of = s,
               sub[s].user = u, sub[s].plan = p
        PROVE  \E y \in Checkouts, t \in Stored' :
                 /\ checkout'[y] = [state |-> "ended", of |-> t]
                 /\ sub'[t].user = u /\ sub'[t].plan = p
    <2>1. checkout'[x].state = "ended" /\ checkout'[x].of = s
      BY <1>1, CheckoutsLast
    <2>2. checkout'[x] = [state |-> "ended", of |-> s]
      BY <2>1 DEF TypeOK, StripeRecords
    <2>3. s \in Stored' /\ sub'[s].user = u /\ sub'[s].plan = p
      BY <1>1, DocumentsLast
    <2> QED  BY <2>2, <2>3
  <1>2. CASE ~rooms[u][p]
    <2>1. PICK x \in Checkouts, s \in Stored :
            /\ checkout[x] = [state |-> "ended", of |-> s]
            /\ sub[s].user = u /\ sub[s].plan = p
      BY <1>2 DEF IInv, RoomsShutForCause
    <2>2. checkout[x].state = "ended" /\ checkout[x].of = s
      BY <2>1
    <2> QED  BY <1>1, <2>1, <2>2
  <1>3. CASE rooms[u][p]
    <2>1. PICK q \in Requests :
            /\ RoomsShut(q)
            /\ req[q].found.user = u /\ req[q].found.plan = p
      BY <1>3, ShutBy
    <2>2. Works(q) /\ req[q].pc = "shut"
      BY <2>1 DEF RoomsShut, At, Works, NamedSteps
    <2>3. KnowsDocument(q) /\ KnowsCheckout(q)
      BY <2>2 DEF IInv, Known
    <2>4. req[q].checkout \in Checkouts
      BY <2>2, <2>3, WorksType DEF IInv, KnowsCheckout
    <2>5. /\ checkout[req[q].checkout].state = "ended"
          /\ checkout[req[q].checkout].of = req[q].sub
      BY <2>2, <2>3 DEF KnowsCheckout
    <2>6. /\ req[q].sub \in Stored
          /\ sub[req[q].sub].user = u /\ sub[req[q].sub].plan = p
      BY <2>1, <2>3 DEF KnowsDocument
    <2> QED  BY <1>1, <2>4, <2>5, <2>6
  <1> QED  BY <1>2, <1>3

-----------------------------------------------------------------------------
(* The theorems                                                            *)

LEMMA InitIInv == Init => IInv
  <1> SUFFICES ASSUME Init PROVE IInv
    OBVIOUS
  <1>1. TypeOK
    BY DEF Init, TypeOK, StripeRecords
  <1>2. \A s \in Subs : s \notin Stored
    BY DEF Init, Stored
  <1>3. \A q \in Requests : req[q].pc = "idle" /\ ~Works(q)
    BY DEF Init, Idle, Works, NamedSteps
  <1>4. EachNamesItsOwn /\ Stopped
    BY <1>2 DEF EachNamesItsOwn, Stopped, Stored
  <1>5. Known /\ OwnSession /\ Alone /\ UpToDate
    BY <1>3 DEF Known, OwnSession, Alone, UpToDate, WorksOn
  <1>6. RoomsShutForCause
    BY DEF Init, RoomsShutForCause
  <1> QED  BY <1>1, <1>4, <1>5, <1>6 DEF IInv

LEMMA StepIInv == IInv /\ [Next]_vars => IInv'
  <1> SUFFICES ASSUME IInv, [Next]_vars PROVE IInv'
    OBVIOUS
  <1>1. CASE Next
    BY <1>1, StepTypeOK, StepEachNamesItsOwn, StepKnown, StepOwnSession,
       StepAlone, StepUpToDate, StepStopped, StepRoomsShutForCause DEF IInv
  <1>2. CASE UNCHANGED vars
    BY <1>2
    DEF IInv, vars, TypeOK, EachNamesItsOwn, NamesItsOwn, Known,
        KnowsDocument, KnowsCheckout, OwnSession, Alone, UpToDate, Stopped,
        RoomsShutForCause, Stored, Works, WorksOn
  <1> QED  BY <1>1, <1>2

(* The inductive invariant holds: what documents, checkouts and the        *)
(* handlers in flight know of each other.                                  *)
THEOREM Invariance == Spec => []IInv
  BY InitIInv, StepIInv, PTL DEF Spec

(* The variables keep their types.                                         *)
THEOREM TypeCorrect == Spec => []TypeOK
  <1>1. IInv => TypeOK
    BY DEF IInv
  <1> QED  BY <1>1, Invariance, PTL

(* An active subscription was paid for: it names a checkout that was opened *)
(* for it and completed (service.ts 51-58).                                *)
THEOREM ActiveCompleted == Spec => []ActiveWasCompleted
  <1>1. IInv => ActiveWasCompleted
    BY DEF IInv, EachNamesItsOwn, NamesItsOwn, ActiveWasCompleted
  <1> QED  BY <1>1, Invariance, PTL

(* A webhook event leads to one subscription (subcription/service.ts       *)
(* 80-85).                                                                 *)
THEOREM OneForEachEvent == Spec => []EventsLeadToOne
  <1>1. IInv => EventsLeadToOne
    BY DEF IInv, EachNamesItsOwn, NamesItsOwn, EventsLeadToOne
  <1> QED  BY <1>1, Invariance, PTL

(* Rooms are shut for a subscription of their own creator and plan that    *)
(* Stripe has ended (service.ts 121-133).                                  *)
THEOREM ShutForCause == Spec => []RoomsShutForCause
  <1>1. IInv => RoomsShutForCause
    BY DEF IInv
  <1> QED  BY <1>1, Invariance, PTL

(* A subscription whose handlers neither overlap nor fail is not billed on *)
(* once it has been cancelled (controller.ts 153-156).                     *)
THEOREM CancelledEnds == Spec => []CancelledEndsBilling
  <1>1. IInv => CancelledEndsBilling
    <2> SUFFICES ASSUME IInv, NEW s \in Stored \ Contested, ~InHand(s),
                        sub[s].status = "cancelled",
                        sub[s].stripe # NoCheckout
                 PROVE  checkout[sub[s].stripe].state = "ended"
      BY DEF CancelledEndsBilling
    <2>1. \A q \in Requests : ~WorksOn(q, s)
      BY InHandMeans DEF IInv
    <2> QED  BY <2>1 DEF IInv, Stopped
  <1> QED  BY <1>1, Invariance, PTL
=============================================================================
