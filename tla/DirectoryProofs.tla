-------------------------- MODULE DirectoryProofs --------------------------
(***************************************************************************)
(* What holds of the parts behind the HTTP interface that share no state,  *)
(* for any number of requests in flight: signing up (SignUp), the way into *)
(* a room (Admission), what administrators keep (Catalog) and what they    *)
(* read page by page (Listings).                                           *)
(***************************************************************************)
EXTENDS SignUp, Admission, Catalog, Listings, FiniteSetTheorems,
        FunctionTheorems, SequenceTheorems, TLAPS

-----------------------------------------------------------------------------
(* Signing up: an account never has two free plans, has one unless its     *)
(* creation was cut short, and a password is accepted a bounded number of  *)
(* times.                                                                  *)

Steps == {"create", "subscribe", "genOtp", "compare", "count", "raise",
          "verify", "remove"}

(* TypeOK, but for how far the two counters go (below), and what keeps the *)
(* wrong tries within theirs.                                              *)
Typed ==
    /\ account \in {"none", "unverified", "verified"}
    /\ freePlans \in Nat
    /\ otp \in Otps \cup {NoOtp}
    /\ incorrect \in 0..MaxTries
    /\ used \in [Otps -> Nat]
    /\ req \in [Requests -> InFlight \cup {Idle}]
    /\ \A q \in Requests : req[q].pc = "raise" => req[q].read < MaxTries
    /\ cut \in BOOLEAN /\ kept \subseteq Otps

(* A request in flight has the fields of one.                              *)
LEMMA InFlightType ==
    ASSUME Typed, NEW q \in Requests, req[q].pc # "idle"
    PROVE  /\ req[q] \in InFlight
           /\ req[q].pc \in Steps
           /\ req[q].google \in BOOLEAN
           /\ req[q].given \in Otps \cup {NoOtp}
           /\ req[q].read \in 0..MaxTries
  BY DEF Typed, Idle, InFlight, Steps

(* One request moves on, and the others stay as they are.                  *)
LEMMA GotoShape ==
    ASSUME Typed, NEW q \in Requests, req[q].pc # "idle",
           NEW step \in Steps, Goto(q, step)
    PROVE  /\ req' \in [Requests -> InFlight \cup {Idle}]
           /\ \A p \in Requests \ {q} : req'[p] = req[p]
           /\ req'[q].pc = step
           /\ req'[q].given = req[q].given
           /\ req'[q].read = req[q].read
  <1>1. req[q] \in InFlight
    BY InFlightType
  <1>2. [req[q] EXCEPT !.pc = step] \in InFlight
    BY <1>1 DEF InFlight, Steps
  <1>3. req' = [req EXCEPT ![q] = [req[q] EXCEPT !.pc = step]]
    BY DEF Goto, Typed
  <1> QED  BY <1>1, <1>2, <1>3 DEF Typed, InFlight

LEMMA AnswerShape ==
    ASSUME Typed, NEW q \in Requests, Answer(q)
    PROVE  /\ req' \in [Requests -> InFlight \cup {Idle}]
           /\ \A p \in Requests \ {q} : req'[p] = req[p]
           /\ req'[q].pc = "idle"
  BY DEF Answer, Typed, Idle

(* A request begins with the creation of the account, with a new password, *)
(* or with the comparison of one.                                          *)
Begins(q) ==
    /\ req[q].pc = "idle"
    /\ req' \in [Requests -> InFlight \cup {Idle}]
    /\ \A p \in Requests \ {q} : req'[p] = req[p]
    /\ req'[q].pc \in {"create", "genOtp", "compare"}
    /\ req'[q].pc = "compare" => account # "none"
    /\ UNCHANGED <<account, freePlans, otp, incorrect, used, cut, kept>>

LEMMA BeginShape ==
    ASSUME Typed, NEW q \in Requests,
           \/ \E google \in BOOLEAN : Login(q, google)
           \/ \E o \in Otps \cup {NoOtp} : VerifyOtp(q, o)
    PROVE  Begins(q)
  <1>1. PICK step \in {"create", "genOtp", "compare"}, google \in BOOLEAN,
             o \in Otps \cup {NoOtp} :
               Begin(q, step, google, o) /\ (step = "compare" => account # "none")
    BY DEF Login, VerifyOtp
  <1>2. [pc |-> step, google |-> google, given |-> o, read |-> 0] \in InFlight
    BY SignUpAssumption DEF InFlight
  <1> QED  BY <1>1, <1>2 DEF Begin, Begins, Typed, Idle, histories

(* Every step is of one of these kinds.                                    *)
LEMMA NextKinds ==
    ASSUME Typed, Next
    PROVE  \/ OtpExpired \/ IncorrectExpired \/ ProcessEnds
           \/ \E q \in Requests :
                \/ Begins(q)
                \/ UserCreated(q) \/ FreePlanSubscribed(q) \/ OtpSet(q)
                \/ OtpCompared(q) \/ TriesCounted(q) \/ TriesRaised(q)
                \/ Verified(q) \/ OtpRemoved(q) \/ Abandoned(q)
  BY BeginShape DEF Next

(* What a request in flight does to itself: it ends, or goes to one of the *)
(* steps that follow, with the password it was given.                      *)
LEMMA OwnStep ==
    ASSUME Typed, NEW q \in Requests,
           \/ UserCreated(q) \/ FreePlanSubscribed(q) \/ OtpSet(q)
           \/ OtpCompared(q) \/ TriesCounted(q) \/ TriesRaised(q)
           \/ Verified(q) \/ OtpRemoved(q) \/ Abandoned(q)
    PROVE  /\ req[q].pc # "idle"
           /\ req' \in [Requests -> InFlight \cup {Idle}]
           /\ \A p \in Requests \ {q} : req'[p] = req[p]
           /\ req'[q].pc # "idle" => req'[q].given = req[q].given
           /\ req'[q].pc = "raise" => req'[q].read < MaxTries
           /\ req'[q].pc \in Steps \cup {"idle"}
           /\ req'[q].pc = "subscribe" => UserCreated(q)
           /\ req'[q].pc = "verify" => OtpCompared(q) /\ otp = req[q].given
           /\ req'[q].pc = "remove" => Verified(q)
  <1>1. CASE UserCreated(q)
    BY <1>1, GotoShape DEF UserCreated, At, Steps
  <1>2. CASE FreePlanSubscribed(q)
    <2>1. Answer(q) \/ Goto(q, "genOtp")
      BY <1>2 DEF FreePlanSubscribed, AfterAccount
    <2>2. req[q].pc = "subscribe" /\ "genOtp" \in Steps
      BY <1>2 DEF FreePlanSubscribed, At, Steps
    <2> QED  BY <2>1, <2>2, GotoShape, AnswerShape
  <1>3. CASE OtpSet(q) \/ TriesRaised(q) \/ OtpRemoved(q) \/ Abandoned(q)
    <2>1. Answer(q) /\ req[q].pc # "idle"
      BY <1>3 DEF OtpSet, TriesRaised, OtpRemoved, Abandoned, At
    <2> QED  BY <2>1, AnswerShape
  <1>4. CASE OtpCompared(q)
    <2>1. req[q].pc = "compare"
      BY <1>4 DEF OtpCompared, At
    <2>2. CASE Answer(q)
      BY <2>1, <2>2, AnswerShape
    <2>3. CASE Goto(q, "verify") /\ otp = req[q].given
      <3>1. "verify" \in Steps
        BY DEF Steps
      <3> QED  BY <1>4, <2>1, <2>3, <3>1, GotoShape
    <2>4. CASE Goto(q, "count")
      <3>1. "count" \in Steps
        BY DEF Steps
      <3> QED  BY <2>1, <2>4, <3>1, GotoShape
    <2> QED  BY <1>4, <2>2, <2>3, <2>4 DEF OtpCompared
  <1>5. CASE TriesCounted(q)
    <2>1. req[q].pc = "count" /\ req[q] \in InFlight
      BY <1>5, InFlightType DEF TriesCounted, At
    <2>2. CASE Answer(q)
      BY <2>1, <2>2, AnswerShape
    <2>3. CASE /\ incorrect # MaxTries
               /\ req' = [req EXCEPT ![q].pc = "raise", ![q].read = incorrect]
      <3>1. [req[q] EXCEPT !.pc = "raise", !.read = incorrect] \in InFlight
        BY <2>1 DEF InFlight, Typed
      <3>2. incorrect < MaxTries
        BY <2>3, SignUpAssumption DEF Typed
      <3>3. /\ req'[q].pc = "raise" /\ req'[q].read = incorrect
            /\ req'[q].given = req[q].given
            /\ \A p \in Requests \ {q} : req'[p] = req[p]
            /\ req' \in [Requests -> InFlight \cup {Idle}]
        BY <2>1, <2>3, <3>1 DEF Typed, InFlight
      <3> QED  BY <2>1, <3>2, <3>3 DEF Steps
    <2> QED  BY <1>5, <2>2, <2>3 DEF TriesCounted
  <1>6. CASE Verified(q)
    BY <1>6, GotoShape DEF Verified, At, Steps
  <1> QED  BY <1>1, <1>2, <1>3, <1>4, <1>5, <1>6

(* Every step keeps the type.                                              *)
LEMMA TypeStep == Typed /\ [Next]_vars => Typed'
  <1> SUFFICES ASSUME Typed, [Next]_vars PROVE Typed'
    OBVIOUS
  <1> USE SignUpAssumption
  <1>1. CASE UNCHANGED vars
    BY <1>1 DEF vars, Typed
  <1>2. CASE OtpExpired \/ IncorrectExpired
    BY <1>2 DEF OtpExpired, IncorrectExpired, Typed, histories
  <1>5. CASE ProcessEnds
    BY <1>5 DEF ProcessEnds, Typed, Idle
  <1>3. ASSUME NEW q \in Requests, Begins(q) PROVE Typed'
    BY <1>3 DEF Begins, Typed
  <1>4. ASSUME NEW q \in Requests,
               \/ UserCreated(q) \/ FreePlanSubscribed(q) \/ OtpSet(q)
               \/ OtpCompared(q) \/ TriesCounted(q) \/ TriesRaised(q)
               \/ Verified(q) \/ OtpRemoved(q) \/ Abandoned(q)
        PROVE  Typed'
    <2>1. /\ req' \in [Requests -> InFlight \cup {Idle}]
          /\ \A p \in Requests : req'[p].pc = "raise" => req'[p].read < MaxTries
      BY <1>4, OwnStep DEF Typed
    <2>2. account' \in {"none", "unverified", "verified"}
      BY <1>4
      DEF Typed, UserCreated, NewAccount, FreePlanSubscribed, OtpSet,
          OtpCompared, TriesCounted, TriesRaised, Verified, OtpRemoved,
          Abandoned
    <2>3. freePlans' \in Nat
      BY <1>4
      DEF Typed, UserCreated, FreePlanSubscribed, OtpSet, OtpCompared,
          TriesCounted, TriesRaised, Verified, OtpRemoved, Abandoned
    <2>4. otp' \in Otps \cup {NoOtp}
      BY <1>4
      DEF Typed, UserCreated, FreePlanSubscribed, OtpSet, OtpCompared,
          TriesCounted, TriesRaised, Verified, OtpRemoved, Abandoned
    <2>5. incorrect' \in 0..MaxTries
      <3>1. CASE TriesRaised(q)
        <4>1. req[q].read \in 0..MaxTries /\ req[q].read < MaxTries
          BY <3>1, InFlightType DEF TriesRaised, At, Typed
        <4> QED  BY <3>1, <4>1 DEF TriesRaised
      <3>2. CASE ~TriesRaised(q)
        BY <1>4, <3>2
        DEF Typed, UserCreated, FreePlanSubscribed, OtpSet, OtpCompared,
            TriesCounted, Verified, OtpRemoved, Abandoned
      <3> QED  BY <3>1, <3>2
    <2>7. cut' \in BOOLEAN /\ kept' = kept
      BY <1>4
      DEF Typed, UserCreated, FreePlanSubscribed, OtpSet, OtpCompared,
          TriesCounted, TriesRaised, Verified, OtpRemoved, Abandoned, histories
    <2>6. used' \in [Otps -> Nat]
      BY <1>4
      DEF Typed, UserCreated, FreePlanSubscribed, OtpSet, OtpCompared,
          TriesCounted, TriesRaised, Verified, OtpRemoved, Abandoned
    <2> QED  BY <2>1, <2>2, <2>3, <2>4, <2>5, <2>6, <2>7 DEF Typed
  <1> QED  BY <1>1, <1>2, <1>3, <1>4, <1>5, NextKinds

-----------------------------------------------------------------------------
(* Free plans                                                              *)

(* An account is created once, and its creator subscribes it once.         *)
OnePlan ==
    /\ freePlans <= 1
    /\ account = "none" => freePlans = 0
    /\ \A q \in Requests : At(q, "subscribe") =>
          /\ account # "none" /\ freePlans = 0
          /\ \A p \in Requests \ {q} : ~At(p, "subscribe")

LEMMA OnePlanStep == Typed /\ OnePlan /\ [Next]_vars => OnePlan'
  <1> SUFFICES ASSUME Typed, OnePlan, [Next]_vars PROVE OnePlan'
    OBVIOUS
  <1> USE DEF At
  <1>1. CASE UNCHANGED <<account, freePlans, req>>
    BY <1>1 DEF OnePlan
  <1>2. ASSUME NEW q \in Requests, Begins(q) PROVE OnePlan'
    BY <1>2 DEF Begins, OnePlan
  <1>3. ASSUME NEW q \in Requests, UserCreated(q) PROVE OnePlan'
    <2>1. /\ account = "none" /\ account' # "none" /\ freePlans' = freePlans
          /\ \A p \in Requests \ {q} : req'[p] = req[p]
      BY <1>3, OwnStep DEF UserCreated, NewAccount
    <2> QED  BY <2>1 DEF OnePlan
  <1>4. ASSUME NEW q \in Requests, FreePlanSubscribed(q) PROVE OnePlan'
    <2>1. /\ req[q].pc = "subscribe" /\ req'[q].pc # "subscribe"
          /\ \A p \in Requests \ {q} : req'[p] = req[p]
          /\ account' = account /\ freePlans' = freePlans + 1
      BY <1>4, OwnStep DEF FreePlanSubscribed, UserCreated
    <2>2. freePlans' = 1
      BY <2>1 DEF OnePlan
    <2> QED  BY <2>1, <2>2 DEF OnePlan
  <1>5. ASSUME NEW q \in Requests,
               \/ OtpSet(q) \/ OtpCompared(q) \/ TriesCounted(q)
               \/ TriesRaised(q) \/ Verified(q) \/ OtpRemoved(q)
               \/ Abandoned(q)
        PROVE  OnePlan'
    <2>1. /\ req'[q].pc # "subscribe"
          /\ \A p \in Requests \ {q} : req'[p] = req[p]
      <3>1. ~UserCreated(q)
        BY <1>5
        DEF UserCreated, OtpSet, OtpCompared, TriesCounted, TriesRaised,
            Verified, OtpRemoved, Abandoned, NewAccount
      <3> QED  BY <1>5, <3>1, OwnStep
    <2>2. freePlans' = freePlans /\ account' \in {account, "verified"}
      BY <1>5
      DEF OtpSet, OtpCompared, TriesCounted, TriesRaised, Verified,
          OtpRemoved, Abandoned
    <2>3. account' = account \/ Verified(q)
      BY <1>5
      DEF OtpSet, OtpCompared, TriesCounted, TriesRaised, OtpRemoved, Abandoned
    <2> QED  BY <2>1, <2>2, <2>3 DEF OnePlan
  <1>7. CASE ProcessEnds
    BY <1>7 DEF ProcessEnds, OnePlan, Idle
  <1>6. UNCHANGED vars \/ OtpExpired \/ IncorrectExpired
            => UNCHANGED <<account, freePlans, req>>
    BY DEF vars, OtpExpired, IncorrectExpired
  <1> QED  BY <1>1, <1>2, <1>3, <1>4, <1>5, <1>6, <1>7, NextKinds

(* Nobody verifies an address that has no account; and an account has its  *)
(* plan, unless its creator is at it or was cut short.                     *)
Known == \A q \in Requests : req[q].pc \in {"compare", "verify"} => account # "none"

LEMMA KnownStep == Typed /\ Known /\ [Next]_vars => Known'
  <1> SUFFICES ASSUME Typed, Known, [Next]_vars PROVE Known'
    OBVIOUS
  <1>1. account # "none" => account' # "none"
    <2>1. \A q \in Requests : Begins(q) => account' = account
      BY DEF Begins
    <2> QED
      BY <2>1, NextKinds
      DEF vars, OtpExpired, IncorrectExpired, UserCreated, FreePlanSubscribed,
          OtpSet, OtpCompared, TriesCounted, TriesRaised, Verified, OtpRemoved,
          Abandoned, ProcessEnds
  <1>2. CASE UNCHANGED req
    BY <1>1, <1>2 DEF Known
  <1>3. ASSUME NEW q \in Requests, Begins(q) PROVE Known'
    BY <1>1, <1>3 DEF Begins, Known
  <1>4. ASSUME NEW q \in Requests,
               \/ UserCreated(q) \/ FreePlanSubscribed(q) \/ OtpSet(q)
               \/ OtpCompared(q) \/ TriesCounted(q) \/ TriesRaised(q)
               \/ Verified(q) \/ OtpRemoved(q) \/ Abandoned(q)
        PROVE  Known'
    <2>1. /\ \A p \in Requests \ {q} : req'[p] = req[p]
          /\ req'[q].pc = "verify" => req[q].pc = "compare"
      BY <1>4, OwnStep DEF OtpCompared, At
    <2>2. req'[q].pc # "compare"
      <3>1. Goto(q, "compare") => req'[q].pc = "compare"
        BY DEF Goto, Typed
      <3>2. CASE OtpCompared(q)
        <4>1. /\ req[q].pc = "compare"
              /\ Answer(q) \/ Goto(q, "verify") \/ Goto(q, "count")
          BY <3>2 DEF OtpCompared, At
        <4> QED  BY <4>1, GotoShape, AnswerShape DEF Steps
      <3>3. CASE UserCreated(q)
        BY <3>3, GotoShape DEF UserCreated, At, Steps
      <3>4. CASE FreePlanSubscribed(q)
        <4>1. /\ req[q].pc = "subscribe"
              /\ Answer(q) \/ Goto(q, "genOtp")
          BY <3>4 DEF FreePlanSubscribed, AfterAccount, At
        <4> QED  BY <4>1, GotoShape, AnswerShape DEF Steps
      <3>5. CASE OtpSet(q) \/ TriesRaised(q) \/ OtpRemoved(q) \/ Abandoned(q)
        BY <3>5, AnswerShape DEF OtpSet, TriesRaised, OtpRemoved, Abandoned
      <3>6. CASE TriesCounted(q)
        <4>1. req[q] \in InFlight
          BY <3>6, InFlightType DEF TriesCounted, At
        <4> QED  BY <3>6, <4>1, AnswerShape DEF TriesCounted, Typed, InFlight
      <3>7. CASE Verified(q)
        BY <3>7, GotoShape DEF Verified, At, Steps
      <3> QED  BY <1>4, <3>2, <3>3, <3>4, <3>5, <3>6, <3>7
    <2> QED  BY <1>1, <2>1, <2>2 DEF Known
  <1>5. CASE ProcessEnds
    BY <1>5 DEF ProcessEnds, Known, Idle
  <1> QED
    BY <1>2, <1>3, <1>4, <1>5, NextKinds DEF vars, OtpExpired, IncorrectExpired

LEMMA PlanKept ==
    Typed /\ OnePlan /\ Known /\ FreePlanOnce /\ [Next]_vars => FreePlanOnce'
  <1> SUFFICES ASSUME Typed, OnePlan, Known, FreePlanOnce, [Next]_vars
               PROVE  FreePlanOnce'
    OBVIOUS
  <1> USE DEF At
  <1>1. CASE UNCHANGED <<account, freePlans, req, cut>>
    BY <1>1 DEF FreePlanOnce
  <1>2. ASSUME NEW q \in Requests, Begins(q) PROVE FreePlanOnce'
    BY <1>2 DEF Begins, FreePlanOnce
  <1>3. ASSUME NEW q \in Requests, UserCreated(q) PROVE FreePlanOnce'
    <2>1. freePlans' = 0 /\ req'[q].pc = "subscribe"
      BY <1>3, GotoShape DEF UserCreated, OnePlan, Steps
    <2> QED  BY <2>1 DEF FreePlanOnce
  <1>4. ASSUME NEW q \in Requests, FreePlanSubscribed(q) PROVE FreePlanOnce'
    <2>1. freePlans' = 1
      BY <1>4 DEF FreePlanSubscribed, OnePlan
    <2> QED  BY <2>1 DEF FreePlanOnce
  <1>5. ASSUME NEW q \in Requests,
               \/ OtpSet(q) \/ OtpCompared(q) \/ TriesCounted(q)
               \/ TriesRaised(q) \/ Verified(q) \/ OtpRemoved(q)
               \/ Abandoned(q)
        PROVE  FreePlanOnce'
    <2>1. \A p \in Requests \ {q} : req'[p] = req[p]
      BY <1>5, OwnStep
    <2>2. req[q].pc = "subscribe" => cut'
      BY <1>5
      DEF OtpSet, OtpCompared, TriesCounted, TriesRaised, Verified,
          OtpRemoved, Abandoned
    <2>3. /\ freePlans' = freePlans
          /\ account' = account \/ Verified(q)
      BY <1>5
      DEF OtpSet, OtpCompared, TriesCounted, TriesRaised, Verified,
          OtpRemoved, Abandoned
    <2>5. cut => cut'
      <3>1. CASE Abandoned(q)
        BY <3>1 DEF Abandoned
      <3>2. CASE ~Abandoned(q)
        <4>1. UNCHANGED histories
          BY <1>5, <3>2
          DEF OtpSet, OtpCompared, TriesCounted, TriesRaised, Verified,
              OtpRemoved
        <4> QED  BY <4>1 DEF histories
      <3> QED  BY <3>1, <3>2
    <2>4. account' # "none" => account # "none"
      BY <2>3 DEF Known, Verified
    <2> QED  BY <2>1, <2>2, <2>3, <2>4, <2>5 DEF FreePlanOnce
  <1>7. CASE ProcessEnds
    BY <1>7 DEF ProcessEnds, FreePlanOnce
  <1>6. UNCHANGED vars \/ OtpExpired \/ IncorrectExpired
            => UNCHANGED <<account, freePlans, req, cut>>
    BY DEF vars, OtpExpired, IncorrectExpired, histories
  <1> QED  BY <1>1, <1>2, <1>3, <1>4, <1>5, <1>6, <1>7, NextKinds

-----------------------------------------------------------------------------
(* One-time passwords                                                      *)

(* Removing(o) have password o accepted and have yet to remove it; these   *)
(* will have it accepted next.                                             *)
Verifying(o) == {q \in Requests : At(q, "verify") /\ req[q].given = o}

(* While a password is in the cache and no removal of it was lost, nobody  *)
(* who has had it accepted is done; once it is gone, only those who have   *)
(* compared it already may have it accepted.                               *)
Counted(o) ==
    IF otp = o THEN used[o] <= Cardinality(Removing(o))
    ELSE used[o] + Cardinality(Verifying(o)) <= Cardinality(Requests)

UsesCounted == \A o \in Otps \ kept : Counted(o)

LEMMA RequestsCounted ==
    /\ Cardinality(Requests) \in Nat
    /\ \A o : /\ IsFiniteSet(Removing(o)) /\ Cardinality(Removing(o)) \in Nat
              /\ IsFiniteSet(Verifying(o)) /\ Cardinality(Verifying(o)) \in Nat
              /\ Cardinality(Removing(o)) + Cardinality(Verifying(o))
                     <= Cardinality(Requests)
  <1>1. \A T \in SUBSET Requests : /\ IsFiniteSet(T)
                                   /\ Cardinality(T) \in Nat
                                   /\ Cardinality(T) <= Cardinality(Requests)
    BY SignUpAssumption, FS_Subset, FS_CardinalityType
  <1>2. ASSUME NEW o
        PROVE  Cardinality(Removing(o)) + Cardinality(Verifying(o))
                   <= Cardinality(Requests)
    <2>1. /\ Removing(o) \in SUBSET Requests /\ Verifying(o) \in SUBSET Requests
          /\ Removing(o) \cup Verifying(o) \in SUBSET Requests
          /\ Removing(o) \cap Verifying(o) = {}
      BY DEF Removing, Verifying, At
    <2>2. Cardinality(Removing(o) \cup Verifying(o))
              = Cardinality(Removing(o)) + Cardinality(Verifying(o))
                - Cardinality(Removing(o) \cap Verifying(o))
      BY <1>1, <2>1, FS_Union
    <2>3. Cardinality(Removing(o) \cap Verifying(o)) = 0
      BY <2>1, FS_EmptySet
    <2>4. /\ Cardinality(Removing(o) \cup Verifying(o)) <= Cardinality(Requests)
          /\ Cardinality(Removing(o)) \in Nat /\ Cardinality(Verifying(o)) \in Nat
      BY <1>1, <2>1
    <2> QED  BY <2>2, <2>3, <2>4
  <1>3. \A o : Removing(o) \in SUBSET Requests /\ Verifying(o) \in SUBSET Requests
    BY DEF Removing, Verifying
  <1> QED  BY <1>1, <1>2, <1>3, SignUpAssumption, FS_CardinalityType

(* What becomes of the count of a password that is not in the cache after  *)
(* a step, that stays in it, and that is accepted.                         *)
LEMMA CountedGone ==
    ASSUME Typed, NEW o \in Otps, Counted(o), otp' # o, used'[o] = used[o],
           Verifying(o)' \subseteq Verifying(o)
    PROVE  Counted(o)'
  <1>1. used[o] \in Nat
    BY DEF Typed
  <1>2. Cardinality(Verifying(o)') <= Cardinality(Verifying(o))
        /\ Cardinality(Verifying(o)') \in Nat
    BY RequestsCounted, FS_Subset, FS_CardinalityType
  <1>3. used[o] + Cardinality(Verifying(o)) <= Cardinality(Requests)
    <2>1. CASE otp = o
      BY <1>1, <2>1, RequestsCounted DEF Counted
    <2>2. CASE otp # o
      BY <2>2 DEF Counted
    <2> QED  BY <2>1, <2>2
  <1>4. Cardinality(Verifying(o)) \in Nat /\ Cardinality(Requests) \in Nat
    BY RequestsCounted
  <1> QED  BY <1>1, <1>2, <1>3, <1>4 DEF Counted

LEMMA CountedStays ==
    ASSUME NEW o \in Otps, Counted(o), otp' = otp, otp = o, used'[o] = used[o],
           Removing(o)' = Removing(o)
    PROVE  Counted(o)'
  BY DEF Counted

LEMMA CountedAccepted ==
    ASSUME Typed, NEW q \in Requests, Verified(q), NEW o \in Otps,
           Counted(o), req[q].given = o
    PROVE  Counted(o)'
  <1>1. /\ req[q].pc = "verify" /\ req'[q].pc = "remove" /\ req'[q].given = o
        /\ \A p \in Requests \ {q} : req'[p] = req[p]
        /\ used'[o] <= used[o] + 1 /\ used'[o] \in Nat
        /\ otp' = otp /\ used[o] \in Nat
    <2>1. /\ req[q].pc = "verify" /\ otp' = otp /\ Goto(q, "remove")
          /\ used'[o] = IF used[o] < MaxUses THEN used[o] + 1 ELSE used[o]
          /\ used[o] \in Nat
      BY DEF Verified, At, Typed
    <2> QED  BY <2>1, GotoShape DEF Steps
  <1>2. /\ Removing(o)' = Removing(o) \cup {q} /\ q \notin Removing(o)
        /\ Verifying(o)' = Verifying(o) \ {q} /\ q \in Verifying(o)
    BY <1>1 DEF Removing, Verifying, At
  <1>3. /\ Cardinality(Removing(o)') = Cardinality(Removing(o)) + 1
        /\ Cardinality(Verifying(o)') = Cardinality(Verifying(o)) - 1
    <2>1. Cardinality(Removing(o) \cup {q}) = Cardinality(Removing(o)) + 1
      BY <1>2, RequestsCounted, FS_AddElement
    <2>2. Cardinality(Verifying(o) \ {q}) = Cardinality(Verifying(o)) - 1
      BY <1>2, RequestsCounted, FS_RemoveElement
    <2> QED  BY <1>2, <2>1, <2>2
  <1>4. CASE otp = o
    <2>1. used[o] <= Cardinality(Removing(o))
      BY <1>4 DEF Counted
    <2> QED  BY <1>1, <1>3, <1>4, <2>1, RequestsCounted DEF Counted
  <1>5. CASE otp # o
    <2>1. used[o] + Cardinality(Verifying(o)) <= Cardinality(Requests)
      BY <1>5 DEF Counted
    <2>2. used'[o] + Cardinality(Verifying(o)') <= Cardinality(Requests)
      BY <1>1, <1>3, <2>1, RequestsCounted
    <2> QED  BY <1>1, <1>5, <2>2 DEF Counted
  <1> QED  BY <1>4, <1>5

LEMMA UsesStep == Typed /\ UsesCounted /\ [Next]_vars => UsesCounted'
  <1> SUFFICES ASSUME Typed, UsesCounted, [Next]_vars, NEW o \in Otps,
                      o \notin kept'
               PROVE  Counted(o)'
    BY DEF UsesCounted
  <1>0. Counted(o)
    <2>1. kept \subseteq kept'
      <3>1. \A q \in Requests : Begins(q) => kept' = kept
        BY DEF Begins
      <3> QED
        BY <3>1, NextKinds
        DEF vars, OtpExpired, IncorrectExpired, UserCreated, OtpSet,
            FreePlanSubscribed, OtpCompared, TriesCounted, TriesRaised,
            Verified, OtpRemoved, Abandoned, ProcessEnds, histories
    <2> QED  BY <2>1 DEF UsesCounted
  <1> USE DEF At
  <1>1. CASE UNCHANGED vars
    <2>1. Removing(o)' = Removing(o) /\ Verifying(o)' = Verifying(o)
      BY <1>1 DEF Removing, Verifying, vars
    <2> QED  BY <1>0, <1>1, <2>1 DEF Counted, vars
  <1>2. CASE OtpExpired \/ IncorrectExpired
    <2>1. /\ Removing(o)' = Removing(o) /\ Verifying(o)' = Verifying(o)
          /\ used' = used /\ otp' \in {otp, NoOtp}
      BY <1>2 DEF OtpExpired, IncorrectExpired, Removing, Verifying
    <2>2. NoOtp # o
      BY SignUpAssumption
    <2> QED  BY <1>0, <2>1, <2>2, CountedGone, CountedStays
  <1>3. ASSUME NEW q \in Requests, Begins(q) PROVE Counted(o)'
    <2>1. Removing(o)' = Removing(o) /\ Verifying(o)' = Verifying(o)
      BY <1>3 DEF Begins, Removing, Verifying
    <2> QED  BY <1>0, <1>3, <2>1, CountedGone, CountedStays DEF Begins
  <1>4. ASSUME NEW q \in Requests, OtpSet(q) PROVE Counted(o)'
    <2>1. /\ req[q].pc = "genOtp" /\ req'[q].pc = "idle"
          /\ \A p \in Requests \ {q} : req'[p] = req[p]
          /\ used' = used
      BY <1>4, AnswerShape DEF OtpSet
    <2>2. Removing(o)' = Removing(o) /\ Verifying(o)' = Verifying(o)
      BY <2>1 DEF Removing, Verifying
    <2>3. CASE otp' = o
      <3>1. /\ used[o] = 0
            /\ \A p \in Requests : req[p] # Idle => req[p].given # o
        BY <1>4, <2>3 DEF OtpSet
      <3>2. Removing(o) = {}
        BY <3>1 DEF Removing, Idle
      <3>3. Cardinality(Removing(o)') = 0
        BY <2>2, <3>2, FS_EmptySet
      <3> QED  BY <2>1, <2>3, <3>1, <3>3 DEF Counted
    <2>4. CASE otp' # o
      BY <1>0, <2>1, <2>2, <2>4, CountedGone
    <2> QED  BY <2>3, <2>4
  <1>5. ASSUME NEW q \in Requests, OtpCompared(q) PROVE Counted(o)'
    <2>1. /\ req[q].pc = "compare" /\ req'[q].pc # "remove"
          /\ \A p \in Requests \ {q} : req'[p] = req[p]
          /\ req'[q].pc = "verify" =>
                otp = req[q].given /\ req'[q].given = req[q].given
          /\ UNCHANGED <<otp, used>>
      BY <1>5, OwnStep DEF OtpCompared, Verified
    <2>2. Removing(o)' = Removing(o)
      BY <2>1 DEF Removing
    <2>3. otp # o => Verifying(o)' = Verifying(o)
      BY <2>1 DEF Verifying
    <2> QED  BY <1>0, <2>1, <2>2, <2>3, CountedGone, CountedStays
  <1>6. ASSUME NEW q \in Requests, Verified(q) PROVE Counted(o)'
    <2>1. CASE req[q].given = o
      BY <1>0, <1>6, <2>1, CountedAccepted
    <2>2. CASE req[q].given # o
      <3>1. /\ req[q].pc = "verify" /\ req'[q].given # o
            /\ \A p \in Requests \ {q} : req'[p] = req[p]
            /\ used'[o] = used[o] /\ otp' = otp
        BY <1>6, <2>2, GotoShape DEF Verified, Steps, Typed
      <3>2. Removing(o)' = Removing(o) /\ Verifying(o)' = Verifying(o)
        BY <2>2, <3>1 DEF Removing, Verifying
      <3> QED  BY <1>0, <3>1, <3>2, CountedGone, CountedStays
    <2> QED  BY <2>1, <2>2
  <1>7. ASSUME NEW q \in Requests, OtpRemoved(q) PROVE Counted(o)'
    <2>1. /\ req[q].pc = "remove" /\ req'[q].pc = "idle"
          /\ \A p \in Requests \ {q} : req'[p] = req[p]
          /\ used' = used /\ otp' = NoOtp
      BY <1>7, AnswerShape DEF OtpRemoved
    <2>2. Verifying(o)' = Verifying(o) /\ otp' # o
      BY <2>1, SignUpAssumption DEF Verifying
    <2> QED  BY <1>0, <2>1, <2>2, CountedGone
  <1>8. ASSUME NEW q \in Requests,
               \/ UserCreated(q) \/ FreePlanSubscribed(q) \/ TriesCounted(q)
               \/ TriesRaised(q) \/ Abandoned(q)
        PROVE  Counted(o)'
    <2>1. /\ req[q].pc # "remove" /\ UNCHANGED <<otp, used>>
      BY <1>8
      DEF UserCreated, FreePlanSubscribed, TriesCounted, TriesRaised, Abandoned
    <2>3. /\ req'[q].pc \notin {"verify", "remove"}
          /\ \A p \in Requests \ {q} : req'[p] = req[p]
      <3>1. CASE Abandoned(q)
        BY <3>1, AnswerShape DEF Abandoned
      <3>2. CASE ~Abandoned(q)
        <4>1. ~OtpCompared(q) /\ ~Verified(q)
          BY <1>8, <3>2
          DEF UserCreated, FreePlanSubscribed, TriesCounted, TriesRaised,
              OtpCompared, Verified
        <4> QED  BY <1>8, <4>1, OwnStep
      <3> QED  BY <3>1, <3>2
    <2>4. Removing(o)' = Removing(o) /\ Verifying(o)' \subseteq Verifying(o)
      BY <2>1, <2>3 DEF Removing, Verifying
    <2> QED  BY <1>0, <2>1, <2>4, CountedGone, CountedStays
  <1>9. CASE ProcessEnds
    <2>1. /\ \A q \in Requests : req'[q].pc = "idle"
          /\ otp' = otp /\ used' = used
      BY <1>9 DEF ProcessEnds, Idle
    <2>2. Removing(o)' = {} /\ Verifying(o)' = {}
      BY <2>1 DEF Removing, Verifying
    <2>3. CASE otp = o
      <3>1. Removing(o) = {}
        BY <1>9, <2>3 DEF ProcessEnds
      <3> QED  BY <1>0, <2>1, <2>2, <2>3, <3>1 DEF Counted
    <2>4. CASE otp # o
      BY <1>0, <2>1, <2>2, <2>4, CountedGone
    <2> QED  BY <2>3, <2>4
  <1> QED
    BY <1>1, <1>2, <1>3, <1>4, <1>5, <1>6, <1>7, <1>8, <1>9, NextKinds

-----------------------------------------------------------------------------
(* The inductive invariant                                                 *)

IInv == Typed /\ OnePlan /\ Known /\ UsesCounted

LEMMA InvInit == Init => IInv
  <1> SUFFICES ASSUME Init PROVE IInv
    OBVIOUS
  <1>1. Typed
    <2>1. cut \in BOOLEAN /\ kept \subseteq Otps
      BY DEF Init
    <2> QED  BY <2>1, SignUpAssumption DEF Init, Typed, Idle
  <1>2. OnePlan /\ Known
    BY DEF Init, OnePlan, Known, At, Idle
  <1>3. ASSUME NEW o \in Otps PROVE Counted(o)
    <2>1. Verifying(o) = {}
      BY DEF Init, Verifying, At, Idle
    <2>2. Cardinality(Verifying(o)) = 0
      BY <2>1, FS_EmptySet
    <2>3. used[o] = 0 /\ otp # o
      BY SignUpAssumption DEF Init
    <2> QED  BY <2>2, <2>3, RequestsCounted DEF Counted
  <1> QED  BY <1>1, <1>2, <1>3 DEF IInv, UsesCounted

LEMMA InvStep == IInv /\ [Next]_vars => IInv'
  BY TypeStep, OnePlanStep, KnownStep, UsesStep DEF IInv

(* The account has at most one free plan and nobody verifies an address    *)
(* without one, and the uses of a password are those of requests that had  *)
(* compared it while it was in the cache.                                  *)
THEOREM Invariance == Spec => []IInv
  BY InvInit, InvStep, PTL DEF Spec

-----------------------------------------------------------------------------
(* Whatever fails, no address gets two free plans (the index on email,     *)
(* auth/service.ts 34-46).                                                 *)
AtMostOneFreePlan == freePlans <= 1 /\ (account = "none" => freePlans = 0)

THEOREM NoSecondFreePlan == Spec => []AtMostOneFreePlan
  <1>1. IInv => AtMostOneFreePlan
    BY DEF IInv, OnePlan, AtMostOneFreePlan
  <1> QED  BY <1>1, Invariance, PTL

(* Every account has its free plan, unless the login that created it is    *)
(* about to subscribe it or was cut short (auth/service.ts 34-46).         *)
THEOREM FreePlan == Spec => []FreePlanOnce
  <1>1. Init => FreePlanOnce
    BY DEF Init, FreePlanOnce
  <1>2. IInv /\ FreePlanOnce /\ [Next]_vars => FreePlanOnce'
    BY PlanKept DEF IInv
  <1> QED  BY <1>1, <1>2, Invariance, PTL DEF Spec

(* However verifications race and whatever fails, a password none of whose *)
(* removals was lost is accepted no more often than requests are in flight *)
(* at once (auth/service.ts 105-118).                                      *)
THEOREM FewAcceptances == Spec => []AcceptedAtMostInFlight
  <1>1. IInv => AcceptedAtMostInFlight
    <2> SUFFICES ASSUME IInv, NEW o \in Otps \ kept
                 PROVE  used[o] <= Cardinality(Requests)
      BY DEF AcceptedAtMostInFlight
    <2>1. Counted(o) /\ used[o] \in Nat
      BY DEF IInv, UsesCounted, Typed
    <2> QED  BY <2>1, RequestsCounted DEF Counted
  <1> QED  BY <1>1, Invariance, PTL

(* Every variable of SignUp keeps its type; the counter of free plans      *)
(* needs the first result above, and that a request is in flight while     *)
(* anything is counted.                                                    *)
THEOREM TypeCorrect == Spec => []TypeOK
  <1> DEFINE Served == freePlans # 0 => Requests # {}
             Bounded == \A o \in Otps : used[o] <= MaxUses
  <1>1. Init => Served /\ Bounded
    BY RequestsCounted DEF Init, MaxUses
  <1>2. Served /\ [Next]_vars => Served'
    BY DEF Next, vars, OtpExpired, IncorrectExpired, ProcessEnds
  <1>3. ASSUME IInv, Bounded, [Next]_vars PROVE Bounded'
    <2>1. MaxUses \in Nat /\ MaxUses' = MaxUses
      BY RequestsCounted DEF MaxUses
    <2>2. used \in [Otps -> Nat]
      BY <1>3 DEF IInv, Typed
    <2>3. ASSUME NEW q \in Requests, Verified(q) PROVE Bounded'
      BY <1>3, <2>1, <2>2, <2>3 DEF Verified
    <2>4. used' = used \/ \E q \in Requests : Verified(q)
      <3>1. \A q \in Requests : Begins(q) => used' = used
        BY DEF Begins
      <3> QED
        BY <1>3, <3>1, NextKinds
        DEF IInv, vars, OtpExpired, IncorrectExpired, UserCreated, OtpSet,
            FreePlanSubscribed, OtpCompared, TriesCounted, TriesRaised,
            OtpRemoved, Abandoned, ProcessEnds, histories
    <2> QED  BY <1>3, <2>1, <2>3, <2>4
  <1>4. IInv /\ Served /\ Bounded => TypeOK
    <2> SUFFICES ASSUME IInv, Served, Bounded PROVE TypeOK
      OBVIOUS
    <2>1. Cardinality(Requests) \in Nat /\ MaxUses \in Nat
      BY RequestsCounted DEF MaxUses
    <2>2. Requests # {} => Cardinality(Requests) # 0
      BY SignUpAssumption, FS_EmptySet
    <2>3. freePlans \in 0..Cardinality(Requests)
      BY <2>1, <2>2 DEF IInv, Typed, OnePlan
    <2>4. used \in [Otps -> 0..MaxUses]
      BY <2>1 DEF IInv, Typed
    <2> QED  BY <2>3, <2>4 DEF IInv, Typed, TypeOK
  <1> QED  BY <1>1, <1>2, <1>3, <1>4, Invariance, PTL DEF Spec

-----------------------------------------------------------------------------
(* The way into a room                                                     *)

(* What a request that waits has, and one that has been answered.          *)
LEMMA VisitType ==
    ASSUME AdmissionTypeOK, NEW q \in Visits
    PROVE  /\ visit[q].pc \notin {"none", "answered"} =>
                /\ visit[q] \in VisitRecords
                /\ visit[q].by \in Visitors /\ visit[q].op \in Operations
                /\ visit[q].with \in Links /\ visit[q].barred \in BOOLEAN
           /\ visit[q].pc = "answered" => visit[q] \in VisitRecords
  BY DEF AdmissionTypeOK, VisitRecords, NoVisit

Stages == {"auth", "guard", "room", "link", "member", "push", "plan", "invitee",
           "make", "mail", "chat", "handler", "named", "inChat", "write"}

(* What the steps of a request that is under way do to the requests and to *)
(* what stands between them and the room.                                  *)
Handles(q) ==
    \/ CanActivate(q) \/ RoomGuard(q) \/ RoomFound(q) \/ JoinTokenChecked(q)
    \/ UserInRoomChecked(q) \/ MemberJoined(q)
    \/ InviterPlanFound(q) \/ InviteeChecked(q)
    \/ JoinLinkMade(q) \/ JoinLinkSent(q)
    \/ ChatGuard(q) \/ ChatFound(q) \/ MemberNamed(q) \/ MemberSought(q)
    \/ ChatMembersWritten(q) \/ CallFails(q)

(* What an answer says, of whoever it is told.                             *)
Tells(u, op, status, about) ==
    /\ status = 401 => u \notin session
    /\ status = 404 /\ about = "room" => ~door.exists
    /\ status = 404 /\ about = "chat" => ~chat
    /\ status = 500 /\ about = "none" =>
          op = "invite" \/ ~(door.exists /\ chat)

(* The request is answered, and truly unless a call failed.                *)
RepliesTruly(q) ==
    /\ visit'[q].pc = "answered"
    /\ visit'[q].by = visit[q].by
    /\ visit'[q].op = visit[q].op
    /\ ~visit'[q].failed =>
          Tells(visit[q].by, visit[q].op, visit'[q].status, visit'[q].about)

(* A request that goes on keeps its operation; and who comes to the step   *)
(* that makes a member was shown an open door or had a link.               *)
Proceeds(q) ==
    /\ visit'[q].op = visit[q].op
    /\ \/ /\ visit[q].pc = "room" /\ visit'[q].pc = AfterRoom(visit[q].op)
          /\ visit[q].op = "join" /\ door.private => visit'[q].barred
       \/ /\ visit[q].pc = "link" /\ visit'[q].pc = "member"
          /\ link[visit[q].with] = "live"
       \/ /\ visit[q].pc = "member" /\ visit'[q].pc = "push"
          /\ ~visit[q].barred /\ visit[q].op # "view"
       \/ visit'[q].pc \in {"guard", "room", "invitee", "make", "mail", "chat",
                            "handler", "named", "inChat", "write"}

(* Only an invitation asks for the plan.                                   *)
Planned == \A q \in Visits : visit[q].pc = "plan" => visit[q].op = "invite"

(* A step of a request that is under way answers it truly or takes it on,  *)
(* and leaves the other requests, the sessions, the room and its chat      *)
(* alone.                                                                  *)
LEMMA HandlesShape ==
    ASSUME AdmissionTypeOK, Planned, NEW q \in Visits, Handles(q)
    PROVE  /\ visit[q].pc \notin {"none", "answered"}
           /\ visit' \in [Visits -> VisitRecords \cup {NoVisit}]
           /\ \A p \in Visits \ {q} : visit'[p] = visit[p]
           /\ UNCHANGED <<session, door, opened, chat>>
           /\ RepliesTruly(q) \/ Proceeds(q)
  <1>1. visit[q].pc \notin {"none", "answered"}
    BY DEF Handles, CanActivate, RoomGuard, RoomFound, JoinTokenChecked,
       UserInRoomChecked, MemberJoined, InviterPlanFound, InviteeChecked,
       JoinLinkMade, JoinLinkSent, ChatGuard, ChatFound, MemberNamed,
       MemberSought, ChatMembersWritten, CallFails, Waits
  <1>2. UNCHANGED <<session, door, opened, chat>>
    BY DEF Handles, CanActivate, RoomGuard, RoomFound, JoinTokenChecked,
       UserInRoomChecked, MemberJoined, InviterPlanFound, InviteeChecked,
       JoinLinkMade, JoinLinkSent, ChatGuard, ChatFound, MemberNamed,
       MemberSought, ChatMembersWritten, CallFails, Rest
  <1> DEFINE Alike == /\ visit' \in [Visits -> VisitRecords \cup {NoVisit}]
                      /\ \A p \in Visits \ {q} : visit'[p] = visit[p]
  <1>3. /\ visit[q].by \in Visitors /\ visit[q].op \in Operations
        /\ visit[q].with \in Links /\ visit[q].barred \in BOOLEAN
        /\ visit[q] \in VisitRecords
        /\ visit \in [Visits -> VisitRecords \cup {NoVisit}]
        /\ visit[q].pc \in Stages
    BY <1>1, VisitType DEF AdmissionTypeOK, VisitRecords, Stages
  <1>4. ASSUME NEW status \in {200, 400, 401, 403, 404, 500},
               NEW about \in {"none", "room", "chat", "user"},
               Respond(q, status, about, FALSE),
               Tells(visit[q].by, visit[q].op, status, about)
        PROVE  Alike /\ RepliesTruly(q)
    <2>1. /\ visit'[q].pc = "answered" /\ visit'[q].by = visit[q].by
          /\ visit'[q].op = visit[q].op
          /\ visit'[q].status = status /\ visit'[q].about = about /\ Alike
      BY <1>3, <1>4 DEF Respond, VisitRecords
    <2> QED  BY <1>4, <2>1 DEF RepliesTruly
  <1>0. ASSUME NEW status \in {200, 400, 401, 403, 404, 500},
               Fail(q, status)
        PROVE  Alike /\ RepliesTruly(q)
    <2>1. /\ visit'[q].pc = "answered" /\ visit'[q].by = visit[q].by
          /\ visit'[q].op = visit[q].op
          /\ visit'[q].failed = TRUE /\ Alike
      BY <1>0, <1>3 DEF Fail, Respond, VisitRecords
    <2> QED  BY <2>1 DEF RepliesTruly
  <1>5. ASSUME NEW pc \in Stages, GoesTo(q, pc)
        PROVE  visit'[q].pc = pc /\ visit'[q].op = visit[q].op /\ Alike
    BY <1>3, <1>5 DEF GoesTo, VisitRecords, Stages
  <1> HIDE DEF Alike
  <1> SUFFICES Alike /\ (RepliesTruly(q) \/ Proceeds(q))
    BY <1>1, <1>2 DEF Alike
  <1>11. ASSUME NEW status \in {200, 400, 403}, Reply(q, status)
         PROVE  Alike /\ RepliesTruly(q)
    <2>1. Tells(visit[q].by, visit[q].op, status, "none")
      BY DEF Tells
    <2>2. status \in {200, 400, 401, 403, 404, 500}
      BY <1>11
    <2>3. Respond(q, status, "none", FALSE)
      BY <1>11 DEF Reply
    <2> QED  BY <1>4, <2>1, <2>2, <2>3
  <1>19. ASSUME Reply(q, 500), visit[q].op = "invite" \/ ~(door.exists /\ chat)
         PROVE  Alike /\ RepliesTruly(q)
    <2>1. Tells(visit[q].by, visit[q].op, 500, "none")
      BY <1>19 DEF Tells
    <2> QED  BY <1>4, <1>19, <2>1 DEF Reply
  <1>20. ASSUME \/ ReplyAbout(q, 404, "room") /\ ~door.exists
                \/ ReplyAbout(q, 404, "chat") /\ ~chat
                \/ ReplyAbout(q, 404, "user")
                \/ ReplyAbout(q, 500, "user")
         PROVE  Alike /\ RepliesTruly(q)
    <2>1. CASE ReplyAbout(q, 404, "room") /\ ~door.exists
      <3>1. Tells(visit[q].by, visit[q].op, 404, "room")
        BY <2>1 DEF Tells
      <3>2. Respond(q, 404, "room", FALSE)
        BY <2>1 DEF ReplyAbout
      <3> QED  BY <1>4, <3>1, <3>2
    <2>2. CASE ReplyAbout(q, 404, "chat") /\ ~chat
      <3>1. Tells(visit[q].by, visit[q].op, 404, "chat")
        BY <2>2 DEF Tells
      <3>2. Respond(q, 404, "chat", FALSE)
        BY <2>2 DEF ReplyAbout
      <3> QED  BY <1>4, <3>1, <3>2
    <2>3. CASE ReplyAbout(q, 404, "user")
      <3>1. Tells(visit[q].by, visit[q].op, 404, "user")
        BY <2>3 DEF Tells
      <3>2. Respond(q, 404, "user", FALSE)
        BY <2>3 DEF ReplyAbout
      <3> QED  BY <1>4, <3>1, <3>2
    <2>4. CASE ReplyAbout(q, 500, "user")
      <3>1. Tells(visit[q].by, visit[q].op, 500, "user")
        BY <2>4 DEF Tells
      <3>2. Respond(q, 500, "user", FALSE)
        BY <2>4 DEF ReplyAbout
      <3> QED  BY <1>4, <3>1, <3>2
    <2> QED  BY <1>20, <2>1, <2>2, <2>3, <2>4
  <1>21. ASSUME NEW pc \in {"guard", "room", "invitee", "make", "mail", "chat",
                            "handler", "named", "inChat", "write"},
                GoesTo(q, pc)
         PROVE  Alike /\ Proceeds(q)
    <2>1. visit'[q].pc = pc /\ visit'[q].op = visit[q].op /\ Alike
      BY <1>5, <1>21 DEF Stages
    <2> QED  BY <2>1 DEF Proceeds
  <1>6. CASE CanActivate(q)
    <2>1. CASE visit[q].by \notin session
      <3>1. Reply(q, 401)
        BY <1>6, <2>1 DEF CanActivate
      <3>2. Tells(visit[q].by, visit[q].op, 401, "none")
        BY <2>1 DEF Tells
      <3> QED  BY <1>4, <3>1, <3>2 DEF Reply
    <2>2. CASE visit[q].by \in session
      BY <1>6, <1>21, <2>2 DEF CanActivate
    <2> QED  BY <2>1, <2>2
  <1>7. CASE RoomGuard(q)
    <2>1. CASE ~door.exists
      BY <1>7, <1>20, <2>1 DEF RoomGuard
    <2>2. CASE door.exists
      BY <1>7, <1>21, <2>2 DEF RoomGuard
    <2> QED  BY <2>1, <2>2
  <1>8. CASE RoomFound(q)
    <2>1. CASE RoomStatus(q) # 200
      <3>1. CASE RoomStatus(q) = 404
        <4>1. ~door.exists
          BY <3>1 DEF RoomStatus
        <4> QED  BY <1>8, <1>20, <3>1, <4>1 DEF RoomFound
      <3>2. CASE RoomStatus(q) # 404
        <4>1. RoomStatus(q) = 403
          BY <2>1, <3>2 DEF RoomStatus
        <4>2. Reply(q, 403)
          BY <1>8, <4>1 DEF RoomFound
        <4> QED  BY <1>11, <4>2
      <3> QED  BY <3>1, <3>2
    <2>2. CASE RoomStatus(q) = 200
      <3>1. AfterRoom(visit[q].op) \in {"link", "member", "plan", "make"}
        BY DEF AfterRoom
      <3>2. /\ visit[q].pc = "room"
            /\ visit' = [visit EXCEPT
                   ![q].pc = AfterRoom(visit[q].op),
                   ![q].barred = Barred(visit[q].op)]
        BY <1>8, <2>2 DEF RoomFound, Waits
      <3> DEFINE to == AfterRoom(visit[q].op)
      <3>3. PICK s \in BOOLEAN : s = Barred(visit[q].op)
        BY DEF Barred
      <3>4. visit[q].op = "join" /\ door.private => s
        BY <3>3 DEF Barred
      <3>5. visit' = [visit EXCEPT ![q].pc = to, ![q].barred = s]
        BY <3>2, <3>3
      <3>6. /\ to \in {"link", "member", "plan", "make"}
            /\ to = AfterRoom(visit[q].op)
        BY <3>1
      <3> HIDE DEF to
      <3>7. /\ visit'[q].pc = to /\ visit'[q].op = visit[q].op
            /\ visit'[q].barred = s /\ Alike
        <4>1. visit'[q] = [visit[q] EXCEPT !.pc = to, !.barred = s]
          BY <1>3, <3>5
        <4>2. /\ visit[q] \in [pc : Stages, op : Operations, by : Visitors,
                               with : Links, barred : BOOLEAN]
          BY <1>1, <1>3 DEF VisitRecords
        <4>3. /\ visit'[q].pc = to /\ visit'[q].op = visit[q].op
              /\ visit'[q].barred = s
          BY <4>1, <4>2
        <4>4. visit'[q] \in VisitRecords
          <5>1. visit'[q] = [pc |-> to, op |-> visit[q].op, by |-> visit[q].by,
                             with |-> visit[q].with, barred |-> s]
            BY <4>1, <4>2
          <5> QED  BY <1>3, <5>1, <3>6 DEF VisitRecords, Stages
        <4>5. Alike
          <5>1. visit' = [p \in Visits |-> IF p = q THEN visit'[q] ELSE visit[p]]
            BY <1>3, <3>5
          <5> QED  BY <1>3, <4>4, <5>1 DEF Alike
        <4> QED  BY <4>3, <4>5
      <3> QED  BY <3>2, <3>4, <3>6, <3>7 DEF Proceeds
    <2> QED  BY <2>1, <2>2
  <1>9. CASE JoinTokenChecked(q)
    <2>1. CASE link[visit[q].with] = "live"
      <3>1. GoesTo(q, "member") /\ visit[q].pc = "link"
        BY <1>9, <2>1 DEF JoinTokenChecked, Waits
      <3>2. visit'[q].pc = "member" /\ visit'[q].op = visit[q].op /\ Alike
        BY <1>5, <3>1 DEF Stages
      <3> QED  BY <2>1, <3>1, <3>2 DEF Proceeds
    <2>2. CASE link[visit[q].with] # "live"
      BY <1>9, <1>11, <2>2 DEF JoinTokenChecked
    <2> QED  BY <2>1, <2>2
  <1>10. CASE UserInRoomChecked(q)
    <2>1. CASE ~Insider(q) /\ ~visit[q].barred /\ visit[q].op # "view"
      <3>1. GoesTo(q, "push") /\ visit[q].pc = "member"
        BY <1>10, <2>1 DEF UserInRoomChecked, Waits
      <3>2. visit'[q].pc = "push" /\ visit'[q].op = visit[q].op /\ Alike
        BY <1>5, <3>1 DEF Stages
      <3> QED  BY <2>1, <3>1, <3>2 DEF Proceeds
    <2>2. CASE ~(~Insider(q) /\ ~visit[q].barred /\ visit[q].op # "view")
      <3>1. Verdict(q) \in {200, 400, 403}
        BY DEF Verdict
      <3>2. Reply(q, Verdict(q))
        BY <1>10, <2>2 DEF UserInRoomChecked
      <3> QED  BY <1>11, <3>1, <3>2
    <2> QED  BY <2>1, <2>2
  <1>12. CASE MemberJoined(q)
    <2>1. CASE door.exists
      BY <1>0, <1>11, <1>12, <2>1 DEF MemberJoined
    <2>2. CASE ~door.exists
      BY <1>12, <1>19, <2>2 DEF MemberJoined
    <2> QED  BY <2>1, <2>2
  <1>22. CASE InviterPlanFound(q)
    <2>1. visit[q].op = "invite"
      BY <1>22 DEF InviterPlanFound, Waits, Planned
    <2> QED  BY <1>11, <1>19, <1>21, <1>22, <2>1 DEF InviterPlanFound
  <1>13. CASE InviteeChecked(q)
    BY <1>11, <1>13, <1>21 DEF InviteeChecked
  <1>14. CASE JoinLinkMade(q)
    BY <1>11, <1>14, <1>21 DEF JoinLinkMade
  <1>15. CASE JoinLinkSent(q)
    BY <1>11, <1>15 DEF JoinLinkSent
  <1>16. CASE ChatGuard(q)
    BY <1>16, <1>20, <1>21 DEF ChatGuard
  <1>17. CASE ChatFound(q)
    BY <1>11, <1>17, <1>19, <1>21 DEF ChatFound
  <1>23. CASE MemberNamed(q)
    BY <1>20, <1>21, <1>23 DEF MemberNamed
  <1>24. CASE MemberSought(q)
    BY <1>20, <1>21, <1>24 DEF MemberSought
  <1>25. CASE ChatMembersWritten(q)
    BY <1>11, <1>19, <1>25 DEF ChatMembersWritten
  <1>18. CASE CallFails(q)
    <2>1. FailureStatus(q) \in {401, 404, 500}
      BY DEF FailureStatus
    <2> QED  BY <1>0, <1>18, <2>1 DEF CallFails
  <1> QED
    BY <1>6, <1>7, <1>8, <1>9, <1>10, <1>12, <1>13, <1>14, <1>15, <1>16,
       <1>17, <1>18, <1>22, <1>23, <1>24, <1>25 DEF Handles

(* Links are made and expire, and members come only from the last step of  *)
(* a request to join.                                                      *)
LEMMA HandlesLinksAndMembers ==
    ASSUME AdmissionTypeOK, NEW q \in Visits, Handles(q)
    PROVE  /\ link' \in [Links -> {"none", "live", "gone"}]
           /\ \A l \in Links : link[l] # "none" => link'[l] # "none"
           /\ members' \subseteq Visitors
           /\ members' \subseteq members \/ (visit[q].pc = "push" /\ door.exists)
  <1>1. CASE MemberJoined(q)
    <2>1. visit[q].by \in Visitors
      BY <1>1, VisitType DEF MemberJoined, Waits
    <2> QED  BY <1>1, <2>1 DEF MemberJoined, Waits, AdmissionTypeOK
  <1>2. CASE JoinLinkMade(q)
    BY <1>2 DEF JoinLinkMade, AdmissionTypeOK
  <1>3. CASE UNCHANGED <<members, link>>
    BY <1>3 DEF AdmissionTypeOK
  <1> QED
    BY <1>1, <1>2, <1>3 DEF Handles, CanActivate, RoomGuard, RoomFound,
       JoinTokenChecked, UserInRoomChecked, InviterPlanFound, InviteeChecked,
       JoinLinkSent, ChatGuard, ChatFound, MemberNamed, MemberSought,
       ChatMembersWritten, CallFails

(* The other steps: a request comes in, and what happens to the room, to   *)
(* its chat, to the sessions and to the links meanwhile.                   *)
Meanwhile ==
    /\ session' \subseteq session
    /\ door'.exists => door.exists
    /\ chat' => chat
    /\ members' \subseteq members
    /\ \A l \in Links : link[l] # "none" => link'[l] # "none"
    /\ opened => opened'
    /\ (~door.private => opened) => (~door'.private => opened')

(* Somebody has been shown the way in: the room was public at some time,   *)
(* or a link to it was made.                                               *)
ShownIn == opened \/ \E l \in Links : link[l] # "none"

(* The requests on their way into the room: only a request with a link     *)
(* looks for the link, and one that is about to make a member, or will be  *)
(* unless its user is one already, found the room open or had a link.      *)
Invited ==
    /\ ~door.private => opened
    /\ \A q \in Visits :
         /\ visit[q].pc = "link" => visit[q].op = "joinByToken"
         /\ visit[q].pc = "member" =>
              /\ visit[q].op \in {"view", "join", "joinByToken"}
              /\ visit[q].op = "view" \/ visit[q].barred \/ ShownIn
         /\ visit[q].pc = "push" => ShownIn

AdmissionInv == AdmissionTypeOK /\ Planned /\ StatusTruthful /\ Invited

(* Every other step is one of those, and begins a request at most.         *)
LEMMA MeanwhileOrHandled ==
    ASSUME AdmissionTypeOK, AdmissionNext
    PROVE  \/ \E q \in Visits : Handles(q)
           \/ /\ Meanwhile
              /\ AdmissionTypeOK'
              /\ \/ visit' = visit
                 \/ \E q \in Visits :
                      /\ visit'[q].pc = "auth"
                      /\ \A p \in Visits \ {q} : visit'[p] = visit[p]
  <1>1. ASSUME NEW q \in Visits, NEW op \in Operations, NEW u \in Visitors,
               NEW l \in Links, Request(q, op, u, l)
        PROVE  /\ Meanwhile /\ AdmissionTypeOK'
               /\ visit'[q].pc = "auth"
               /\ \A p \in Visits \ {q} : visit'[p] = visit[p]
    <2>1. [pc |-> "auth", op |-> op, by |-> u, with |-> l, barred |-> FALSE]
              \in VisitRecords
      BY DEF VisitRecords
    <2>2. /\ visit' \in [Visits -> VisitRecords \cup {NoVisit}]
          /\ visit'[q].pc = "auth"
          /\ \A p \in Visits \ {q} : visit'[p] = visit[p]
      BY <1>1, <2>1 DEF Request, AdmissionTypeOK
    <2>3. UNCHANGED <<session, door, opened, members, chat, link>>
      BY <1>1 DEF Request, Rest
    <2> QED  BY <2>2, <2>3 DEF Meanwhile, AdmissionTypeOK
  <1>2. ASSUME NEW u \in Visitors, LoggedOut(u) \/ MemberGone(u)
        PROVE  Meanwhile /\ AdmissionTypeOK' /\ visit' = visit
    BY <1>2 DEF LoggedOut, MemberGone, Meanwhile, AdmissionTypeOK
  <1>3. ASSUME NEW active \in BOOLEAN, NEW private \in BOOLEAN,
               SettingsChanged(active, private)
        PROVE  Meanwhile /\ AdmissionTypeOK' /\ visit' = visit
    <2>1. /\ door' = [exists |-> door.exists, active |-> active,
                      private |-> private]
          /\ door.exists \in BOOLEAN
      BY <1>3 DEF SettingsChanged, AdmissionTypeOK
    <2>2. /\ opened' = (opened \/ ~private)
          /\ UNCHANGED <<session, members, chat, link, visit>>
      BY <1>3 DEF SettingsChanged
    <2>3. opened' \in BOOLEAN
      BY <2>2
    <2>4. door' \in [exists : BOOLEAN, active : BOOLEAN, private : BOOLEAN]
      BY <2>1
    <2>5. AdmissionTypeOK'
      BY <2>2, <2>3, <2>4 DEF AdmissionTypeOK
    <2>6. /\ door'.exists = door.exists /\ door'.private = private
      BY <2>1
    <2> QED  BY <2>2, <2>5, <2>6 DEF Meanwhile
  <1>4. ASSUME ChatsDeleted \/ Deleted
        PROVE  Meanwhile /\ AdmissionTypeOK' /\ visit' = visit
    BY <1>4 DEF ChatsDeleted, Deleted, Meanwhile, AdmissionTypeOK
  <1>5. ASSUME NEW l \in Links, LinkExpired(l)
        PROVE  Meanwhile /\ AdmissionTypeOK' /\ visit' = visit
    BY <1>5 DEF LinkExpired, Rest, Meanwhile, AdmissionTypeOK
  <1> QED
    BY <1>1, <1>2, <1>3, <1>4, <1>5 DEF AdmissionNext, Handles

(* The steps of the requests keep the types.                               *)
LEMMA HandledKeepsType ==
    ASSUME AdmissionTypeOK, Planned, NEW q \in Visits, Handles(q)
    PROVE  AdmissionTypeOK'
  BY HandlesShape, HandlesLinksAndMembers DEF AdmissionTypeOK

(* What a status says stays true: sessions are only ended, and a room and  *)
(* its chat that are gone do not come back.                                *)
LEMMA StatusesStayTrue ==
    ASSUME AdmissionTypeOK, Planned, StatusTruthful,
           [AdmissionNext]_admissionVars
    PROVE  StatusTruthful'
  <1> DEFINE True(q) == Answered(q) /\ ~Failed(q)
                          => Tells(visit[q].by, visit[q].op, visit[q].status,
                                   visit[q].about)
  <1>1. ASSUME NEW q \in Visits PROVE True(q)
    BY DEF StatusTruthful, Tells
  <1>2. ASSUME \A q \in Visits : True(q)' PROVE StatusTruthful'
    BY <1>2 DEF StatusTruthful, Tells
  <1>3. CASE UNCHANGED admissionVars
    BY <1>3 DEF admissionVars, StatusTruthful, Answered, Failed, Waits
  <1>4. ASSUME NEW q \in Visits, Handles(q) PROVE StatusTruthful'
    <2> SUFFICES ASSUME NEW p \in Visits PROVE True(p)'
      BY <1>2
    <2>1. CASE p = q
      <3>1. CASE RepliesTruly(q)
        BY <1>4, <2>1, <3>1, HandlesShape
           DEF RepliesTruly, Tells, Answered, Failed
      <3>2. CASE Proceeds(q)
        <4>1. visit'[q].pc # "answered"
          BY <3>2 DEF Proceeds, AfterRoom
        <4> QED  BY <2>1, <4>1 DEF Answered, Waits
      <3> QED  BY <1>4, <3>1, <3>2, HandlesShape
    <2>2. CASE p # q
      BY <1>1, <1>4, <2>2, HandlesShape DEF Tells, Answered, Failed, Waits
    <2> QED  BY <2>1, <2>2
  <1>5. ASSUME Meanwhile, \/ visit' = visit
                          \/ \E q \in Visits :
                               /\ visit'[q].pc = "auth"
                               /\ \A p \in Visits \ {q} : visit'[p] = visit[p]
        PROVE  StatusTruthful'
    <2> SUFFICES ASSUME NEW p \in Visits PROVE True(p)'
      BY <1>2
    <2>1. visit'[p] = visit[p] \/ visit'[p].pc = "auth"
      BY <1>5
    <2> QED  BY <1>1, <1>5, <2>1 DEF Meanwhile, Tells, Answered, Failed, Waits
  <1> QED  BY <1>3, <1>4, <1>5, MeanwhileOrHandled

LEMMA PlannedKept ==
    ASSUME AdmissionTypeOK, Planned, [AdmissionNext]_admissionVars
    PROVE  Planned'
  <1>1. CASE UNCHANGED admissionVars
    BY <1>1 DEF admissionVars, Planned
  <1>2. ASSUME NEW q \in Visits, Handles(q) PROVE Planned'
    <2>1. visit'[q].pc = "plan" => visit'[q].op = "invite"
      <3>1. CASE RepliesTruly(q)
        BY <3>1 DEF RepliesTruly
      <3>2. CASE Proceeds(q)
        BY <3>2 DEF Proceeds, AfterRoom
      <3> QED  BY <1>2, <3>1, <3>2, HandlesShape
    <2> QED  BY <1>2, <2>1, HandlesShape DEF Planned
  <1>3. ASSUME \/ visit' = visit
               \/ \E q \in Visits :
                    /\ visit'[q].pc = "auth"
                    /\ \A p \in Visits \ {q} : visit'[p] = visit[p]
        PROVE  Planned'
    BY <1>3 DEF Planned
  <1> QED  BY <1>1, <1>2, <1>3, MeanwhileOrHandled

(* Whoever has been shown in has been so for good.                         *)
LEMMA InvitedKept ==
    ASSUME AdmissionTypeOK, Planned, Invited,
           [AdmissionNext]_admissionVars
    PROVE  Invited'
  <1> DEFINE Guest(q) ==
        /\ visit[q].pc = "link" => visit[q].op = "joinByToken"
        /\ visit[q].pc = "member" =>
             /\ visit[q].op \in {"view", "join", "joinByToken"}
             /\ visit[q].op = "view" \/ visit[q].barred \/ ShownIn
        /\ visit[q].pc = "push" => ShownIn
  <1>1. CASE UNCHANGED admissionVars
    BY <1>1 DEF admissionVars, Invited, ShownIn
  <1>2. ASSUME NEW q \in Visits, Handles(q) PROVE Invited'
    <2>1. UNCHANGED <<door, opened>>
      BY <1>2, HandlesShape
    <2>2. ShownIn => ShownIn'
      BY <1>2, <2>1, HandlesLinksAndMembers DEF ShownIn
    <2>3. ASSUME NEW p \in Visits \ {q} PROVE Guest(p)'
      <3>1. visit'[p] = visit[p] /\ Guest(p)
        BY <1>2, <2>3, HandlesShape DEF Invited
      <3> QED  BY <2>2, <3>1
    <2>4. Guest(q)'
      <3>1. CASE RepliesTruly(q)
        BY <3>1 DEF RepliesTruly
      <3>2. CASE Proceeds(q)
        <4>1. visit'[q].op = visit[q].op /\ visit[q].op \in Operations
          BY <1>2, <3>2, HandlesShape, VisitType DEF Proceeds
        <4>2. CASE /\ visit[q].pc = "room"
                   /\ visit'[q].pc = AfterRoom(visit[q].op)
                   /\ visit[q].op = "join" /\ door.private => visit'[q].barred
          BY <2>2, <4>1, <4>2 DEF AfterRoom, Operations, Invited, ShownIn
        <4>3. CASE /\ visit[q].pc = "link" /\ visit'[q].pc = "member"
                   /\ link[visit[q].with] = "live"
          <5>1. ShownIn
            BY <1>2, <4>3, HandlesShape, VisitType DEF ShownIn
          <5> QED  BY <2>2, <4>1, <4>3, <5>1 DEF Invited
        <4>4. CASE /\ visit[q].pc = "member" /\ visit'[q].pc = "push"
                   /\ ~visit[q].barred /\ visit[q].op # "view"
          BY <2>2, <4>4 DEF Invited
        <4>5. CASE visit'[q].pc \in {"guard", "room", "invitee", "make", "mail",
                                     "chat", "handler", "named", "inChat",
                                     "write"}
          BY <4>5
        <4> QED  BY <3>2, <4>2, <4>3, <4>4, <4>5 DEF Proceeds
      <3> QED  BY <1>2, <3>1, <3>2, HandlesShape
    <2> QED  BY <2>1, <2>3, <2>4 DEF Invited
  <1>3. ASSUME Meanwhile, \/ visit' = visit
                          \/ \E q \in Visits :
                               /\ visit'[q].pc = "auth"
                               /\ \A p \in Visits \ {q} : visit'[p] = visit[p]
        PROVE  Invited'
    <2>1. ShownIn => ShownIn'
      BY <1>3 DEF Meanwhile, ShownIn
    <2>2. ASSUME NEW p \in Visits PROVE Guest(p)'
      <3>1. visit'[p] = visit[p] \/ visit'[p].pc = "auth"
        BY <1>3
      <3> QED  BY <2>1, <3>1 DEF Invited
    <2> QED  BY <1>3, <2>2 DEF Invited, Meanwhile
  <1> QED  BY <1>1, <1>2, <1>3, MeanwhileOrHandled

(* The inductive invariant of the way into a room.                         *)
THEOREM AdmissionInvariant == AdmissionSpec => []AdmissionInv
  <1>1. AdmissionInit => AdmissionInv
    <2> SUFFICES ASSUME AdmissionInit PROVE AdmissionInv
      OBVIOUS
    <2>1. \A q \in Visits : visit[q] = NoVisit
      BY DEF AdmissionInit
    <2>2. AdmissionTypeOK
      BY DEF AdmissionInit, AdmissionTypeOK
    <2>3. Invited
      <3>1. ~door.private => opened
        <4>1. PICK private \in BOOLEAN :
                /\ door = [exists |-> TRUE, active |-> TRUE, private |-> private]
                /\ opened = ~private
          BY DEF AdmissionInit
        <4>2. door.private = private
          BY <4>1
        <4> QED  BY <4>1, <4>2
      <3> QED  BY <2>1, <3>1 DEF Invited, NoVisit
    <2> QED
      BY <2>1, <2>2, <2>3 DEF AdmissionInv, Planned, StatusTruthful, Answered,
         Waits, NoVisit
  <1>2. AdmissionInv /\ [AdmissionNext]_admissionVars => AdmissionInv'
    <2> SUFFICES ASSUME AdmissionInv, [AdmissionNext]_admissionVars
                 PROVE  AdmissionInv'
      OBVIOUS
    <2>1. AdmissionTypeOK'
      BY MeanwhileOrHandled, HandledKeepsType
         DEF AdmissionInv, AdmissionTypeOK, admissionVars
    <2> QED  BY <2>1, PlannedKept, StatusesStayTrue, InvitedKept DEF AdmissionInv
  <1> QED  BY <1>1, <1>2, PTL DEF AdmissionSpec

(* An answer is true unless a call failed: a 401 of the token, a 404 of the *)
(* room or the chat it names, a 500 that names nothing of a deletion in    *)
(* between or of an invitation (auth.guard.ts 33-41, room.guard.ts 14-22,  *)
(* chat.guard.ts 12-20, controller.ts 171, 426-433).                       *)
THEOREM StatusesAreTrue == AdmissionSpec => []StatusTruthful
  BY AdmissionInvariant, PTL DEF AdmissionInv

(* Who becomes a member found the room public once or had a link to it,    *)
(* and finds the room there (rooms/controller.ts 128-148).                 *)
THEOREM NobodyComesUninvited == AdmissionSpec => NobodyUninvited
  <1>1. AdmissionInv /\ [AdmissionNext]_admissionVars
          => [\/ members' \subseteq members
              \/ /\ door.exists
                 /\ opened \/ \E l \in Links : link[l] # "none"]_members
    <2> SUFFICES ASSUME AdmissionInv, AdmissionNext
                 PROVE  \/ members' \subseteq members
                        \/ door.exists /\ ShownIn
      BY DEF admissionVars, ShownIn
    <2>1. CASE \E q \in Visits : Handles(q)
      BY <2>1, HandlesLinksAndMembers DEF AdmissionInv, Invited
    <2>2. CASE Meanwhile
      BY <2>2 DEF Meanwhile
    <2> QED  BY <2>1, <2>2, MeanwhileOrHandled DEF AdmissionInv
  <1> QED  BY <1>1, AdmissionInvariant, PTL DEF AdmissionSpec, NobodyUninvited

-----------------------------------------------------------------------------
(* What administrators keep                                                *)

(* A name of characters or plans is sought while no document has it: the   *)
(* documents of that name, and the requests that are about to make one,    *)
(* are never more than the requests there can be.                          *)
Making(k, l) ==
    {q \in Edits : /\ EditAt(q, "list")
                   /\ catalogReq[q].kind = k /\ catalogReq[q].label = l}

CatalogInv ==
    /\ map \in [Maps -> MapRecords \cup {NoMap}]
    /\ listed \in [Kinds -> [Labels -> Nat]]
    /\ profile \in [Users -> [character : BOOLEAN, fullname : BOOLEAN]]
    /\ mapOf \in [Rooms -> Maps \cup {NoMap}]
    /\ catalogReq \in [Edits -> EditRecords \cup {NoEdit}]
    /\ \A k \in Kinds, l \in Labels :
         listed[k][l] + Cardinality(Making(k, l)) <= Cardinality(Edits)
    /\ \A q \in Edits : EditAt(q, "save") => catalogReq[q].map \in Stored

(* The requests and any of them can be counted.                            *)
LEMMA EditsCounted ==
    /\ IsFiniteSet(Edits) /\ Cardinality(Edits) \in Nat
    /\ \A S \in SUBSET Edits : /\ IsFiniteSet(S) /\ Cardinality(S) \in Nat
                               /\ Cardinality(S) <= Cardinality(Edits)
  BY CatalogAssumption, FS_CardinalityType, FS_Subset DEF CatalogAssumption

(* What a request that is under way has in hand.                           *)
LEMMA EditType ==
    ASSUME CatalogInv, NEW q \in Edits
    PROVE  /\ EditAt(q, "insert") => catalogReq[q].given \in MapRecords
           /\ EditAt(q, "save") => /\ catalogReq[q].map \in Maps
                                   /\ map[catalogReq[q].map] \in MapRecords
                                   /\ catalogReq[q].hand \in MapRecords
                                   /\ catalogReq[q].given \in Given
           /\ EditAt(q, "list") => /\ catalogReq[q].kind \in Kinds
                                   /\ catalogReq[q].label \in Labels
           /\ EditAt(q, "profile") => /\ catalogReq[q].user \in Users
                                      /\ catalogReq[q].character \in BOOLEAN
                                      /\ catalogReq[q].fullname \in BOOLEAN
           /\ EditAt(q, "room") => /\ catalogReq[q].room \in Rooms
                                   /\ catalogReq[q].map \in Maps
  BY DEF CatalogInv, EditRecords, NoEdit, EditAt, Stored

(* A request that ends makes nothing, and one that begins makes one of what*)
(* it asks for, if that.                                                   *)
LEMMA EditEnds ==
    ASSUME CatalogInv, NEW q \in Edits, EndEdit(q)
    PROVE  /\ catalogReq' \in [Edits -> EditRecords \cup {NoEdit}]
           /\ \A k \in Kinds, l \in Labels : Making(k, l)' = Making(k, l) \ {q}
           /\ \A p \in Edits : EditAt(p, "save")' =>
                EditAt(p, "save") /\ catalogReq'[p].map = catalogReq[p].map
  BY DEF CatalogInv, EndEdit, NoEdit, Making, EditAt

(* The request that begins is the only one that changes.                   *)
LEMMA EditBegins ==
    ASSUME CatalogInv, NEW q \in Edits, NEW what \in EditRecords, BeginEdit(q, what)
    PROVE  /\ catalogReq' \in [Edits -> EditRecords \cup {NoEdit}]
           /\ \A k \in Kinds, l \in Labels :
                \/ Making(k, l)' = Making(k, l)
                \/ what.pc = "list" /\ what.kind = k /\ what.label = l
           /\ \A p \in Edits \ {q} : catalogReq'[p] = catalogReq[p]
           /\ catalogReq'[q] = what
  <1>1. catalogReq' \in [Edits -> EditRecords \cup {NoEdit}]
    BY DEF CatalogInv, BeginEdit
  <1>2. /\ catalogReq[q] = NoEdit /\ catalogReq'[q] = what
        /\ \A p \in Edits \ {q} : catalogReq'[p] = catalogReq[p]
    BY DEF CatalogInv, BeginEdit
  <1>3. ASSUME NEW k \in Kinds, NEW l \in Labels,
               ~(what.pc = "list" /\ what.kind = k /\ what.label = l)
        PROVE  Making(k, l)' = Making(k, l)
    BY <1>2, <1>3 DEF Making, EditAt, NoEdit
  <1> QED  BY <1>1, <1>2, <1>3

(* One request less makes one document less.                               *)
LEMMA FewerMaking ==
    ASSUME CatalogInv, NEW q \in Edits, NEW k \in Kinds, NEW l \in Labels
    PROVE  /\ Cardinality(Making(k, l) \ {q}) \in Nat
           /\ Cardinality(Making(k, l)) \in Nat
           /\ Cardinality(Making(k, l) \ {q}) <= Cardinality(Making(k, l))
           /\ q \in Making(k, l) =>
                Cardinality(Making(k, l) \ {q}) = Cardinality(Making(k, l)) - 1
  <1>1. Making(k, l) \subseteq Edits /\ IsFiniteSet(Making(k, l))
    BY EditsCounted DEF Making
  <1> HIDE DEF Making
  <1> QED  BY <1>1, FS_CardinalityType, FS_RemoveElement, FS_Subset

(* The first step of a request stores nothing.                             *)
LEMMA StartsKeepInv ==
    ASSUME CatalogInv, NEW q \in Edits, Start(q)
    PROVE  CatalogInv'
  <1>1. ASSUME NEW what \in EditRecords, BeginEdit(q, what),
               UNCHANGED <<map, listed, profile, mapOf>>,
               what.pc = "list" => listed[what.kind][what.label] = 0,
               what.pc = "save" => what.map \in Stored
        PROVE  CatalogInv'
    <2>1. ASSUME NEW k \in Kinds, NEW l \in Labels
          PROVE  listed'[k][l] + Cardinality(Making(k, l)') <= Cardinality(Edits)
      <3>1. CASE Making(k, l)' = Making(k, l)
        BY <1>1, <3>1 DEF CatalogInv
      <3>2. CASE what.pc = "list" /\ what.kind = k /\ what.label = l
        <4>1. Making(k, l)' \subseteq Edits
          BY DEF Making
        <4>2. /\ Cardinality(Making(k, l)') \in Nat
              /\ Cardinality(Making(k, l)') <= Cardinality(Edits)
          BY <4>1, EditsCounted
        <4> QED  BY <1>1, <3>2, <4>2, EditsCounted
      <3> QED  BY <1>1, <3>1, <3>2, EditBegins
    <2>2. ASSUME NEW p \in Edits, EditAt(p, "save")'
          PROVE  catalogReq'[p].map \in Stored
      BY <1>1, <2>2, EditBegins DEF CatalogInv, EditAt
    <2> QED  BY <1>1, <2>1, <2>2, EditBegins DEF CatalogInv, Stored
  <1>2. ASSUME NEW given \in MapRecords, MapNameSought(q, given)
        PROVE  CatalogInv'
    <2>1. [pc |-> "insert", given |-> given] \in EditRecords
      BY DEF EditRecords
    <2> QED  BY <1>1, <1>2, <2>1 DEF MapNameSought
  <1>3. ASSUME NEW m \in Maps, NEW given \in Given, MapFound(q, m, given)
        PROVE  CatalogInv'
    <2>1. map[m] \in MapRecords
      BY <1>3 DEF MapFound, Stored, CatalogInv
    <2>2. [pc |-> "save", map |-> m, hand |-> map[m], given |-> given]
              \in EditRecords
      BY <2>1 DEF EditRecords
    <2> QED  BY <1>1, <1>3, <2>2 DEF MapFound
  <1>4. ASSUME NEW k \in Kinds, NEW l \in Labels, NameSought(q, k, l)
        PROVE  CatalogInv'
    <2>1. [pc |-> "list", kind |-> k, label |-> l] \in EditRecords
      BY DEF EditRecords
    <2> QED  BY <1>1, <1>4, <2>1 DEF NameSought
  <1>5. ASSUME NEW u \in Users, NEW c \in BOOLEAN, NEW f \in BOOLEAN,
               CharacterSought(q, u, c, f)
        PROVE  CatalogInv'
    <2> DEFINE what == [pc |-> "profile", user |-> u, character |-> c,
                        fullname |-> f]
    <2>1. what \in EditRecords /\ what.pc = "profile"
      BY DEF EditRecords
    <2>2. BeginEdit(q, what) /\ UNCHANGED <<map, listed, profile, mapOf>>
      BY <1>5 DEF CharacterSought
    <2> HIDE DEF what
    <2> QED  BY <1>1, <2>1, <2>2
  <1>6. ASSUME NEW r \in Rooms, NEW m \in Maps, RoomMapFits(q, r, m)
        PROVE  CatalogInv'
    <2>1. [pc |-> "room", room |-> r, map |-> m] \in EditRecords
      BY DEF EditRecords
    <2> QED  BY <1>1, <1>6, <2>1 DEF RoomMapFits
  <1> QED  BY <1>2, <1>3, <1>4, <1>5, <1>6 DEF Start

(* The last step of a request ends it, and what it stores is of its type.  *)
LEMMA EndsKeepInv ==
    ASSUME CatalogInv, NEW q \in Edits, Continue(q) \/ EditRefused(q)
    PROVE  CatalogInv'
  <1>1. EndEdit(q)
    BY DEF Continue, EditRefused, MapInserted, MapSaved, Created, ProfileUpdated,
       RoomStored
  <1>0. ASSUME Stored \subseteq Stored'
        PROVE  \A p \in Edits :
                 EditAt(p, "save")' => catalogReq'[p].map \in Stored'
    BY <1>0, <1>1, EditEnds DEF CatalogInv
  <1>2. ASSUME UNCHANGED listed
        PROVE  \A k \in Kinds, l \in Labels :
                 listed'[k][l] + Cardinality(Making(k, l)') <= Cardinality(Edits)
    <2> SUFFICES ASSUME NEW k \in Kinds, NEW l \in Labels
                 PROVE  listed[k][l] + Cardinality(Making(k, l)')
                            <= Cardinality(Edits)
      BY <1>2
    <2>1. Making(k, l)' = Making(k, l) \ {q}
      BY <1>1, EditEnds
    <2>2. listed[k][l] \in Nat
      BY DEF CatalogInv
    <2> QED  BY <2>1, <2>2, FewerMaking, EditsCounted DEF CatalogInv
  <1>3. CASE MapInserted(q)
    <2>1. catalogReq[q].given \in MapRecords
      BY <1>3, EditType DEF MapInserted
    <2>2. map' \in [Maps -> MapRecords \cup {NoMap}]
      BY <1>3, <2>1 DEF MapInserted, CatalogInv
    <2>3. UNCHANGED <<listed, profile, mapOf>>
      BY <1>3 DEF MapInserted
    <2>4. Stored \subseteq Stored'
      BY <1>3, <2>1, CatalogAssumption
         DEF MapInserted, Stored, CatalogInv, MapRecords
    <2> QED  BY <1>0, <1>1, <1>2, <2>2, <2>3, <2>4, EditEnds DEF CatalogInv
  <1>4. CASE MapSaved(q)
    <2> DEFINE m == catalogReq[q].map
               hand == catalogReq[q].hand
               revised == Revised(hand, catalogReq[q].given)
               written == [f \in {"name", "capacity"} |->
                              IF revised[f] # hand[f]
                              THEN revised[f] ELSE map[m][f]]
    <2>1. /\ m \in Maps /\ hand \in MapRecords /\ catalogReq[q].given \in Given
          /\ map' = [map EXCEPT ![m] = written]
          /\ UNCHANGED <<listed, profile, mapOf>>
      BY <1>4, EditType DEF MapSaved
    <2>2. /\ revised \in MapRecords /\ map[m] \in MapRecords
      BY <1>4, <2>1, EditType DEF MapSaved, Revised, MapRecords, Given
    <2>3. written = [name |-> written["name"], capacity |-> written["capacity"]]
      OBVIOUS
    <2>4. written \in MapRecords
      BY <2>1, <2>2, <2>3 DEF MapRecords
    <2> HIDE DEF written
    <2>5. map' \in [Maps -> MapRecords \cup {NoMap}]
      BY <2>1, <2>4 DEF CatalogInv
    <2>6. Stored \subseteq Stored'
      BY <2>1, <2>4, CatalogAssumption DEF Stored, MapRecords, CatalogInv
    <2> QED  BY <1>0, <1>1, <1>2, <2>1, <2>5, <2>6, EditEnds DEF CatalogInv
  <1>5. CASE Created(q)
    <2> DEFINE k == catalogReq[q].kind  l == catalogReq[q].label
    <2>1. /\ k \in Kinds /\ l \in Labels
          /\ listed' = [listed EXCEPT ![k][l] = @ + 1]
          /\ UNCHANGED <<map, profile, mapOf>>
          /\ q \in Making(k, l)
      BY <1>5, EditType DEF Created, Making
    <2>2. ASSUME NEW j \in Kinds, NEW i \in Labels
          PROVE  listed'[j][i] + Cardinality(Making(j, i)') <= Cardinality(Edits)
      <3>1. Making(j, i)' = Making(j, i) \ {q}
        BY <1>1, EditEnds
      <3>2. /\ listed[j][i] \in Nat
            /\ listed[j][i] + Cardinality(Making(j, i)) <= Cardinality(Edits)
        BY DEF CatalogInv
      <3>3. CASE j = k /\ i = l
        <4>1. listed'[j][i] = listed[j][i] + 1
          BY <2>1, <3>3 DEF CatalogInv
        <4>2. Cardinality(Making(j, i) \ {q}) = Cardinality(Making(j, i)) - 1
          BY <2>1, <3>3, FewerMaking
        <4> QED  BY <3>1, <3>2, <4>1, <4>2, FewerMaking, EditsCounted
      <3>4. CASE ~(j = k /\ i = l)
        <4>1. listed'[j][i] = listed[j][i]
          BY <2>1, <3>4 DEF CatalogInv
        <4> QED  BY <3>1, <3>2, <4>1, FewerMaking, EditsCounted
      <3> QED  BY <3>3, <3>4
    <2>3. listed' \in [Kinds -> [Labels -> Nat]]
      BY <2>1 DEF CatalogInv
    <2> HIDE DEF k, l
    <2> QED  BY <1>0, <1>1, <2>1, <2>2, <2>3, EditEnds DEF CatalogInv, Stored
  <1>6. CASE ProfileUpdated(q)
    <2> DEFINE u == catalogReq[q].user
    <2>1. /\ u \in Users
          /\ UNCHANGED <<map, listed, mapOf>>
          /\ profile' = [profile EXCEPT
                 ![u].character = @ \/ catalogReq[q].character,
                 ![u].fullname = @ \/ catalogReq[q].fullname]
      BY <1>6, EditType DEF ProfileUpdated
    <2>2. profile' \in [Users -> [character : BOOLEAN, fullname : BOOLEAN]]
      BY <2>1 DEF CatalogInv
    <2> QED  BY <1>0, <1>1, <1>2, <2>1, <2>2, EditEnds DEF CatalogInv, Stored
  <1>7. CASE RoomStored(q)
    <2>1. /\ mapOf' \in [Rooms -> Maps \cup {NoMap}]
          /\ UNCHANGED <<map, listed, profile>>
      BY <1>7, EditType DEF RoomStored, CatalogInv
    <2> QED  BY <1>0, <1>1, <1>2, <2>1, EditEnds DEF CatalogInv, Stored
  <1>8. CASE EditRefused(q)
    BY <1>0, <1>1, <1>2, <1>8, EditEnds DEF EditRefused, CatalogInv, Stored
  <1> QED  BY <1>3, <1>4, <1>5, <1>6, <1>7, <1>8 DEF Continue

(* The inductive invariant of what administrators keep: the types, how     *)
(* many documents of one name there can be, and that a map is stored as    *)
(* long as a request is about to save it.                                  *)
THEOREM CatalogInvariant == CatalogSpec => []CatalogInv
  <1>1. CatalogInit => CatalogInv
    <2> SUFFICES ASSUME CatalogInit PROVE CatalogInv
      OBVIOUS
    <2>1. \A k \in Kinds, l \in Labels : Making(k, l) = {}
      BY DEF CatalogInit, Making, EditAt, NoEdit
    <2>2. Cardinality({}) = 0
      BY FS_EmptySet
    <2>3. \A k \in Kinds, l \in Labels :
            listed[k][l] + Cardinality(Making(k, l)) <= Cardinality(Edits)
      BY <2>1, <2>2, EditsCounted DEF CatalogInit
    <2>4. \A q \in Edits : ~EditAt(q, "save")
      BY DEF CatalogInit, EditAt, NoEdit
    <2> QED  BY <2>3, <2>4 DEF CatalogInit, CatalogInv
  <1>2. CatalogInv /\ [CatalogNext]_catalogVars => CatalogInv'
    <2> SUFFICES ASSUME CatalogInv, [CatalogNext]_catalogVars PROVE CatalogInv'
      OBVIOUS
    <2>1. ASSUME NEW r \in Rooms, NEW m \in Maps, RoomMapSet(r, m)
          PROVE  CatalogInv'
      BY <2>1 DEF RoomMapSet, CatalogInv, Making, EditAt, Stored
    <2>2. CASE UNCHANGED catalogVars
      BY <2>2 DEF catalogVars, CatalogInv, Making, EditAt, Stored
    <2> QED  BY <2>1, <2>2, StartsKeepInv, EndsKeepInv DEF CatalogNext
  <1> QED  BY <1>1, <1>2, PTL DEF CatalogSpec

(* Two administrators who save different fields of one map do not undo     *)
(* each other (map/controller.ts 50-62).                                   *)
THEOREM SavesLeaveOtherFields == CatalogSpec => SavesKeepOthers
  <1>1. CatalogInv /\ [CatalogNext]_catalogVars
          => [FieldsAskedFor]_map
    <2> SUFFICES ASSUME CatalogInv, CatalogNext, NEW n \in Stored,
                        NEW f \in {"name", "capacity"}, map'[n][f] # map[n][f]
                 PROVE  \E q \in Edits : /\ EditAt(q, "save")
                                         /\ catalogReq[q].map = n
                                         /\ catalogReq[q].given[f] = map'[n][f]
      BY DEF catalogVars, FieldsAskedFor
    <2>1. PICK q \in Edits : MapInserted(q) \/ MapSaved(q)
      BY DEF CatalogNext, Start, Continue, MapNameSought, MapFound, NameSought,
         CharacterSought, RoomMapFits, Created, ProfileUpdated, RoomStored,
         EditRefused, RoomMapSet
    <2>2. ~MapInserted(q)
      BY DEF MapInserted, CatalogInv, Stored
    <2> DEFINE m == catalogReq[q].map
               hand == catalogReq[q].hand
               revised == Revised(hand, catalogReq[q].given)
               written == [g \in {"name", "capacity"} |->
                              IF revised[g] # hand[g]
                              THEN revised[g] ELSE map[m][g]]
    <2>3. /\ EditAt(q, "save") /\ m \in Maps /\ n \in Maps
          /\ hand \in MapRecords /\ catalogReq[q].given \in Given
          /\ map' = [map EXCEPT ![m] = written]
      BY <2>1, <2>2, EditType DEF MapSaved, Stored
    <2>4. n = m /\ map'[n][f] = written[f]
      BY <2>3 DEF CatalogInv
    <2>5. written[f] = IF revised[f] # hand[f] THEN revised[f] ELSE map[m][f]
      OBVIOUS
    <2>6. written[f] = revised[f] /\ revised[f] # hand[f]
      BY <2>4, <2>5
    <2>7. revised[f] = catalogReq[q].given[f]
      <3>1. f = "name" \/ f = "capacity"
        OBVIOUS
      <3>2. CASE f = "name"
        BY <2>3, <2>6, <3>2 DEF Revised
      <3>3. CASE f = "capacity"
        BY <2>3, <2>6, <3>3 DEF Revised
      <3> QED  BY <3>1, <3>2, <3>3
    <2> QED  BY <2>3, <2>4, <2>6, <2>7
  <1> QED  BY <1>1, CatalogInvariant, PTL DEF CatalogSpec, SavesKeepOthers

-----------------------------------------------------------------------------
(* What administrators read                                                *)

(* Documents lie in the order in which they were stamped, which is that of *)
(* their times, and of their days, up to today.                            *)
InOrder ==
    /\ collection \in {"rooms", "users", "subscriptions"}
    /\ docs \in Seq([at : Nat, day : 1..Days])
    /\ stored \subseteq DOMAIN docs /\ gone \subseteq stored
    /\ today \in 1..Days
    /\ \A i \in DOMAIN docs : docs[i].day <= today
    /\ \A i, j \in DOMAIN docs : i < j => docs[i].at <= docs[j].at

(* A listing and the statistics, as the steps leave them.                  *)
Pages ==
    [pc : {"page", "listed"}, page : Nat \ {0}, limit : Nat,
     data : (SUBSET Nat) \cup {Awaited}, total : Nat \cup {Awaited},
     seen : SUBSET Nat, from : SUBSET Nat, gone : SUBSET Nat]
Counts ==
    [pc : {"count"}, since : Nat, from : SUBSET Nat,
     counts : [1..Days -> Nat \cup {Awaited}]]

(* Users are not deleted, and those counted from are among those stored.   *)
StatsTyped ==
    /\ request \in Pages \cup Counts \cup {NoRequest}
    /\ collection # "rooms" => gone = {}
    /\ request.pc = "count" =>
         /\ collection = "users" /\ request.since \in 1..today
         /\ request.from \subseteq stored

(* What is known of every document, and that documents can be counted.     *)
LEMMA DocsFinite ==
    ASSUME InOrder
    PROVE  /\ DOMAIN docs = 1..Len(docs) /\ Len(docs) \in Nat
           /\ Alive \subseteq stored /\ stored \subseteq DOMAIN docs
           /\ \A i \in DOMAIN docs : docs[i].at \in Nat /\ docs[i].day \in 1..Days
           /\ \A S \in SUBSET DOMAIN docs : IsFiniteSet(S) /\ Cardinality(S) \in Nat
  <1>1. DOMAIN docs = 1..Len(docs) /\ Len(docs) \in Nat
    BY DEF InOrder
  <1>2. IsFiniteSet(DOMAIN docs)
    BY <1>1, FS_Interval
  <1>3. \A i \in DOMAIN docs : docs[i].at \in Nat /\ docs[i].day \in 1..Days
    <2> DEFINE D == [at : Nat, day : 1..Days]
    <2>1. \A e \in D : e.at \in Nat /\ e.day \in 1..Days
      OBVIOUS
    <2>2. docs \in Seq(D)
      BY DEF InOrder
    <2> HIDE DEF D
    <2>3. \A i \in DOMAIN docs : docs[i] \in D
      BY <1>1, <2>2
    <2> QED  BY <2>1, <2>3
  <1>4. Alive \subseteq stored /\ stored \subseteq DOMAIN docs
    BY DEF Alive, InOrder
  <1> QED  BY <1>1, <1>2, <1>3, <1>4, FS_Subset, FS_CardinalityType

(* A new document is the last, the youngest and of today.                  *)
LEMMA StampAppends ==
    ASSUME InOrder, Stamp
    PROVE  /\ InOrder'
           /\ DOMAIN docs' = DOMAIN docs \cup {Len(docs) + 1}
           /\ \A i \in DOMAIN docs : docs'[i] = docs[i]
           /\ docs'[Len(docs) + 1].day = today
           /\ UNCHANGED <<collection, stored, gone, today, request>>
  <1> DEFINE D == [at : Nat, day : 1..Days]
  <1>1. PICK later \in {0, 1} :
          LET last == IF docs = <<>> THEN 0 ELSE Last(docs).at
              sameDay == docs # <<>> /\ Last(docs).day = today
              at == IF sameDay THEN last + later ELSE last + 1
          IN  docs' = Append(docs, [at |-> at, day |-> today])
    BY DEF Stamp
  <1> DEFINE last == IF docs = <<>> THEN 0 ELSE Last(docs).at
             at == IF docs # <<>> /\ Last(docs).day = today
                   THEN last + later ELSE last + 1
             new == [at |-> at, day |-> today]
  <1>2. /\ last \in Nat
        /\ \A i \in DOMAIN docs : docs[i].at <= last
    <2>1. CASE docs = <<>>
      BY <2>1
    <2>2. CASE docs # <<>>
      <3>1. Len(docs) # 0
        BY <2>2, EmptySeq DEF InOrder
      <3>2. Len(docs) \in DOMAIN docs /\ Last(docs) = docs[Len(docs)]
        BY <3>1, DocsFinite DEF Last
      <3>3. \A i \in DOMAIN docs : i < Len(docs) \/ i = Len(docs)
        BY DocsFinite
      <3> QED  BY <2>2, <3>2, <3>3, DocsFinite DEF InOrder
    <2> QED  BY <2>1, <2>2
  <1>3. at \in Nat /\ at >= last
    BY <1>2
  <1> HIDE DEF last
  <1>4. docs' = Append(docs, new)
    BY <1>1 DEF last
  <1> HIDE DEF at
  <1>5. new \in D /\ new.at = at /\ new.day = today
    BY <1>3 DEF InOrder
  <1> HIDE DEF new
  <1>6. /\ docs' \in Seq(D)
        /\ DOMAIN docs' = DOMAIN docs \cup {Len(docs) + 1}
        /\ \A i \in DOMAIN docs : docs'[i] = docs[i]
        /\ docs'[Len(docs) + 1] = new
    BY <1>4, <1>5 DEF InOrder
  <1>7. UNCHANGED <<collection, stored, gone, today, request>>
    BY DEF Stamp
  <1>8. \A i \in DOMAIN docs' : docs'[i].day <= today
    BY <1>5, <1>6 DEF InOrder
  <1>9. ASSUME NEW i \in DOMAIN docs', NEW j \in DOMAIN docs', i < j
        PROVE  docs'[i].at <= docs'[j].at
    <2>1. CASE j \in DOMAIN docs
      BY <1>6, <1>9, <2>1, DocsFinite DEF InOrder
    <2>2. CASE j = Len(docs) + 1
      <3>1. i \in DOMAIN docs
        BY <1>6, <1>9, <2>2, DocsFinite
      <3>2. docs[i].at \in Nat
        BY <3>1, DocsFinite
      <3> QED  BY <1>2, <1>3, <1>5, <1>6, <2>2, <3>1, <3>2
    <2> QED  BY <1>6, <2>1, <2>2
  <1> QED  BY <1>5, <1>6, <1>7, <1>8, <1>9 DEF InOrder

(* Every step but a stamp leaves the documents alone.                      *)
LEMMA OthersLeaveDocs ==
    ASSUME InOrder, [ListingNext]_listingVars, ~Stamp
    PROVE  /\ UNCHANGED <<collection, docs>>
           /\ stored' = stored \/ \E d \in 1..MaxDocs : Store(d)
           /\ gone' = gone \/ \E d \in 1..MaxDocs : Delete(d)
           /\ InOrder'
  <1>1. CASE UNCHANGED listingVars
    BY <1>1 DEF listingVars, InOrder
  <1>2. ASSUME NEW d \in 1..MaxDocs, Delete(d)
        PROVE  UNCHANGED <<collection, docs, stored, today>> /\ gone' \subseteq stored
    BY <1>2 DEF Delete, Alive, InOrder
  <1>3. CASE Midnight
    <2>1. /\ UNCHANGED <<collection, docs, stored, gone>>
          /\ today' = today + 1 /\ today' \in 1..Days
      BY <1>3, ListingsAssumption DEF Midnight, InOrder
    <2>2. \A i \in DOMAIN docs : docs[i].day \in 1..Days
      BY DocsFinite
    <2> QED  BY <1>3, <2>1, <2>2, ListingsAssumption DEF InOrder
  <1>4. CASE UNCHANGED <<collection, docs, stored, gone, today>>
    BY <1>4 DEF InOrder
  <1>5. ASSUME NEW d \in 1..MaxDocs, Store(d)
        PROVE  UNCHANGED <<collection, docs, gone, today>> /\ InOrder'
    BY <1>5 DEF Store, InOrder
  <1>6. ASSUME NEW d \in 1..MaxDocs, Delete(d) PROVE InOrder'
    BY <1>2, <1>6 DEF InOrder
  <1> QED
    BY <1>1, <1>2, <1>3, <1>4, <1>5, <1>6 DEF ListingNext, Ask, DataRead,
       TotalRead, TurnPage, LastPage, CountAsked, DayCounted

(* Documents are added, stored and marked as deleted, and never changed.   *)
LEMMA DocsOnlyGrow ==
    ASSUME InOrder, [ListingNext]_listingVars
    PROVE  /\ DOMAIN docs \subseteq DOMAIN docs' /\ stored \subseteq stored'
           /\ gone \subseteq gone' /\ collection' = collection
           /\ \A e \in DOMAIN docs : docs'[e] = docs[e]
           /\ InOrder'
  <1>1. CASE Stamp
    BY <1>1, StampAppends
  <1>2. CASE ~Stamp
    BY <1>2, OthersLeaveDocs DEF Store, Delete
  <1> QED  BY <1>1, <1>2

(* A listing shows every document once, the newer ones first.              *)
LEMMA PlacesOf ==
    ASSUME InOrder, NEW order \in NewestFirst
    PROVE  /\ order \in Seq(Alive) /\ Len(order) = Cardinality(Alive)
           /\ Len(order) \in Nat
           /\ \A i \in 1..Len(order) : order[i] \in Alive
           /\ \A i, j \in 1..Len(order) : i # j => order[i] # order[j]
           /\ \A i, j \in 1..Len(order) :
                i < j => docs[order[i]].at >= docs[order[j]].at
           /\ \A d \in Alive : \E i \in 1..Len(order) : order[i] = d
  <1> DEFINE n == Cardinality(Alive)
  <1>1. IsFiniteSet(Alive) /\ n \in Nat
    BY DocsFinite
  <1>2. /\ order \in [1..n -> Alive]
        /\ \A i, j \in 1..n : i # j => order[i] # order[j]
        /\ \A i, j \in DOMAIN order :
             i < j => docs[order[i]].at >= docs[order[j]].at
    BY DEF NewestFirst, SetToSeqs
  <1>3. order \in Injection(1..n, Alive)
    BY <1>2, Fun_IsInj
  <1>4. IsFiniteSet(1..n) /\ Cardinality(1..n) = n
    BY <1>1, FS_Interval
  <1>5. order \in Surjection(1..n, Alive)
    BY <1>1, <1>3, <1>4, FS_Injection
  <1>6. \A d \in Alive : \E i \in 1..n : order[i] = d
    BY <1>5 DEF Surjection
  <1> HIDE DEF n
  <1>7. order \in Seq(Alive) /\ Len(order) = n
    <2>1. DOMAIN order = 1..n
      BY <1>2
    <2> QED  BY <1>1, <1>2, <2>1 DEF Seq
  <1> QED  BY <1>1, <1>2, <1>6, <1>7 DEF n

(* The documents that come before d in every listing.                      *)
Ahead(d) == Cardinality({e \in Alive : e > d})

(* A document that shares its millisecond with no other comes right after  *)
(* those that are ahead of it, in whatever order the others are.           *)
LEMMA PlaceOf ==
    ASSUME InOrder, NEW order \in NewestFirst, NEW d \in Alive, Alone(d)
    PROVE  /\ Ahead(d) \in Nat /\ Ahead(d) + 1 \in 1..Len(order)
           /\ order[Ahead(d) + 1] = d
  <1> DEFINE Newer == {e \in Alive : e > d}
  <1>1. PICK i \in 1..Len(order) : order[i] = d
    BY PlacesOf
  <1>2. \A j \in 1..(i - 1) : order[j] \in Newer
    <2> SUFFICES ASSUME NEW j \in 1..(i - 1) PROVE order[j] > d
      BY PlacesOf DEF Newer
    <2>1. j \in 1..Len(order) /\ j < i
      BY PlacesOf
    <2>2. /\ order[j] \in stored \ {d} /\ order[j] \in DOMAIN docs
          /\ docs[order[j]].at >= docs[d].at
      <3>1. order[j] \in Alive /\ docs[order[j]].at >= docs[order[i]].at
        BY <1>1, <2>1, PlacesOf
      <3>2. j # i /\ i \in 1..Len(order)
        BY <2>1
      <3>3. order[j] # order[i]
        BY <2>1, <3>2, PlacesOf
      <3> QED  BY <1>1, <3>1, <3>3, DocsFinite
    <2>3. docs[order[j]].at # docs[d].at
      BY <2>2 DEF Alone
    <2>4. d \in DOMAIN docs
      BY DocsFinite
    <2>5. docs[d].at \in Nat /\ docs[order[j]].at \in Nat
      BY <2>2, <2>4, DocsFinite
    <2>6. ~(order[j] < d)
      BY <2>2, <2>3, <2>4, <2>5 DEF InOrder
    <2> QED  BY <2>2, <2>4, <2>6, DocsFinite
  <1>3. \A e \in Newer : \E j \in 1..(i - 1) : order[j] = e
    <2> SUFFICES ASSUME NEW e \in Newer PROVE \E j \in 1..(i - 1) : order[j] = e
      OBVIOUS
    <2>1. PICK j \in 1..Len(order) : order[j] = e
      BY PlacesOf
    <2>2. e \in DOMAIN docs /\ d \in DOMAIN docs /\ e > d /\ e \in stored
      BY DocsFinite
    <2>3. docs[e].at \in Nat /\ docs[d].at \in Nat /\ e \in Nat /\ d \in Nat
      BY <2>2, DocsFinite
    <2>4. docs[d].at <= docs[e].at /\ docs[e].at # docs[d].at
      BY <2>2, <2>3 DEF InOrder, Alone
    <2>5. ~(i < j)
      BY <1>1, <2>1, <2>3, <2>4, PlacesOf
    <2>6. j # i
      BY <1>1, <2>1, <2>2, <2>3
    <2>7. i \in Nat /\ j \in Nat /\ j >= 1
      BY <1>1, <2>1, PlacesOf
    <2>8. j \in 1..(i - 1)
      BY <2>5, <2>6, <2>7
    <2> QED  BY <2>1, <2>8
  <1> DEFINE f == [j \in 1..(i - 1) |-> order[j]]
  <1> HIDE DEF Newer
  <1>4. f \in [1..(i - 1) -> Newer]
    BY <1>2
  <1>5. \A a, b \in 1..(i - 1) : f[a] = f[b] => a = b
    BY PlacesOf
  <1>6. \A e \in Newer : \E j \in 1..(i - 1) : f[j] = e
    BY <1>3
  <1> HIDE DEF f
  <1>7. f \in Bijection(1..(i - 1), Newer)
    BY <1>4, <1>5, <1>6, Fun_IsBij
  <1>8. i - 1 \in Nat
    BY PlacesOf
  <1>9. Cardinality(Newer) = i - 1
    BY <1>7, <1>8, FS_CountingElements DEF ExistsBijection
  <1> QED  BY <1>1, <1>8, <1>9, PlacesOf DEF Ahead, Newer

(* The documents on some pages.                                            *)
LEMMA Products ==
    ASSUME NEW page \in Nat \ {0}, NEW limit \in Nat
    PROVE  /\ (page - 1) * limit \in Nat /\ page * limit \in Nat
           /\ page * limit = (page - 1) * limit + limit
           /\ (limit = 0 \/ page = 1) => (page - 1) * limit = 0
  OBVIOUS

(* The documents on one page.                                              *)
LEMMA WindowOf ==
    ASSUME InOrder, NEW order \in NewestFirst, NEW page \in Nat \ {0},
           NEW limit \in Nat
    PROVE  LET first == (page - 1) * limit + 1
               last == IF limit = 0 THEN Len(order)
                       ELSE IF first + limit - 1 < Len(order)
                            THEN first + limit - 1 ELSE Len(order)
           IN  /\ Window(order, page, limit) = {order[i] : i \in first..last}
               /\ Window(order, page, limit) \in SUBSET Nat
               /\ first \in Nat \ {0} /\ last \in Nat /\ last <= Len(order)
  <1> DEFINE first == (page - 1) * limit + 1
             last == IF limit = 0 THEN Len(order)
                     ELSE IF first + limit - 1 < Len(order)
                          THEN first + limit - 1 ELSE Len(order)
             part == SubSeq(order, first, last)
  <1>1. (page - 1) * limit \in Nat
    <2>1. page - 1 \in Nat
      OBVIOUS
    <2> QED  BY <2>1
  <1>2. first \in Nat \ {0} /\ Skip(page, limit) + 1 = first
    BY <1>1 DEF Skip
  <1>3. Window(order, page, limit) = Range(part)
    BY <1>2 DEF Window
  <1> HIDE DEF first
  <1>4. last \in Nat /\ last <= Len(order)
    BY <1>2, PlacesOf
  <1> HIDE DEF last
  <1>5. \A i \in first..last : order[i] \in Alive
    BY <1>2, <1>4, PlacesOf
  <1>6. /\ part \in Seq(Alive)
        /\ Len(part) = IF first <= last THEN last - first + 1 ELSE 0
        /\ \A i \in 1..(last - first + 1) : part[i] = order[first + i - 1]
    BY <1>2, <1>4, <1>5, SubSeqProperties
  <1> HIDE DEF part
  <1>7. Range(part) = {part[i] : i \in 1..Len(part)}
    BY <1>6, LenProperties DEF Range
  <1>8. ASSUME NEW i \in 1..Len(part) PROVE part[i] \in {order[j] : j \in first..last}
    <2>1. /\ first + i - 1 \in first..last /\ part[i] = order[first + i - 1]
      BY <1>2, <1>4, <1>6, <1>8
    <2> QED  BY <2>1
  <1>9. ASSUME NEW j \in first..last PROVE order[j] \in {part[i] : i \in 1..Len(part)}
    <2>1. j - first + 1 \in 1..Len(part) /\ part[j - first + 1] = order[j]
      BY <1>2, <1>4, <1>6
    <2> QED  BY <2>1
  <1>10. Window(order, page, limit) = {order[i] : i \in first..last}
    BY <1>3, <1>7, <1>8, <1>9
  <1>11. Alive \subseteq Nat
    BY DocsFinite
  <1> QED  BY <1>2, <1>4, <1>5, <1>10, <1>11 DEF first, last

(* The steps of a listing leave a listing.                                 *)
LEMMA PagesStayPages ==
    ASSUME InOrder, StatsTyped,
           \/ \E limit \in Limits : Ask(limit)
           \/ DataRead \/ TotalRead \/ TurnPage \/ LastPage
    PROVE  request' \in Pages
  <1>1. ASSUME NEW limit \in Limits, Ask(limit) PROVE request' \in Pages
    <2>1. limit \in Nat /\ Alive \in SUBSET Nat /\ gone \in SUBSET Nat
      BY ListingsAssumption, DocsFinite DEF InOrder
    <2> QED  BY <1>1, <2>1 DEF Ask, Pages
  <1>2. request.pc = "page" => request \in Pages
    BY DEF StatsTyped, Counts, NoRequest
  <1>3. CASE DataRead
    <2>1. PICK order \in NewestFirst :
            LET data == Window(order, request.page, request.limit)
            IN  request' = [request EXCEPT !.data = data, !.seen = @ \cup data]
      BY <1>3 DEF DataRead
    <2> DEFINE data == Window(order, request.page, request.limit)
    <2>2. data \in SUBSET Nat
      BY <1>2, <1>3, WindowOf DEF DataRead, Pages
    <2> HIDE DEF data
    <2> QED  BY <1>2, <1>3, <2>1, <2>2 DEF DataRead, Pages, data
  <1>4. CASE TotalRead
    <2>1. Cardinality(Alive) \in Nat
      BY DocsFinite
    <2> QED  BY <1>2, <1>4, <2>1 DEF TotalRead, Pages
  <1>5. CASE TurnPage
    <2>1. /\ request \in Pages
          /\ request' = [request EXCEPT !.page = @ + 1, !.data = Awaited,
                                       !.total = Awaited]
      BY <1>2, <1>5 DEF TurnPage
    <2>2. request.page + 1 \in Nat \ {0}
      BY <2>1 DEF Pages
    <2> QED  BY <2>1, <2>2 DEF Pages
  <1>6. CASE LastPage
    BY <1>2, <1>6 DEF LastPage, Pages
  <1> QED  BY <1>1, <1>3, <1>4, <1>5, <1>6

(* What is counted lies between what had been stored when the statistics   *)
(* were asked for and what has been since.                                 *)
LEMMA CountsKept ==
    ASSUME InOrder, StatsTyped, PastDaysMissOnlyLate,
           [ListingNext]_listingVars
    PROVE  StatsTyped' /\ PastDaysMissOnlyLate'
  <1>1. CASE request' = request
    <2>1. gone' = gone \/ collection = "rooms"
      BY <1>1, StampAppends, OthersLeaveDocs DEF Delete
    <2>2. today' \in Nat /\ today <= today'
      <3>1. CASE Stamp
        BY <3>1, StampAppends DEF InOrder
      <3>2. CASE Midnight
        BY <3>2, ListingsAssumption DEF Midnight, InOrder
      <3>3. CASE today' = today
        BY <3>3 DEF InOrder
      <3> QED
        BY <3>1, <3>2, <3>3 DEF ListingNext, listingVars, Store, Delete, Ask,
           DataRead, TotalRead, TurnPage, LastPage, CountAsked, DayCounted
    <2>3. StatsTyped'
      <3>1. request.pc = "count" => request.since \in 1..today'
        BY <2>2 DEF StatsTyped, InOrder
      <3> QED  BY <1>1, <2>1, <3>1, DocsOnlyGrow DEF StatsTyped
    <2>4. ASSUME request.pc = "count", NEW d \in 1..(request.since - 1),
                 request.counts[d] # Awaited
          PROVE  /\ Cardinality(UsersUpTo(request.from, d)') <= request.counts[d]
                 /\ request.counts[d] <= Cardinality(UsersUpTo(stored, d)')
      <3>1. /\ Cardinality(UsersUpTo(request.from, d)) <= request.counts[d]
            /\ request.counts[d] <= Cardinality(UsersUpTo(stored, d))
        BY <2>4 DEF PastDaysMissOnlyLate
      <3>2. UsersUpTo(request.from, d)' = UsersUpTo(request.from, d)
        BY <1>1, <2>4, DocsOnlyGrow DEF UsersUpTo, StatsTyped, InOrder
      <3>3. UsersUpTo(stored, d) \subseteq UsersUpTo(stored, d)'
        BY DocsOnlyGrow DEF UsersUpTo, InOrder
      <3>4. UsersUpTo(stored, d)' \subseteq DOMAIN docs'
        BY DocsOnlyGrow DEF UsersUpTo, InOrder
      <3>5. IsFiniteSet(DOMAIN docs')
        <4>1. DOMAIN docs' = 1..Len(docs') /\ Len(docs') \in Nat
          BY DocsOnlyGrow DEF InOrder
        <4> QED  BY <4>1, FS_Interval
      <3>6. /\ Cardinality(UsersUpTo(stored, d)) <= Cardinality(UsersUpTo(stored, d)')
            /\ Cardinality(UsersUpTo(stored, d)) \in Nat
            /\ Cardinality(UsersUpTo(stored, d)') \in Nat
        BY <3>3, <3>4, <3>5, FS_Subset, FS_CardinalityType
      <3>7. request.counts[d] \in Nat
        <4>1. request \in Counts /\ d \in 1..Days
          BY <2>4, ListingsAssumption DEF StatsTyped, Pages, NoRequest, InOrder
        <4> QED  BY <2>4, <4>1 DEF Counts
      <3> QED  BY <3>1, <3>2, <3>6, <3>7
    <2> QED  BY <1>1, <2>3, <2>4 DEF PastDaysMissOnlyLate
  <1>2. ASSUME NEW d \in 1..Days, DayCounted(d)
        PROVE  StatsTyped' /\ PastDaysMissOnlyLate'
    <2>1. /\ request.pc = "count" /\ gone = {} /\ request.from \subseteq stored
          /\ request' = [request EXCEPT !.counts[d] = Cardinality(UpTo(d))]
          /\ UNCHANGED <<collection, docs, stored, gone, today>>
      BY <1>2 DEF DayCounted, StatsTyped
    <2>2. UpTo(d) = UsersUpTo(stored, d)
      BY <2>1, DocsFinite, ListingsAssumption DEF UpTo, UsersUpTo, Alive
    <2>3. UsersUpTo(request.from, d) \subseteq UsersUpTo(stored, d)
      BY <2>1 DEF UsersUpTo
    <2>4. UsersUpTo(stored, d) \in SUBSET DOMAIN docs
      BY DocsFinite DEF UsersUpTo
    <2> DEFINE n == Cardinality(UpTo(d))
    <2>5. /\ n \in Nat /\ n = Cardinality(UsersUpTo(stored, d))
          /\ Cardinality(UsersUpTo(request.from, d)) <= n
      BY <2>2, <2>3, <2>4, DocsFinite, FS_Subset
    <2>6. request' = [request EXCEPT !.counts[d] = n] /\ request \in Counts
      BY <2>1 DEF StatsTyped, Pages, NoRequest
    <2> HIDE DEF n
    <2>7. /\ request'.pc = request.pc /\ request'.since = request.since
          /\ request'.from = request.from
          /\ request'.counts = [request.counts EXCEPT ![d] = n]
      BY <2>6 DEF Counts
    <2>8. StatsTyped'
      <3>1. request' \in Counts
        BY <2>5, <2>6 DEF Counts
      <3> QED  BY <2>1, <2>7, <3>1 DEF StatsTyped
    <2>9. ASSUME NEW e \in 1..(request.since - 1), request'.counts[e] # Awaited
          PROVE  /\ Cardinality(UsersUpTo(request.from, e)) <= request'.counts[e]
                 /\ request'.counts[e] <= Cardinality(UsersUpTo(stored, e))
      <3>1. e \in 1..Days
        BY <2>1, ListingsAssumption DEF StatsTyped, InOrder
      <3>2. request.counts \in [1..Days -> Nat \cup {Awaited}]
        BY <2>6 DEF Counts
      <3>3. CASE e = d
        <4>1. request'.counts[e] = n
          BY <2>7, <3>1, <3>2, <3>3
        <4> QED  BY <2>5, <3>3, <4>1
      <3>4. CASE e # d
        <4>1. request'.counts[e] = request.counts[e]
          BY <2>7, <3>1, <3>2, <3>4
        <4> QED  BY <2>1, <2>9, <4>1 DEF PastDaysMissOnlyLate
      <3> QED  BY <3>3, <3>4
    <2> QED  BY <2>1, <2>7, <2>8, <2>9 DEF PastDaysMissOnlyLate, UsersUpTo
  <1>3. CASE CountAsked
    <2>1. /\ request' = [pc |-> "count", since |-> today, from |-> stored,
                         counts |-> [d \in 1..Days |-> Awaited]]
          /\ UNCHANGED <<collection, docs, stored, gone, today>>
          /\ collection = "users"
      BY <1>3 DEF CountAsked
    <2>2. \A d \in 1..(today - 1) : d \in 1..Days
      BY ListingsAssumption DEF InOrder
    <2>3. stored \subseteq Nat
      BY DocsFinite
    <2>4. /\ request' \in Counts /\ request'.pc = "count"
          /\ request'.since = today /\ request'.from = stored
      BY <2>1, <2>3 DEF Counts, InOrder
    <2>5. \A d \in 1..Days : request'.counts[d] = Awaited
      BY <2>1
    <2>6. today \in 1..today
      BY DEF InOrder
    <2> QED
      BY <2>1, <2>2, <2>4, <2>5, <2>6 DEF StatsTyped, PastDaysMissOnlyLate
  <1>4. CASE \/ \E limit \in Limits : Ask(limit)
             \/ DataRead \/ TotalRead \/ TurnPage \/ LastPage
    <2>1. request' \in Pages
      BY <1>4, PagesStayPages
    <2>2. UNCHANGED <<collection, gone>>
      BY <1>4 DEF Ask, DataRead, TotalRead, TurnPage, LastPage
    <2> QED  BY <2>1, <2>2 DEF StatsTyped, PastDaysMissOnlyLate, Pages
  <1> QED
    BY <1>1, <1>2, <1>3, <1>4 DEF ListingNext, listingVars, Stamp, Store,
       Delete, Midnight

(* What a reader misses: none of the exceptions of NoneSkipped applies.    *)
Missed(d) ==
    /\ d \in request.from \cap Alive
    /\ ~Seen(d) /\ Alone(d)
    /\ \A g \in DeletedMeanwhile : ~(g > d)

(* What is still missed lies behind the pages that have been read, and     *)
(* then these were full.                                                   *)
Behind ==
    request.pc \in {"page", "listed"} =>
        /\ request.from \subseteq stored
        /\ request.gone \subseteq gone
        /\ request.pc = "listed" => request.data # Awaited /\ ~Full
        /\ \A d \in request.from : Missed(d) =>
             /\ Ahead(d) >= (request.page - 1) * request.limit
             /\ request.data # Awaited =>
                  Full /\ Ahead(d) >= request.page * request.limit

(* No document comes to lie further ahead, unless one ahead of it is       *)
(* deleted.                                                                *)
LEMMA AheadKept ==
    ASSUME InOrder, InOrder', NEW d \in DOMAIN docs,
           stored \subseteq stored',
           \A e \in stored : e > d => (e \in gone' => e \in gone)
    PROVE  Ahead(d) \in Nat /\ Ahead(d)' \in Nat /\ Ahead(d) <= Ahead(d)'
  <1>1. {e \in Alive : e > d} \subseteq {e \in Alive' : e > d}
    BY DEF Alive
  <1>2. IsFiniteSet({e \in Alive' : e > d})
    <2>1. {e \in Alive' : e > d} \in SUBSET DOMAIN docs'
      BY DEF Alive, InOrder
    <2>2. IsFiniteSet(DOMAIN docs')
      <3>1. DOMAIN docs' = 1..Len(docs') /\ Len(docs') \in Nat
        BY DEF InOrder
      <3> QED  BY <3>1, FS_Interval
    <2> QED  BY <2>1, <2>2, FS_Subset
  <1> QED  BY <1>1, <1>2, FS_Subset, FS_CardinalityType DEF Ahead

(* A page that is read shows what comes after the pages before it; and if  *)
(* it shows less than was to come it is full.                              *)
LEMMA WindowShows ==
    ASSUME InOrder, NEW order \in NewestFirst, NEW page \in Nat \ {0},
           NEW limit \in Nat, NEW d \in Alive, Alone(d),
           Ahead(d) >= (page - 1) * limit, d \notin Window(order, page, limit)
    PROVE  /\ limit # 0 /\ Ahead(d) >= page * limit
           /\ Cardinality(Window(order, page, limit)) = limit
  <1> DEFINE before == (page - 1) * limit
             first == before + 1
             last == IF limit = 0 THEN Len(order)
                     ELSE IF first + limit - 1 < Len(order)
                          THEN first + limit - 1 ELSE Len(order)
             W == Window(order, page, limit)
             i == Ahead(d) + 1
  <1>1. /\ W = {order[j] : j \in first..last}
        /\ first \in Nat \ {0} /\ last \in Nat /\ last <= Len(order)
    BY WindowOf
  <1>2. /\ i \in 1..Len(order) /\ order[i] = d /\ Ahead(d) \in Nat
        /\ Len(order) \in Nat
    BY PlaceOf, PlacesOf
  <1>3. before \in Nat
    BY <1>1
  <1>4. page * limit = before + limit
    BY Products
  <1>5. limit = 0 => before = 0
    BY Products
  <1>6. i \notin first..last
    BY <1>1, <1>2
  <1>7. i >= first
    BY <1>2, <1>3
  <1> HIDE DEF i
  <1>8. i > last
    BY <1>1, <1>2, <1>3, <1>6, <1>7
  <1>9. limit # 0
    BY <1>2, <1>5, <1>8
  <1>10. last = before + limit
    BY <1>2, <1>3, <1>8, <1>9
  <1> HIDE DEF last, before
  <1>11. Ahead(d) >= page * limit
    BY <1>2, <1>3, <1>4, <1>8, <1>10 DEF i
  <1> DEFINE f == [j \in 1..limit |-> order[before + j]]
  <1>12. \A j \in 1..limit : /\ before + j \in first..last
                            /\ before + j \in 1..Len(order)
    BY <1>1, <1>2, <1>3, <1>10
  <1>13. f \in [1..limit -> W]
    BY <1>1, <1>12
  <1>14. \A a, b \in 1..limit : f[a] = f[b] => a = b
    <2> SUFFICES ASSUME NEW a \in 1..limit, NEW b \in 1..limit, a # b
                 PROVE  f[a] # f[b]
      OBVIOUS
    <2>1. before + a \in 1..Len(order) /\ before + b \in 1..Len(order)
      BY <1>12
    <2>2. before + a # before + b
      BY <1>3
    <2> QED  BY <2>1, <2>2, PlacesOf
  <1>15. ASSUME NEW e \in W PROVE \E j \in 1..limit : f[j] = e
    <2>1. PICK k \in first..last : order[k] = e
      BY <1>1
    <2>2. k - before \in 1..limit /\ before + (k - before) = k
      BY <1>3, <1>10, <2>1
    <2> QED  BY <2>1, <2>2
  <1> HIDE DEF f, W
  <1>16. f \in Bijection(1..limit, W)
    BY <1>13, <1>14, <1>15, Fun_IsBij
  <1>17. Cardinality(W) = limit
    BY <1>16, FS_CountingElements DEF ExistsBijection
  <1> QED  BY <1>9, <1>11, <1>17 DEF W

(* Insertions push what has not been seen towards later pages, and a page  *)
(* that does not show what it might have shown is full.                    *)
LEMMA BehindKept ==
    ASSUME InOrder, StatsTyped, Behind, [ListingNext]_listingVars
    PROVE  Behind'
  <1>1. CASE request' = request
    <2>1. /\ DOMAIN docs \subseteq DOMAIN docs' /\ gone \subseteq gone'
          /\ stored \subseteq stored' /\ stored \subseteq DOMAIN docs
          /\ \A e \in DOMAIN docs : docs'[e] = docs[e]
          /\ InOrder'
      BY DocsOnlyGrow, DocsFinite
    <2> SUFFICES ASSUME request.pc \in {"page", "listed"},
                        NEW d \in request.from, Missed(d)'
                 PROVE  /\ Ahead(d)' >= (request.page - 1) * request.limit
                        /\ request.data # Awaited =>
                             Full /\ Ahead(d)' >= request.page * request.limit
      BY <1>1, <2>1 DEF Behind, Full
    <2>2. /\ d \in DOMAIN docs /\ d \in stored /\ d \in Alive'
          /\ d \in Alive
      BY <1>1, <2>1 DEF Behind, Missed, Alive
    <2>3. Missed(d)
      BY <1>1, <2>1, <2>2 DEF Missed, Seen, Alone, DeletedMeanwhile
    <2>4. ASSUME NEW e \in stored, e > d, e \in gone' PROVE e \in gone
      BY <1>1, <2>4 DEF Missed, DeletedMeanwhile, Behind
    <2>5. Ahead(d) \in Nat /\ Ahead(d)' \in Nat /\ Ahead(d) <= Ahead(d)'
      BY <2>1, <2>2, <2>4, AheadKept
    <2>6. /\ (request.page - 1) * request.limit \in Nat
          /\ request.page * request.limit \in Nat
      <3>1. request.page \in Nat \ {0} /\ request.limit \in Nat
        BY DEF StatsTyped, Pages, Counts, NoRequest
      <3> QED  BY <3>1, Products
    <2>7. /\ Ahead(d) >= (request.page - 1) * request.limit
          /\ request.data # Awaited =>
               Full /\ Ahead(d) >= request.page * request.limit
      BY <2>3 DEF Behind
    <2> QED  BY <2>5, <2>6, <2>7
  <1>2. ASSUME NEW limit \in Limits, Ask(limit) PROVE Behind'
    <2>1. /\ request' = [pc |-> "page", page |-> 1, limit |-> limit,
                         data |-> Awaited, total |-> Awaited, seen |-> {},
                         from |-> Alive, gone |-> gone]
          /\ UNCHANGED <<docs, stored, gone>>
      BY <1>2 DEF Ask
    <2>2. (1 - 1) * limit = 0
      BY ListingsAssumption, Products
    <2>3. \A d \in Alive : Ahead(d)' \in Nat
      BY <2>1, DocsFinite DEF Ahead, Alive
    <2> QED  BY <2>1, <2>2, <2>3 DEF Behind, Alive
  <1>3. ASSUME request.pc = "page", request \in Pages
        PROVE  /\ request.page \in Nat \ {0} /\ request.limit \in Nat
               /\ (request.page - 1) * request.limit \in Nat
               /\ request.page * request.limit \in Nat
    BY <1>3, Products DEF Pages
  <1>4. request.pc = "page" => request \in Pages
    BY DEF StatsTyped, Counts, NoRequest
  <1>5. CASE DataRead
    <2>1. /\ request.pc = "page" /\ request \in Pages
          /\ UNCHANGED <<docs, stored, gone>>
      BY <1>4, <1>5 DEF DataRead
    <2>2. PICK order \in NewestFirst :
            request' = [request EXCEPT
                !.data = Window(order, request.page, request.limit),
                !.seen = @ \cup Window(order, request.page, request.limit)]
      BY <1>5 DEF DataRead
    <2> DEFINE W == Window(order, request.page, request.limit)
    <2> HIDE DEF W
    <2>3. /\ request'.pc = request.pc /\ request'.page = request.page
          /\ request'.limit = request.limit /\ request'.from = request.from
          /\ request'.gone = request.gone /\ request'.data = W
          /\ request'.seen = request.seen \cup W
      BY <2>1, <2>2 DEF Pages, W
    <2>4. ASSUME NEW d \in request.from, Missed(d)'
          PROVE  /\ Ahead(d) >= (request.page - 1) * request.limit
                 /\ request.limit # 0 /\ Cardinality(W) = request.limit
                 /\ Ahead(d) >= request.page * request.limit
      <3>1. Missed(d) /\ d \in Alive /\ Alone(d) /\ d \notin W
        BY <2>1, <2>3, <2>4 DEF Missed, Seen, Alone, Alive, DeletedMeanwhile
      <3>2. Ahead(d) >= (request.page - 1) * request.limit
        BY <2>1, <3>1 DEF Behind
      <3> QED  BY <1>3, <2>1, <3>1, <3>2, WindowShows DEF W
    <2>5. \A d : Ahead(d)' = Ahead(d)
      BY <2>1 DEF Ahead, Alive
    <2> QED  BY <2>1, <2>3, <2>4, <2>5 DEF Behind, Full
  <1>6. CASE TotalRead
    <2>1. /\ request.pc = "page" /\ request \in Pages
          /\ UNCHANGED <<docs, stored, gone>>
          /\ request' = [request EXCEPT !.total = Cardinality(Alive)]
      BY <1>4, <1>6 DEF TotalRead
    <2>2. /\ request'.pc = request.pc /\ request'.page = request.page
          /\ request'.limit = request.limit /\ request'.from = request.from
          /\ request'.gone = request.gone /\ request'.data = request.data
          /\ request'.seen = request.seen
      BY <2>1 DEF Pages
    <2> QED
      BY <2>1, <2>2 DEF Behind, Full, Missed, Seen, Alone, Alive,
         DeletedMeanwhile, Ahead
  <1>7. CASE TurnPage
    <2>1. /\ request.pc = "page" /\ request \in Pages /\ Full
          /\ request.data # Awaited
          /\ UNCHANGED <<docs, stored, gone>>
          /\ request' = [request EXCEPT !.page = @ + 1, !.data = Awaited,
                                       !.total = Awaited]
      BY <1>4, <1>7 DEF TurnPage, BothRead
    <2>2. /\ request'.pc = request.pc /\ request'.page = request.page + 1
          /\ request'.limit = request.limit /\ request'.from = request.from
          /\ request'.gone = request.gone /\ request'.data = Awaited
          /\ request'.seen = request.seen
      BY <2>1 DEF Pages
    <2>3. (request'.page - 1) * request'.limit = request.page * request.limit
      BY <1>3, <2>1, <2>2
    <2>4. ASSUME NEW d \in request.from, Missed(d)'
          PROVE  Ahead(d)' >= request.page * request.limit
      <3>1. Missed(d)
        BY <2>1, <2>2, <2>4 DEF Missed, Seen, Alone, Alive, DeletedMeanwhile
      <3>2. Ahead(d)' = Ahead(d)
        BY <2>1 DEF Ahead, Alive
      <3> QED  BY <2>1, <3>1, <3>2 DEF Behind
    <2> QED  BY <2>1, <2>2, <2>3, <2>4 DEF Behind
  <1>8. CASE LastPage
    <2>1. /\ request.pc = "page" /\ request \in Pages /\ ~Full
          /\ request.data # Awaited
          /\ UNCHANGED <<docs, stored, gone>>
          /\ request' = [request EXCEPT !.pc = "listed"]
      BY <1>4, <1>8 DEF LastPage, BothRead
    <2>2. /\ request'.pc = "listed" /\ request'.page = request.page
          /\ request'.limit = request.limit /\ request'.from = request.from
          /\ request'.gone = request.gone /\ request'.data = request.data
          /\ request'.seen = request.seen
      BY <2>1 DEF Pages
    <2> QED
      BY <2>1, <2>2 DEF Behind, Full, Missed, Seen, Alone, Alive,
         DeletedMeanwhile, Ahead
  <1>9. CASE CountAsked \/ \E d \in 1..Days : DayCounted(d)
    <2>1. request.pc = "count" => request \in Counts
      BY DEF StatsTyped, Pages, NoRequest
    <2>2. request'.pc = "count"
      BY <1>9, <2>1 DEF CountAsked, DayCounted, Counts
    <2> QED  BY <2>2 DEF Behind
  <1>10. CASE \/ Stamp \/ Midnight
              \/ \E d \in 1..MaxDocs : Store(d) \/ Delete(d)
    BY <1>1, <1>10 DEF Stamp, Store, Midnight, Delete
  <1>11. CASE UNCHANGED listingVars
    BY <1>1, <1>11 DEF listingVars
  <1> QED
    BY <1>2, <1>5, <1>6, <1>7, <1>8, <1>9, <1>10, <1>11 DEF ListingNext

ListingInv == InOrder /\ StatsTyped /\ PastDaysMissOnlyLate /\ Behind

(* The inductive invariant of what administrators read.                    *)
THEOREM ListingInvariant == ListingSpec => []ListingInv
  <1>1. ListingInit => ListingInv
    <2> SUFFICES ASSUME ListingInit PROVE ListingInv
      OBVIOUS
    <2>1. InOrder
      BY ListingsAssumption, EmptySeq DEF ListingInit, InOrder
    <2>2. request = NoRequest /\ request.pc = "none"
      BY DEF ListingInit, NoRequest
    <2>3. StatsTyped
      BY <2>2 DEF ListingInit, StatsTyped
    <2> QED  BY <2>1, <2>2, <2>3 DEF ListingInv, PastDaysMissOnlyLate, Behind
  <1>2. ListingInv /\ [ListingNext]_listingVars => ListingInv'
    <2> SUFFICES ASSUME ListingInv, [ListingNext]_listingVars PROVE ListingInv'
      OBVIOUS
    <2>1. InOrder'
      BY DocsOnlyGrow DEF ListingInv
    <2> QED  BY <2>1, CountsKept, BehindKept DEF ListingInv
  <1> QED  BY <1>1, <1>2, PTL DEF ListingSpec

(* The statistics leave out of the days before only sign-ups that were not *)
(* yet stored when they were asked for, whatever happens between the       *)
(* queries (user/service.ts 67-77).                                        *)
THEOREM PastDaysMissLittle == ListingSpec => []PastDaysMissOnlyLate
  BY ListingInvariant, PTL DEF ListingInv

(* A reader who reads to a short page has seen every document that was     *)
(* there, shares its millisecond with no other and lay behind none that    *)
(* was deleted meanwhile (rooms/service.ts 32-64, user/service.ts 45-63,   *)
(* subcription/service.ts 16-48).                                          *)
THEOREM ReadersMissNothing == ListingSpec => []NoneSkipped
  <1>1. ListingInv => NoneSkipped
    <2> SUFFICES ASSUME ListingInv, request.pc = "listed",
                        NEW d \in request.from \cap Alive,
                        ~Seen(d), Alone(d), \A g \in DeletedMeanwhile : ~(g > d)
                 PROVE  FALSE
      BY DEF NoneSkipped
    <2>1. Missed(d)
      BY DEF Missed
    <2> QED  BY <2>1 DEF ListingInv, Behind
  <1> QED  BY <1>1, ListingInvariant, PTL
=============================================================================
