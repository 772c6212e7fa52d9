------------------------------- MODULE SignUp -------------------------------
(***************************************************************************)
(* The account of one e-mail address and its one-time passwords:           *)
(* AuthService.login, genOtp and verifyOtp, GoogleOauthStrategy.validate   *)
(* (src/modules/auth), with the unique index on email in the collection of *)
(* users.                                                                  *)
(*                                                                         *)
(* A request runs from one call to the database or the cache to the next.  *)
(* Two calls are not waited for, the mail with a password and the removal  *)
(* of one that was accepted: a rejection of theirs ends the process, and   *)
(* with it every request in flight.                                        *)
(***************************************************************************)
EXTENDS Naturals, FiniteSets

CONSTANTS Requests,    \* bound: requests in flight at once
          Otps,        \* bound: one-time passwords generated
          NoOtp,
          MaxTries     \* INCORRECT_ENTER_OTP_TIME

ASSUME SignUpAssumption ==
    /\ NoOtp \notin Otps /\ MaxTries \in Nat \ {0}
    /\ IsFiniteSet(Requests)

VARIABLES
    account,    \* "none", or whether the address is verified
    freePlans,  \* free subscriptions of the account
    otp,        \* the cache: the password of the address
    incorrect,  \* the cache: wrong tries counted
    used,       \* used[o]: how often password o was accepted
    req,        \* the requests in flight
    cut,        \* history: a login was cut short before it subscribed
    kept        \* history: passwords whose removal was lost

vars == <<account, freePlans, otp, incorrect, used, req, cut, kept>>
histories == <<cut, kept>>

Idle == [pc |-> "idle"]
InFlight ==
    [pc : {"create", "subscribe", "genOtp", "compare", "count", "raise",
           "verify", "remove"},
     google : BOOLEAN, given : Otps \cup {NoOtp}, read : 0..MaxTries]

(* Bound: acceptances of a password are counted so far.                    *)
MaxUses == Cardinality(Requests) + 1

TypeOK ==
    /\ account \in {"none", "unverified", "verified"}
    /\ freePlans \in 0..Cardinality(Requests)
    /\ otp \in Otps \cup {NoOtp}
    /\ incorrect \in 0..MaxTries
    /\ used \in [Otps -> 0..MaxUses]
    /\ req \in [Requests -> InFlight \cup {Idle}]
    /\ cut \in BOOLEAN
    /\ kept \subseteq Otps

Init ==
    /\ account = "none" /\ freePlans = 0
    /\ otp = NoOtp /\ incorrect = 0
    /\ used = [o \in Otps |-> 0]
    /\ req = [q \in Requests |-> Idle]
    /\ cut = FALSE
    /\ kept = {}

-----------------------------------------------------------------------------
At(q, step) == req[q].pc = step
Goto(q, step) == req' = [req EXCEPT ![q].pc = step]
Answer(q) == req' = [req EXCEPT ![q] = Idle]

Begin(q, step, google, o) ==
    /\ req[q] = Idle
    /\ req' = [req EXCEPT ![q] =
           [pc |-> step, google |-> google, given |-> o, read |-> 0]]
    /\ UNCHANGED <<account, freePlans, otp, incorrect, used, histories>>

(* The user has been looked up by e-mail; Google's callback sends no       *)
(* password and ends where the account is known.                           *)
Login(q, google) ==
    IF account = "none" THEN Begin(q, "create", google, NoOtp)
    ELSE ~google /\ Begin(q, "genOtp", google, NoOtp)

AfterAccount(q) == IF req[q].google THEN Answer(q) ELSE Goto(q, "genOtp")

(* Google vouches for the address.                                         *)
NewAccount(google) == IF google THEN "verified" ELSE "unverified"

(* Variant: an insert that finds the address taken goes on.                *)
UserCreatedTwice(q) ==
    /\ At(q, "create")
    /\ account' = NewAccount(req[q].google)
    /\ Goto(q, "subscribe")
    /\ UNCHANGED <<freePlans, otp, incorrect, used, histories>>

(* The unique index refuses the second insert of an address.               *)
UserCreated(q) ==
    /\ At(q, "create")
    /\ account = "none"
    /\ account' = NewAccount(req[q].google)
    /\ Goto(q, "subscribe")
    /\ UNCHANGED <<freePlans, otp, incorrect, used, histories>>

FreePlanSubscribed(q) ==
    /\ At(q, "subscribe")
    /\ freePlans' = freePlans + 1
    /\ AfterAccount(q)
    /\ UNCHANGED <<account, otp, incorrect, used, histories>>

(* Every password is a fresh one.  Bound: none is given when all are used. *)
OtpSet(q) ==
    /\ At(q, "genOtp")
    /\ \E o \in Otps :
         /\ used[o] = 0
         /\ o # otp
         /\ \A p \in Requests : req[p] # Idle => req[p].given # o
         /\ otp' = o
    /\ Answer(q)
    /\ UNCHANGED <<account, freePlans, incorrect, used, histories>>

(* The cache forgets after OTP_TTL.                                        *)
OtpExpired ==
    /\ otp # NoOtp
    /\ otp' = NoOtp
    /\ UNCHANGED <<account, freePlans, incorrect, used, req, histories>>

IncorrectExpired ==
    /\ incorrect # 0
    /\ incorrect' = 0
    /\ UNCHANGED <<account, freePlans, otp, used, req, histories>>

-----------------------------------------------------------------------------
(* POST /auth/verify.  NoOtp stands for a password that was never sent.    *)

VerifyOtp(q, o) ==
    /\ account # "none"
    /\ Begin(q, "compare", FALSE, o)

OtpCompared(q) ==
    /\ At(q, "compare")
    /\ IF otp = NoOtp THEN Answer(q)
       ELSE Goto(q, IF otp = req[q].given THEN "verify" ELSE "count")
    /\ UNCHANGED <<account, freePlans, otp, incorrect, used, histories>>

TriesCounted(q) ==
    /\ At(q, "count")
    /\ IF incorrect = MaxTries THEN Answer(q)
       ELSE req' = [req EXCEPT ![q].pc = "raise", ![q].read = incorrect]
    /\ UNCHANGED <<account, freePlans, otp, incorrect, used, histories>>

TriesRaised(q) ==
    /\ At(q, "raise")
    /\ incorrect' = req[q].read + 1
    /\ Answer(q)
    /\ UNCHANGED <<account, freePlans, otp, used, histories>>

Verified(q) ==
    /\ At(q, "verify")
    /\ account' = "verified"
    /\ used' = [used EXCEPT ![req[q].given] = IF @ < MaxUses THEN @ + 1 ELSE @]
    /\ Goto(q, "remove")
    /\ UNCHANGED <<freePlans, otp, incorrect, histories>>

(* Variant: the removal takes the count of wrong tries instead.            *)
TriesForgotten(q) ==
    /\ At(q, "remove")
    /\ otp # NoOtp
    /\ incorrect' = 0
    /\ Answer(q)
    /\ UNCHANGED <<account, freePlans, otp, used, histories>>

(* The request is answered without waiting for del, which takes away       *)
(* whatever password is there by then, and rejects where none is.          *)
OtpRemoved(q) ==
    /\ At(q, "remove")
    /\ otp # NoOtp
    /\ otp' = NoOtp
    /\ Answer(q)
    /\ UNCHANGED <<account, freePlans, incorrect, used, histories>>

(* A refusal is answered, or a call fails.                                 *)
Abandoned(q) ==
    /\ req[q].pc \in {"create", "subscribe", "genOtp", "compare", "count",
                       "raise", "verify"}
    /\ Answer(q)
    /\ cut' = (cut \/ At(q, "subscribe"))
    /\ UNCHANGED <<account, freePlans, otp, incorrect, used, kept>>

Removing(o) == {q \in Requests : At(q, "remove") /\ req[q].given = o}

(* A removal rejects, as its key is gone or Redis fails, or a mail does, or *)
(* anything else in the process that nobody waits for.                     *)
ProcessEnds ==
    /\ req' = [q \in Requests |-> Idle]
    /\ cut' = (cut \/ \E q \in Requests : At(q, "subscribe"))
    /\ kept' = kept \cup {o \in Otps : otp = o /\ Removing(o) # {}}
    /\ UNCHANGED <<account, freePlans, otp, incorrect, used>>

Next ==
    \/ \E q \in Requests :
         \/ \E google \in BOOLEAN : Login(q, google)
         \/ \E o \in Otps \cup {NoOtp} : VerifyOtp(q, o)
         \/ UserCreated(q) \/ FreePlanSubscribed(q) \/ OtpSet(q)
         \/ OtpCompared(q) \/ TriesCounted(q) \/ TriesRaised(q)
         \/ Verified(q) \/ OtpRemoved(q) \/ Abandoned(q)
    \/ OtpExpired \/ IncorrectExpired
    \/ ProcessEnds

Spec == Init /\ [][Next]_vars

-----------------------------------------------------------------------------
(* Properties                                                              *)

(* An account has one free plan, however many logins create it at once, and *)
(* lacks it only while the login that created it is still at work, or where *)
(* that one was cut short (auth/service.ts 34-46,                          *)
(* google-oauth.strategy.ts 32-46).                                        *)
FreePlanOnce ==
    account # "none" =>
        \/ freePlans = 1
        \/ freePlans = 0 /\ (cut \/ \E q \in Requests : At(q, "subscribe"))

(* However verifications overlap one another, expiry and new passwords, one *)
(* is accepted no more often than there are requests in flight at once:    *)
(* nobody who comes after its first removal has it accepted, unless a      *)
(* removal was lost (auth/service.ts 105-118).                             *)
AcceptedAtMostInFlight == \A o \in Otps \ kept : used[o] <= Cardinality(Requests)

(* Every account has its free plan once its login is done (auth/service.ts *)
(* 43).                                                                    *)
AccountHasPlan ==
    account # "none" => freePlans = 1 \/ \E q \in Requests : At(q, "subscribe")

(* A one-time password is accepted once (auth/service.ts 93, 105-118).     *)
AcceptedOnce == \A o \in Otps : used[o] <= 1

(* Wrong tries add up until they are forgotten: they do not, as a try that *)
(* was counted early may be written late (auth/service.ts 108-113).        *)
TriesAddUp == [][incorrect' >= incorrect \/ incorrect' = 0]_incorrect
=============================================================================
