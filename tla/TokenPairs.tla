----------------------------- MODULE TokenPairs -----------------------------
(***************************************************************************)
(* The access and refresh tokens of one user: AuthService.signPairToken,   *)
(* refreshToken and logout, the Google redirect, TokenService and AuthGuard*)
(* (src/modules/auth, src/modules/token).  No call reads or writes another *)
(* user's tokens.                                                          *)
(*                                                                         *)
(* A token is a signature over the user and the second it is signed in:    *)
(* pairs signed within one second are the same two strings, kept in as     *)
(* many documents.  Expiry is left out: every second here is within it.    *)
(***************************************************************************)
EXTENDS Naturals, Sequences, FiniteSets

CONSTANTS Requests,    \* bound: requests in flight at once
          MaxSecond,   \* bound: the clock
          MaxDocs,     \* bound: stored tokens of one type
          NoPair

ASSUME TokenAssumption ==
    /\ MaxSecond \in Nat /\ MaxDocs \in Nat
    /\ NoPair \notin 0..MaxSecond
    /\ IsFiniteSet(Requests)

VARIABLES
    now,      \* the clock, in seconds
    access,   \* stored access tokens, in the order they were stored
    refresh,  \* stored refresh tokens, likewise
    held,     \* the pairs that were handed to clients, by their second
    req,      \* the requests in flight
    ended,    \* history: the pairs clients held when a logout was carried out
    current   \* history: the pair that was handed out last, by a request
              \* that nothing overlapped; NoPair once another has begun

vars == <<now, access, refresh, held, req, ended, current>>

Seconds == 0..MaxSecond
Tokens == [iat : Seconds, isBlacklist : BOOLEAN]

Idle == [pc |-> "idle"]
(* alone, for the properties: no other request has been in flight since    *)
(* this one began.                                                         *)
InFlight ==
    [pc : {"revokeFirst", "revoke", "sign", "access", "refresh", "logout"},
     iat : Seconds, alone : BOOLEAN]

TypeOK ==
    /\ now \in Seconds
    /\ access \in Seq(Tokens) /\ Len(access) <= MaxDocs
    /\ refresh \in Seq(Tokens) /\ Len(refresh) <= MaxDocs
    /\ held \subseteq Seconds /\ ended \subseteq Seconds
    /\ current \in Seconds \cup {NoPair}
    /\ req \in [Requests -> InFlight \cup {Idle}]

Init ==
    /\ now = 0
    /\ access = <<>> /\ refresh = <<>>
    /\ held = {} /\ ended = {} /\ current = NoPair
    /\ req = [q \in Requests |-> Idle]

-----------------------------------------------------------------------------
(* findOne returns the first document of the collection that matches.      *)
Matches(docs, i) == {k \in DOMAIN docs : docs[k].iat = i}
Good(docs, i) ==
    \E k \in Matches(docs, i) :
        /\ \A l \in Matches(docs, i) : k <= l
        /\ ~docs[k].isBlacklist

Blacklisted(docs) ==
    [k \in DOMAIN docs |-> [docs[k] EXCEPT !.isBlacklist = TRUE]]

Fresh(i) == [iat |-> i, isBlacklist |-> FALSE]

At(q, step) == req[q].pc = step
Goto(q, step) == req' = [req EXCEPT ![q].pc = step]

Begin(q, step) ==
    /\ req[q] = Idle
    /\ req' = [p \in Requests |->
           IF p = q THEN [pc |-> step, iat |-> 0,
                          alone |-> \A o \in Requests : req[o] = Idle]
           ELSE IF req[p] = Idle THEN Idle
           ELSE [req[p] EXCEPT !.alone = FALSE]]
    /\ current' = NoPair
    /\ UNCHANGED <<now, access, refresh, held, ended>>

-----------------------------------------------------------------------------
(* Variant: the pairs signed before stay valid.                            *)
SignInBesides(q) == Begin(q, "sign")

(* The user has shown the one-time password.                               *)
SignIn(q) == Begin(q, "revoke")

(* The user comes back from Google.                                        *)
GoogleAuthRedirect(q) == Begin(q, "revoke")

RefreshToken(q, i) ==
    /\ i \in held
    /\ Good(refresh, i)
    /\ Begin(q, "revokeFirst")

(* AuthGuard has accepted the access token.                                *)
Logout(q, i) ==
    /\ i \in held
    /\ Good(access, i)
    /\ Begin(q, "logout")

(* Variant: revoked tokens are removed.                                    *)
RevokedByRemoval(q) ==
    /\ req[q].pc \in {"revokeFirst", "revoke"}
    /\ access' = <<>>
    /\ refresh' = <<>>
    /\ Goto(q, IF At(q, "revokeFirst") THEN "revoke" ELSE "sign")
    /\ UNCHANGED <<now, held, ended, current>>

(* Variant: an update without multi: one document per type.                *)
RevokedFirstOnly(q) ==
    /\ req[q].pc \in {"revokeFirst", "revoke"}
    /\ access' = [k \in DOMAIN access |->
           IF k = 1 THEN Blacklisted(access)[k] ELSE access[k]]
    /\ refresh' = [k \in DOMAIN refresh |->
           IF k = 1 THEN Blacklisted(refresh)[k] ELSE refresh[k]]
    /\ Goto(q, IF At(q, "revokeFirst") THEN "revoke" ELSE "sign")
    /\ UNCHANGED <<now, held, ended, current>>

Revoked(q) ==
    /\ req[q].pc \in {"revokeFirst", "revoke"}
    /\ access' = Blacklisted(access)
    /\ refresh' = Blacklisted(refresh)
    /\ Goto(q, IF At(q, "revokeFirst") THEN "revoke" ELSE "sign")
    /\ UNCHANGED <<now, held, ended, current>>

Signed(q) ==
    /\ At(q, "sign")
    /\ req' = [req EXCEPT ![q].pc = "access", ![q].iat = now]
    /\ UNCHANGED <<now, access, refresh, held, ended, current>>

AccessSaved(q) ==
    /\ At(q, "access")
    /\ Len(access) < MaxDocs
    /\ access' = Append(access, Fresh(req[q].iat))
    /\ Goto(q, "refresh")
    /\ UNCHANGED <<now, refresh, held, ended, current>>

(* The client is given the pair, in cookies and in the reply.              *)
HandedOut(q) ==
    /\ held' = held \cup {req[q].iat}
    /\ current' = IF req[q].alone THEN req[q].iat ELSE NoPair
    /\ req' = [req EXCEPT ![q] = Idle]

(* Variant: what was stored before is revoked at the end, this pair too.   *)
RefreshSavedThenRevoked(q) ==
    /\ At(q, "refresh")
    /\ access' = Blacklisted(access)
    /\ refresh' = Blacklisted(Append(refresh, Fresh(req[q].iat)))
    /\ HandedOut(q)
    /\ UNCHANGED <<now, ended>>

RefreshSaved(q) ==
    /\ At(q, "refresh")
    /\ refresh' = Append(refresh, Fresh(req[q].iat))
    /\ HandedOut(q)
    /\ UNCHANGED <<now, access, ended>>

(* Variant: access tokens only are revoked.                                *)
LoggedOutOfAccess(q) ==
    /\ At(q, "logout")
    /\ access' = Blacklisted(access)
    /\ ended' = ended \cup held
    /\ req' = [req EXCEPT ![q] = Idle]
    /\ UNCHANGED <<now, refresh, held, current>>

LoggedOut(q) ==
    /\ At(q, "logout")
    /\ access' = Blacklisted(access)
    /\ refresh' = Blacklisted(refresh)
    /\ ended' = ended \cup held
    /\ req' = [req EXCEPT ![q] = Idle]
    /\ UNCHANGED <<now, held, current>>

(* A call fails: a revocation, a logout's too, or before or between the two *)
(* tokens.                                                                 *)
Abandoned(q) ==
    /\ req[q].pc \in {"revokeFirst", "revoke", "access", "refresh", "logout"}
    /\ req' = [req EXCEPT ![q] = Idle]
    /\ UNCHANGED <<now, access, refresh, held, ended, current>>

Tick ==
    /\ now < MaxSecond
    /\ now' = now + 1
    /\ UNCHANGED <<access, refresh, held, ended, current, req>>

Next ==
    \/ Tick
    \/ \E q \in Requests :
         \/ SignIn(q) \/ GoogleAuthRedirect(q)
         \/ \E i \in Seconds : RefreshToken(q, i) \/ Logout(q, i)
         \/ Revoked(q) \/ Signed(q) \/ AccessSaved(q) \/ RefreshSaved(q)
         \/ LoggedOut(q) \/ Abandoned(q)

Spec == Init /\ [][Next]_vars

-----------------------------------------------------------------------------
(* Properties                                                              *)

(* A token that the server has revoked is never accepted again, although   *)
(* the same string may be signed and stored once more in its second        *)
(* (token/service.ts 31-36, 48-62).                                        *)
DeadStaysDead ==
    [][\A i \in held : /\ ~Good(access, i) => ~Good(access', i)
                       /\ ~Good(refresh, i) => ~Good(refresh', i)]_vars

(* A pair that a client held when a logout was carried out is never        *)
(* accepted again, whatever sign-ins and refreshes overlap the logout or   *)
(* sign and store the same strings after it (auth/service.ts 56-58).       *)
LoggedOutStaysOut ==
    \A i \in ended : ~Good(access, i) /\ ~Good(refresh, i)

Unrevoked(docs) == {k \in DOMAIN docs : ~docs[k].isBlacklist}

(* Sign-ins and refreshes that overlap leave as many valid refresh tokens  *)
(* as they were, and no more build up (auth/service.ts 53, 64, 74-75).     *)
ValidAtMostInFlight ==
    Cardinality(Unrevoked(refresh)) <= Cardinality(Requests)

(* A pair handed out by a request that nothing overlapped is accepted until *)
(* the next request begins, if no other pair was signed in its second, and *)
(* there is no other, whatever overlapped or failed before (auth/service.ts *)
(* 64-79).                                                                 *)
PairWorks ==
    current # NoPair /\ Cardinality(Matches(access, current)) = 1 =>
        Good(access, current) /\ Good(refresh, current)
OnlyPair ==
    current # NoPair =>
        /\ Cardinality(Unrevoked(access)) = 1
        /\ Cardinality(Unrevoked(refresh)) = 1

(* The same whatever was signed in the second of the pair                  *)
(* (auth/controller.ts 117).                                               *)
PairWorksAtOnce ==
    current # NoPair => Good(access, current) /\ Good(refresh, current)
=============================================================================
