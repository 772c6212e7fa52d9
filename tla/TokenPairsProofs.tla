------------------------- MODULE TokenPairsProofs -------------------------
(***************************************************************************)
(* What holds of a user's tokens for any number of requests in flight,     *)
(* stored tokens and seconds: that revoked tokens stay dead, what was held *)
(* at a logout included, and what a request that nothing overlapped leaves. *)
(***************************************************************************)
EXTENDS TokenPairs, FiniteSetTheorems, TLAPS

-----------------------------------------------------------------------------
(* Documents                                                               *)

Docs == Seq(Tokens)

(* Revoking keeps every document in its place and its second.              *)
LEMMA RevokeDocs ==
    ASSUME NEW docs \in Docs
    PROVE  /\ Blacklisted(docs) \in Docs
           /\ Len(Blacklisted(docs)) = Len(docs)
           /\ Unrevoked(Blacklisted(docs)) = {}
           /\ \A i \in Seconds :
                 /\ Matches(Blacklisted(docs), i) = Matches(docs, i)
                 /\ ~Good(Blacklisted(docs), i)
  <1>0. \A k \in DOMAIN docs : docs[k] \in Tokens
    BY DEF Docs
  <1>1. /\ Blacklisted(docs) \in Docs
        /\ Len(Blacklisted(docs)) = Len(docs)
        /\ DOMAIN Blacklisted(docs) = DOMAIN docs
    <2>1. \A k \in DOMAIN docs :
            [docs[k] EXCEPT !.isBlacklist = TRUE] \in Tokens
      BY <1>0 DEF Tokens
    <2> QED  BY <2>1 DEF Blacklisted, Docs
  <1>2. \A k \in DOMAIN docs : /\ Blacklisted(docs)[k].iat = docs[k].iat
                               /\ Blacklisted(docs)[k].isBlacklist
    BY <1>0 DEF Blacklisted, Tokens
  <1> QED  BY <1>1, <1>2 DEF Unrevoked, Matches, Good

(* Storing a token adds one document at the end; a token that was stored   *)
(* before is as good as it was.                                            *)
LEMMA StoreDocs ==
    ASSUME NEW docs \in Docs, NEW i \in Seconds
    PROVE  LET after == Append(docs, Fresh(i))
               new == Len(docs) + 1
           IN  /\ after \in Docs
               /\ Len(after) = new
               /\ new \notin DOMAIN docs
               /\ Unrevoked(after) = Unrevoked(docs) \cup {new}
               /\ Matches(after, i) = Matches(docs, i) \cup {new}
               /\ \A j \in Seconds \ {i} : Matches(after, j) = Matches(docs, j)
               /\ \A j \in Seconds :
                     Matches(docs, j) # {} => Good(after, j) = Good(docs, j)
  <1> DEFINE after == Append(docs, Fresh(i))
             new == Len(docs) + 1
  <1>1. Fresh(i) \in Tokens /\ Fresh(i).iat = i /\ ~Fresh(i).isBlacklist
    BY DEF Fresh, Tokens
  <1>2. /\ after \in Docs
        /\ Len(after) = new
        /\ new \notin DOMAIN docs
        /\ DOMAIN after = DOMAIN docs \cup {new}
        /\ after[new] = Fresh(i)
        /\ \A k \in DOMAIN docs : after[k] = docs[k] /\ k <= new /\ ~(new <= k)
    BY <1>1 DEF Docs
  <1> HIDE DEF after, new
  <1>3. Unrevoked(after) = Unrevoked(docs) \cup {new}
    BY <1>1, <1>2 DEF Unrevoked
  <1>4. /\ Matches(after, i) = Matches(docs, i) \cup {new}
        /\ \A j \in Seconds \ {i} : Matches(after, j) = Matches(docs, j)
    BY <1>1, <1>2 DEF Matches
  <1>5. ASSUME NEW j \in Seconds, Matches(docs, j) # {}
        PROVE  Good(after, j) = Good(docs, j)
    <2>1. Matches(after, j) \in {Matches(docs, j), Matches(docs, j) \cup {new}}
      BY <1>4
    <2>2. \A k \in Matches(docs, j) : /\ k \in DOMAIN docs
                                      /\ after[k] = docs[k]
                                      /\ k <= new /\ ~(new <= k)
      BY <1>2 DEF Matches
    <2>3. Good(docs, j) => Good(after, j)
      BY <2>1, <2>2 DEF Good
    <2>4. Good(after, j) => Good(docs, j)
      <3>1. SUFFICES ASSUME Good(after, j) PROVE Good(docs, j)
        OBVIOUS
      <3>2. PICK k \in Matches(after, j) :
              /\ \A l \in Matches(after, j) : k <= l
              /\ ~after[k].isBlacklist
        BY <3>1 DEF Good
      <3>3. k # new
        BY <3>2, <2>1, <2>2, <1>5
      <3>4. k \in Matches(docs, j)
        BY <3>3, <2>1
      <3> QED  BY <3>2, <3>4, <2>1, <2>2 DEF Good
    <2> QED  BY <2>3, <2>4 DEF Good
  <1> QED  BY <1>2, <1>3, <1>4, <1>5 DEF after, new

(* What is stored and refused is refused after any of the changes to the   *)
(* collection.                                                             *)
LEMMA RefusedDocs ==
    ASSUME NEW docs \in Docs, NEW after, NEW i \in Seconds,
           Matches(docs, i) # {}, ~Good(docs, i),
           \/ after \in {docs, Blacklisted(docs)}
           \/ \E j \in Seconds : after = Append(docs, Fresh(j))
    PROVE  ~Good(after, i)
  <1>1. ASSUME NEW j \in Seconds
        PROVE  ~Good(Append(docs, Fresh(j)), i)
    BY StoreDocs
  <1>2. ~Good(Blacklisted(docs), i)
    BY RevokeDocs
  <1> QED  BY <1>1, <1>2

-----------------------------------------------------------------------------
(* Typing                                                                  *)

Steps == {"revokeFirst", "revoke", "sign", "access", "refresh", "logout"}

(* TypeOK but for the number of refresh tokens, which no step looks at: it *)
(* follows that of access tokens (Paired, below).                          *)
Typed ==
    /\ now \in Seconds
    /\ access \in Docs /\ Len(access) <= MaxDocs
    /\ refresh \in Docs
    /\ held \subseteq Seconds /\ ended \subseteq Seconds
    /\ current \in Seconds \cup {NoPair}
    /\ req \in [Requests -> InFlight \cup {Idle}]

LEMMA TypeInit == Init => Typed
  BY TokenAssumption DEF Init, Typed, Docs, Seconds

(* A request in flight has the fields of one.                              *)
LEMMA InFlightType ==
    ASSUME Typed, NEW q \in Requests, req[q].pc # "idle"
    PROVE  /\ req[q] \in InFlight
           /\ req[q].pc \in Steps
           /\ req[q].iat \in Seconds
           /\ req[q].alone \in BOOLEAN
  BY DEF Typed, Idle, InFlight, Steps

(* A request that is not idle is in flight.                                *)
LEMMA IdleOrNot ==
    ASSUME Typed, NEW q \in Requests
    PROVE  (req[q] = Idle) <=> (req[q].pc = "idle")
  BY DEF Typed, Idle, InFlight

(* Moving on changes the step of one request and nothing else of any.      *)
LEMMA GotoShape ==
    ASSUME Typed, NEW q \in Requests, req[q].pc # "idle",
           NEW step \in Steps, Goto(q, step)
    PROVE  /\ req' \in [Requests -> InFlight \cup {Idle}]
           /\ \A p \in Requests \ {q} : req'[p] = req[p]
           /\ req'[q].pc = step
           /\ req'[q].iat = req[q].iat
           /\ req'[q].alone = req[q].alone
  <1>1. req[q] \in InFlight
    BY InFlightType
  <1>2. [req[q] EXCEPT !.pc = step] \in InFlight
    BY <1>1 DEF InFlight, Steps
  <1>3. req' = [req EXCEPT ![q] = [req[q] EXCEPT !.pc = step]]
    BY DEF Goto, Typed
  <1> QED  BY <1>1, <1>2, <1>3 DEF Typed, InFlight

(* Every request begins in one of three ways.                              *)
LEMMA BeginShape ==
    ASSUME Typed, NEW q \in Requests, NEW step \in Steps, Begin(q, step)
    PROVE  /\ req' \in [Requests -> InFlight \cup {Idle}]
           /\ req'[q].pc = step
           /\ req'[q].alone = (\A o \in Requests : req[o] = Idle)
           /\ \A p \in Requests \ {q} :
                 /\ req'[p].pc = req[p].pc
                 /\ req[p].pc # "idle" => /\ req'[p].iat = req[p].iat
                                          /\ ~req'[p].alone
           /\ current' = NoPair
           /\ UNCHANGED <<now, access, refresh, held, ended>>
  <1> DEFINE fresh == [pc |-> step, iat |-> 0,
                       alone |-> \A o \in Requests : req[o] = Idle]
  <1>1. fresh \in InFlight
    BY TokenAssumption DEF Typed, InFlight, Steps, Seconds
  <1>2. \A p \in Requests : req[p] # Idle =>
            /\ [req[p] EXCEPT !.alone = FALSE] \in InFlight
            /\ [req[p] EXCEPT !.alone = FALSE].pc = req[p].pc
            /\ [req[p] EXCEPT !.alone = FALSE].iat = req[p].iat
            /\ ~[req[p] EXCEPT !.alone = FALSE].alone
    BY DEF Typed, InFlight
  <1>3. /\ req'[q] = fresh
        /\ \A p \in Requests \ {q} :
              req'[p] = IF req[p] = Idle THEN Idle
                        ELSE [req[p] EXCEPT !.alone = FALSE]
        /\ req' = [p \in Requests |-> req'[p]]
    BY DEF Begin
  <1>4. fresh.pc = step /\ fresh.alone = (\A o \in Requests : req[o] = Idle)
    OBVIOUS
  <1> HIDE DEF fresh
  <1> QED  BY <1>1, <1>2, <1>3, <1>4, IdleOrNot DEF Begin, Idle

(* Which requests begin, for the proofs that do not tell them apart.       *)
Begins(q) == \E step \in {"revokeFirst", "revoke", "logout"} : Begin(q, step)

(* Every step is of one of these kinds.                                    *)
LEMMA NextKinds ==
    ASSUME Next
    PROVE  \/ Tick
           \/ \E q \in Requests :
                \/ Begins(q) \/ Revoked(q) \/ Signed(q) \/ AccessSaved(q)
                \/ RefreshSaved(q) \/ LoggedOut(q) \/ Abandoned(q)
  BY DEF Next, Begins, SignIn, GoogleAuthRedirect, RefreshToken, Logout

(* Every step keeps the type.                                              *)
LEMMA TypeStep == Typed /\ [Next]_vars => Typed'
  <1> SUFFICES ASSUME Typed, [Next]_vars PROVE Typed'
    OBVIOUS
  <1> USE TokenAssumption
  <1>1. CASE UNCHANGED vars
    BY <1>1 DEF vars, Typed
  <1>2. CASE Tick
    BY <1>2 DEF Tick, Typed, Seconds
  <1>3. ASSUME NEW q \in Requests, Begins(q) PROVE Typed'
    BY <1>3, BeginShape DEF Begins, Steps, Typed
  <1>4. ASSUME NEW q \in Requests, Revoked(q) PROVE Typed'
    <2>1. \E step \in Steps : Goto(q, step)
      BY <1>4 DEF Revoked, Steps
    <2>2. req[q].pc # "idle"
      BY <1>4 DEF Revoked
    <2>3. req' \in [Requests -> InFlight \cup {Idle}]
      BY <2>1, <2>2, GotoShape
    <2> QED  BY <1>4, <2>3, RevokeDocs DEF Revoked, Typed
  <1>5. ASSUME NEW q \in Requests, Signed(q) PROVE Typed'
    <2>1. req[q] \in InFlight
      BY <1>5, InFlightType DEF Signed, At
    <2>2. [req[q] EXCEPT !.pc = "access", !.iat = now] \in InFlight
      BY <2>1 DEF InFlight, Typed
    <2> QED  BY <1>5, <2>2 DEF Signed, Typed
  <1>6. ASSUME NEW q \in Requests, AccessSaved(q) PROVE Typed'
    <2>1. req[q].pc # "idle" /\ req[q].iat \in Seconds
      BY <1>6, InFlightType DEF AccessSaved, At
    <2>2. req' \in [Requests -> InFlight \cup {Idle}]
      BY <1>6, <2>1, GotoShape DEF AccessSaved, Steps
    <2>3. access' \in Docs /\ Len(access') = Len(access) + 1
      BY <1>6, <2>1, StoreDocs DEF AccessSaved, Typed
    <2>4. Len(access) < MaxDocs /\ Len(access) \in Nat
      BY <1>6 DEF AccessSaved, Typed, Docs
    <2> QED  BY <1>6, <2>2, <2>3, <2>4 DEF AccessSaved, Typed
  <1>7. ASSUME NEW q \in Requests, RefreshSaved(q) PROVE Typed'
    <2>1. req[q].pc # "idle" /\ req[q].iat \in Seconds
      BY <1>7, InFlightType DEF RefreshSaved, At
    <2> QED  BY <1>7, <2>1, StoreDocs DEF RefreshSaved, HandedOut, Typed
  <1>8. ASSUME NEW q \in Requests, LoggedOut(q) PROVE Typed'
    BY <1>8, RevokeDocs DEF LoggedOut, Typed
  <1>9. ASSUME NEW q \in Requests, Abandoned(q) PROVE Typed'
    BY <1>9 DEF Abandoned, Typed
  <1> QED
    BY <1>1, <1>2, <1>3, <1>4, <1>5, <1>6, <1>7, <1>8, <1>9, NextKinds

(* Counting                                                                *)

Storing == {q \in Requests : At(q, "refresh")}
StoringOf(i) == {q \in Storing : req[q].iat = i}
Signing == {q \in Requests : req[q].pc \in {"sign", "access", "refresh"}}

(* Every refresh token that is stored or about to be has an access token   *)
(* that was stored before it, and one of its second.                       *)
Paired ==
    /\ Len(refresh) + Cardinality(Storing) <= Len(access)
    /\ \A i \in Seconds :
          Cardinality(Matches(refresh, i)) + Cardinality(StoringOf(i))
              <= Cardinality(Matches(access, i))

(* A request has revoked since it stored a valid refresh token, if it is   *)
(* about to store another.                                                 *)
OneEach ==
    Cardinality(Unrevoked(refresh)) + Cardinality(Signing)
        <= Cardinality(Requests)

HeldStored == \A i \in held : Matches(refresh, i) # {}

(* The last document is the only valid one.                                *)
Newest(docs, i) ==
    /\ Len(docs) > 0
    /\ docs[Len(docs)].iat = i
    /\ Unrevoked(docs) = {Len(docs)}

(* What a request that nothing overlaps has done so far.                   *)
AloneLeaves(q) ==
    /\ \A p \in Requests \ {q} : req[p].pc = "idle"
    /\ req[q].pc \in {"sign", "access"} =>
          Unrevoked(access) = {} /\ Unrevoked(refresh) = {}
    /\ req[q].pc = "refresh" =>
          Newest(access, req[q].iat) /\ Unrevoked(refresh) = {}

Undisturbed ==
    /\ \A q \in Requests :
          req[q].pc # "idle" => (req[q].alone => AloneLeaves(q))
    /\ current # NoPair =>
          /\ \A p \in Requests : req[p].pc = "idle"
          /\ Newest(access, current)
          /\ Newest(refresh, current)

IInv == Typed /\ Paired /\ OneEach /\ HeldStored /\ Undisturbed

-----------------------------------------------------------------------------
(* The size of a set that gains or loses a member, and of a part of one.   *)
LEMMA Insert ==
    ASSUME NEW S, IsFiniteSet(S), NEW x, x \notin S
    PROVE  /\ IsFiniteSet(S \cup {x})
           /\ Cardinality(S) \in Nat
           /\ Cardinality(S \cup {x}) = Cardinality(S) + 1
  BY FS_AddElement, FS_CardinalityType

LEMMA Delete ==
    ASSUME NEW S, IsFiniteSet(S), NEW x \in S
    PROVE  /\ Cardinality(S) \in Nat
           /\ Cardinality(S \ {x}) \in Nat
           /\ Cardinality(S) = Cardinality(S \ {x}) + 1
  <1>1. /\ IsFiniteSet(S \ {x})
        /\ Cardinality(S \ {x}) = Cardinality(S) - 1
    BY FS_RemoveElement
  <1>2. Cardinality(S) \in Nat /\ Cardinality(S \ {x}) \in Nat
    BY <1>1, FS_CardinalityType
  <1> QED  BY <1>1, <1>2

LEMMA Part ==
    ASSUME NEW S, IsFiniteSet(S), NEW T, T \subseteq S
    PROVE  /\ IsFiniteSet(T)
           /\ Cardinality(T) \in Nat /\ Cardinality(S) \in Nat
           /\ Cardinality(T) <= Cardinality(S)
  BY FS_Subset, FS_CardinalityType

(* The sets that are counted are finite.                                   *)
LEMMA Finite ==
    ASSUME Typed
    PROVE  /\ Len(access) \in Nat /\ Len(refresh) \in Nat
           /\ \A T \in SUBSET Requests :
                 IsFiniteSet(T) /\ Cardinality(T) \in Nat
           /\ IsFiniteSet(Unrevoked(refresh))
           /\ Cardinality(Unrevoked(refresh)) \in Nat
           /\ \A i \in Seconds :
                 /\ IsFiniteSet(Matches(access, i))
                 /\ IsFiniteSet(Matches(refresh, i))
                 /\ Cardinality(Matches(access, i)) \in Nat
                 /\ Cardinality(Matches(refresh, i)) \in Nat
  <1>1. \A docs \in Docs : Len(docs) \in Nat /\ IsFiniteSet(DOMAIN docs)
    <2>1. ASSUME NEW docs \in Docs
          PROVE  Len(docs) \in Nat /\ DOMAIN docs = 1..Len(docs)
      BY DEF Docs
    <2> QED  BY <2>1, FS_Interval
  <1>2. \A docs \in Docs : /\ Unrevoked(docs) \subseteq DOMAIN docs
                           /\ \A i \in Seconds :
                                 Matches(docs, i) \subseteq DOMAIN docs
    BY DEF Unrevoked, Matches
  <1>3. access \in Docs /\ refresh \in Docs
    BY DEF Typed
  <1>4. \A T \in SUBSET Requests : IsFiniteSet(T)
    BY TokenAssumption, FS_Subset
  <1>5. /\ IsFiniteSet(Unrevoked(refresh))
        /\ \A i \in Seconds : /\ IsFiniteSet(Matches(access, i))
                              /\ IsFiniteSet(Matches(refresh, i))
    BY <1>1, <1>2, <1>3, FS_Subset
  <1> QED  BY <1>1, <1>3, <1>4, <1>5, FS_CardinalityType

LEMMA InvInit == Init => IInv
  <1> SUFFICES ASSUME Init PROVE IInv
    OBVIOUS
  <1>1. Typed
    BY TypeInit
  <1>2. /\ Len(access) = 0 /\ Len(refresh) = 0
        /\ Unrevoked(refresh) = {}
        /\ \A i \in Seconds : Matches(access, i) = {} /\ Matches(refresh, i) = {}
        /\ Storing = {} /\ Signing = {}
        /\ \A i \in Seconds : StoringOf(i) = {}
    BY DEF Init, Unrevoked, Matches, Storing, StoringOf, Signing, At, Idle
  <1>3. Cardinality({}) = 0 /\ Cardinality(Requests) \in Nat
    BY TokenAssumption, FS_EmptySet, FS_CardinalityType
  <1>4. Paired /\ OneEach
    <2>1. Cardinality(Storing) = 0 /\ Cardinality(Signing) = 0
      BY <1>2, <1>3
    <2>2. Cardinality(Unrevoked(refresh)) = 0
      BY <1>2, <1>3
    <2>3. \A i \in Seconds : /\ Cardinality(Matches(refresh, i)) = 0
                             /\ Cardinality(Matches(access, i)) = 0
                             /\ Cardinality(StoringOf(i)) = 0
      BY <1>2, <1>3
    <2> QED  BY <1>2, <1>3, <2>1, <2>2, <2>3 DEF Paired, OneEach
  <1>5. HeldStored /\ Undisturbed
    BY DEF Init, HeldStored, Undisturbed, Idle
  <1> QED  BY <1>1, <1>4, <1>5 DEF IInv

(* A step that neither stores a token nor lets a request reach the step    *)
(* before it, and gets a request to "sign" only by revoking, keeps count.  *)
LEMMA SameCount ==
    ASSUME IInv, Typed',
           Len(access') = Len(access), Len(refresh') = Len(refresh),
           \A i \in Seconds : /\ Matches(access', i) = Matches(access, i)
                              /\ Matches(refresh', i) = Matches(refresh, i),
           Storing' \subseteq Storing,
           \A q \in Storing' : req'[q].iat = req[q].iat,
           \/ Unrevoked(refresh') = {}
           \/ Unrevoked(refresh') = Unrevoked(refresh) /\ Signing' \subseteq Signing
    PROVE  Paired' /\ OneEach'
  <1> USE DEF IInv
  <1>1. /\ Storing \in SUBSET Requests /\ Signing \in SUBSET Requests
        /\ \A i \in Seconds : StoringOf(i) \in SUBSET Requests
        /\ Storing' \in SUBSET Requests /\ Signing' \in SUBSET Requests
    BY DEF Storing, StoringOf, Signing
  <1>2. Cardinality(Storing') <= Cardinality(Storing)
    BY <1>1, Finite, Part
  <1>3. \A i \in Seconds : /\ StoringOf(i)' \subseteq StoringOf(i)
                           /\ StoringOf(i)' \in SUBSET Requests
    BY DEF StoringOf, Storing
  <1>4. \A i \in Seconds :
            Cardinality(StoringOf(i)') <= Cardinality(StoringOf(i))
    BY <1>1, <1>3, Finite, Part
  <1>5. Len(refresh') + Cardinality(Storing') <= Len(access')
    BY <1>1, <1>2, Finite DEF Paired
  <1>6. ASSUME NEW i \in Seconds
        PROVE  Cardinality(Matches(refresh', i)) + Cardinality(StoringOf(i)')
                   <= Cardinality(Matches(access', i))
    BY <1>1, <1>3, <1>4, Finite DEF Paired
  <1>7. Paired'
    BY <1>5, <1>6 DEF Paired
  <1>8. OneEach'
    <2>1. CASE Unrevoked(refresh') = {}
      <3>1. Cardinality(Signing') <= Cardinality(Requests)
        BY <1>1, TokenAssumption, Part
      <3> QED  BY <1>1, <2>1, <3>1, Finite, FS_EmptySet DEF OneEach
    <2>2. CASE Unrevoked(refresh') = Unrevoked(refresh) /\ Signing' \subseteq Signing
      <3>1. Cardinality(Signing') <= Cardinality(Signing)
        BY <1>1, <2>2, Finite, Part
      <3>2. Cardinality(Requests) \in Nat
        BY Finite
      <3> QED  BY <1>1, <2>2, <3>1, <3>2, Finite DEF OneEach
    <2> QED  BY <2>1, <2>2
  <1> QED  BY <1>7, <1>8

(* A request that goes from one step to another of the same kind, or ends. *)
LEMMA StepStoring ==
    ASSUME NEW q \in Requests,
           \A p \in Requests \ {q} : req'[p].pc = req[p].pc
                                     /\ (req[p].pc # "idle" => req'[p].iat = req[p].iat),
           req'[q].pc # "refresh"
    PROVE  /\ Storing' = Storing \ {q}
           /\ \A p \in Storing' : req'[p].iat = req[p].iat
  BY DEF Storing, At

(* Every step keeps the counts.                                            *)
LEMMA CountStep == IInv /\ Typed' /\ [Next]_vars => Paired' /\ OneEach'
  <1> SUFFICES ASSUME IInv, Typed', [Next]_vars PROVE Paired' /\ OneEach'
    OBVIOUS
  <1>0. Typed
    BY DEF IInv
  <1>1. CASE UNCHANGED vars
    BY <1>1, SameCount DEF vars, Storing, Signing, At
  <1>2. CASE Tick
    BY <1>2, SameCount DEF Tick, Storing, Signing, At
  <1>3. ASSUME NEW q \in Requests, Begins(q) PROVE Paired' /\ OneEach'
    <2>1. PICK step \in {"revokeFirst", "revoke", "logout"} : Begin(q, step)
      BY <1>3 DEF Begins
    <2>2. /\ req'[q].pc = step
          /\ \A p \in Requests \ {q} :
                 /\ req'[p].pc = req[p].pc
                 /\ req[p].pc # "idle" => req'[p].iat = req[p].iat
          /\ UNCHANGED <<access, refresh>>
      BY <1>0, <2>1, BeginShape DEF Steps
    <2>3. Storing' \subseteq Storing /\ \A p \in Storing' : req'[p].iat = req[p].iat
      BY <2>2, StepStoring
    <2>4. Signing' \subseteq Signing
      BY <2>2 DEF Signing
    <2> QED  BY <2>2, <2>3, <2>4, SameCount
  <1>4. ASSUME NEW q \in Requests, Revoked(q) PROVE Paired' /\ OneEach'
    <2>1. PICK step \in {"revoke", "sign"} : Goto(q, step)
      BY <1>4 DEF Revoked
    <2>2. /\ req'[q].pc = step
          /\ \A p \in Requests \ {q} : req'[p] = req[p]
      BY <1>0, <1>4, <2>1, GotoShape DEF Revoked, Steps
    <2>3. Storing' \subseteq Storing /\ \A p \in Storing' : req'[p].iat = req[p].iat
      BY <2>2, StepStoring
    <2> QED  BY <1>0, <1>4, <2>3, RevokeDocs, SameCount DEF Revoked, Typed
  <1>5. ASSUME NEW q \in Requests, Signed(q) PROVE Paired' /\ OneEach'
    <2>1. req[q] \in InFlight
      BY <1>0, <1>5, InFlightType DEF Signed, At
    <2>2. /\ req'[q].pc = "access"
          /\ \A p \in Requests \ {q} : req'[p] = req[p]
      BY <1>0, <1>5, <2>1 DEF Signed, Typed, InFlight
    <2>3. Storing' \subseteq Storing /\ \A p \in Storing' : req'[p].iat = req[p].iat
      BY <2>2, StepStoring
    <2>4. Signing' \subseteq Signing
      BY <1>5, <2>2 DEF Signing, Signed, At
    <2> QED  BY <1>5, <2>3, <2>4, SameCount DEF Signed
  <1>6. ASSUME NEW q \in Requests, AccessSaved(q) PROVE Paired' /\ OneEach'
    <2> DEFINE new == Len(access) + 1
    <2>0. PICK i \in Seconds : req[q].iat = i
      BY <1>0, <1>6, InFlightType DEF AccessSaved, At
    <2>1. req[q].pc = "access" /\ req[q].iat = i
      BY <1>6, <2>0 DEF AccessSaved, At
    <2>2. /\ req'[q].pc = "refresh" /\ req'[q].iat = i
          /\ \A p \in Requests \ {q} : req'[p] = req[p]
      BY <1>0, <1>6, <2>1, GotoShape DEF AccessSaved, Steps
    <2>3. /\ Len(access') = new /\ new \notin DOMAIN access
          /\ Matches(access', i) = Matches(access, i) \cup {new}
          /\ \A j \in Seconds \ {i} : Matches(access', j) = Matches(access, j)
          /\ refresh' = refresh
      <3>1. /\ access' = Append(access, Fresh(i)) /\ refresh' = refresh
            /\ access \in Docs
        BY <1>0, <1>6, <2>1 DEF AccessSaved, Typed
      <3> QED  BY <3>1, StoreDocs
    <2>4. /\ Storing' = Storing \cup {q} /\ q \notin Storing
          /\ StoringOf(i)' = StoringOf(i) \cup {q} /\ q \notin StoringOf(i)
          /\ \A j \in Seconds \ {i} : StoringOf(j)' = StoringOf(j)
          /\ Signing' = Signing
      BY <2>1, <2>2 DEF Storing, StoringOf, Signing, At
    <2>5. new \notin Matches(access, i)
      BY <2>3 DEF Matches
    <2>6. /\ Storing \in SUBSET Requests /\ Signing \in SUBSET Requests
          /\ \A j \in Seconds : StoringOf(j) \in SUBSET Requests
      BY DEF Storing, StoringOf, Signing
    <2>7. Cardinality(Storing') = Cardinality(Storing) + 1
      BY <1>0, <2>4, <2>6, Finite, Insert
    <2>8. /\ Cardinality(StoringOf(i)') = Cardinality(StoringOf(i)) + 1
          /\ Cardinality(Matches(access', i)) = Cardinality(Matches(access, i)) + 1
      BY <1>0, <2>1, <2>3, <2>4, <2>5, <2>6, Finite, Insert
    <2> HIDE DEF new
    <2>9. Len(refresh') + Cardinality(Storing') <= Len(access')
      BY <1>0, <2>3, <2>6, <2>7, Finite DEF IInv, Paired, new
    <2>10. ASSUME NEW j \in Seconds
           PROVE  Cardinality(Matches(refresh', j)) + Cardinality(StoringOf(j)')
                      <= Cardinality(Matches(access', j))
      <3>1. Cardinality(Matches(refresh, j)) + Cardinality(StoringOf(j))
                <= Cardinality(Matches(access, j))
        BY DEF IInv, Paired
      <3>2. CASE j = i
        <4>1. Cardinality(Matches(refresh, i)) + Cardinality(StoringOf(i))
                  <= Cardinality(Matches(access, i))
          BY DEF IInv, Paired
        <4>2. Cardinality(Matches(refresh', i)) + Cardinality(StoringOf(i)')
                  <= Cardinality(Matches(access', i))
          BY <1>0, <2>3, <2>6, <2>8, <4>1, Finite
        <4> QED  BY <3>2, <4>2
      <3>3. CASE j # i
        BY <2>3, <2>4, <3>1, <3>3
      <3> QED  BY <3>2, <3>3
    <2> QED  BY <2>3, <2>4, <2>9, <2>10 DEF IInv, Paired, OneEach
  <1>7. ASSUME NEW q \in Requests, RefreshSaved(q) PROVE Paired' /\ OneEach'
    <2> DEFINE new == Len(refresh) + 1
    <2>0. PICK i \in Seconds : req[q].iat = i
      BY <1>0, <1>7, InFlightType DEF RefreshSaved, At
    <2>1. req[q].pc = "refresh" /\ req[q].iat = i
      BY <1>7, <2>0 DEF RefreshSaved, At
    <2>2. /\ req'[q].pc = "idle"
          /\ \A p \in Requests \ {q} : req'[p] = req[p]
      BY <1>0, <1>7 DEF RefreshSaved, HandedOut, Typed, Idle
    <2>3. /\ Len(refresh') = new /\ new \notin DOMAIN refresh
          /\ Matches(refresh', i) = Matches(refresh, i) \cup {new}
          /\ \A j \in Seconds \ {i} : Matches(refresh', j) = Matches(refresh, j)
          /\ Unrevoked(refresh') = Unrevoked(refresh) \cup {new}
          /\ access' = access
      <3>1. /\ refresh' = Append(refresh, Fresh(i)) /\ access' = access
            /\ refresh \in Docs
        BY <1>0, <1>7, <2>1 DEF RefreshSaved, Typed
      <3> QED  BY <3>1, StoreDocs
    <2>4. /\ Storing' = Storing \ {q} /\ q \in Storing
          /\ StoringOf(i)' = StoringOf(i) \ {q} /\ q \in StoringOf(i)
          /\ \A j \in Seconds \ {i} : StoringOf(j)' = StoringOf(j)
          /\ Signing' = Signing \ {q} /\ q \in Signing
      BY <2>1, <2>2 DEF Storing, StoringOf, Signing, At
    <2>5. new \notin Matches(refresh, i) /\ new \notin Unrevoked(refresh)
      BY <2>3 DEF Matches, Unrevoked
    <2>6. /\ Storing \in SUBSET Requests /\ Signing \in SUBSET Requests
          /\ \A j \in Seconds : StoringOf(j) \in SUBSET Requests
      BY DEF Storing, StoringOf, Signing
    <2>7. /\ Cardinality(Storing) = Cardinality(Storing') + 1
          /\ Cardinality(Signing) = Cardinality(Signing') + 1
          /\ Cardinality(StoringOf(i)) = Cardinality(StoringOf(i)') + 1
          /\ Cardinality(Storing') \in Nat
          /\ Cardinality(Signing') \in Nat
          /\ Cardinality(StoringOf(i)') \in Nat
      BY <1>0, <2>1, <2>4, <2>6, Finite, Delete
    <2>8. /\ Cardinality(Matches(refresh', i)) = Cardinality(Matches(refresh, i)) + 1
          /\ Cardinality(Unrevoked(refresh')) = Cardinality(Unrevoked(refresh)) + 1
      BY <1>0, <2>1, <2>3, <2>5, Finite, Insert
    <2>9. Cardinality(Requests) \in Nat
      BY <1>0, Finite
    <2> HIDE DEF new
    <2>10. Len(refresh') + Cardinality(Storing') <= Len(access')
      BY <1>0, <2>3, <2>7, Finite DEF IInv, Paired, new
    <2>11. ASSUME NEW j \in Seconds
           PROVE  Cardinality(Matches(refresh', j)) + Cardinality(StoringOf(j)')
                      <= Cardinality(Matches(access', j))
      <3>1. Cardinality(Matches(refresh, j)) + Cardinality(StoringOf(j))
                <= Cardinality(Matches(access, j))
        BY DEF IInv, Paired
      <3>2. CASE j = i
        <4>1. Cardinality(Matches(refresh, i)) + Cardinality(StoringOf(i))
                  <= Cardinality(Matches(access, i))
          BY DEF IInv, Paired
        <4>2. Cardinality(Matches(refresh', i)) + Cardinality(StoringOf(i)')
                  <= Cardinality(Matches(access', i))
          BY <1>0, <2>3, <2>7, <2>8, <4>1, Finite
        <4> QED  BY <3>2, <4>2
      <3>3. CASE j # i
        BY <2>3, <2>4, <3>1, <3>3
      <3> QED  BY <3>2, <3>3
    <2>12. OneEach'
      BY <1>0, <2>7, <2>8, <2>9, Finite DEF IInv, OneEach
    <2> QED  BY <2>10, <2>11, <2>12 DEF Paired
  <1>8. ASSUME NEW q \in Requests, LoggedOut(q) PROVE Paired' /\ OneEach'
    <2>1. /\ req'[q].pc = "idle"
          /\ \A p \in Requests \ {q} : req'[p] = req[p]
      BY <1>0, <1>8 DEF LoggedOut, Typed, Idle
    <2>2. Storing' \subseteq Storing /\ \A p \in Storing' : req'[p].iat = req[p].iat
      BY <2>1, StepStoring
    <2> QED  BY <1>0, <1>8, <2>2, RevokeDocs, SameCount DEF LoggedOut, Typed
  <1>9. ASSUME NEW q \in Requests, Abandoned(q) PROVE Paired' /\ OneEach'
    <2>1. /\ req'[q].pc = "idle"
          /\ \A p \in Requests \ {q} : req'[p] = req[p]
      BY <1>0, <1>9 DEF Abandoned, Typed, Idle
    <2>2. Storing' \subseteq Storing /\ \A p \in Storing' : req'[p].iat = req[p].iat
      BY <2>1, StepStoring
    <2>3. Signing' \subseteq Signing
      BY <2>1 DEF Signing
    <2> QED  BY <1>9, <2>2, <2>3, SameCount DEF Abandoned
  <1> QED
    BY <1>1, <1>2, <1>3, <1>4, <1>5, <1>6, <1>7, <1>8, <1>9, NextKinds

(* What was handed out stays stored.                                       *)
LEMMA HeldStep == Typed /\ HeldStored /\ [Next]_vars => HeldStored'
  <1> SUFFICES ASSUME Typed, HeldStored, [Next]_vars PROVE HeldStored'
    OBVIOUS
  <1>1. CASE UNCHANGED <<held, refresh>>
    BY <1>1 DEF HeldStored
  <1>2. ASSUME NEW q \in Requests, Revoked(q) \/ LoggedOut(q)
        PROVE  HeldStored'
    <2>1. refresh' = Blacklisted(refresh) /\ held' = held
      BY <1>2 DEF Revoked, LoggedOut
    <2> QED  BY <2>1, RevokeDocs DEF HeldStored, Typed
  <1>3. ASSUME NEW q \in Requests, RefreshSaved(q) PROVE HeldStored'
    <2>1. PICK i \in Seconds : req[q].iat = i
      BY <1>3, InFlightType DEF RefreshSaved, At
    <2>2. refresh' = Append(refresh, Fresh(i)) /\ held' = held \cup {i}
      BY <1>3, <2>1 DEF RefreshSaved, HandedOut
    <2>3. \A j \in Seconds : Matches(refresh, j) \subseteq Matches(refresh', j)
      BY <2>2, StoreDocs DEF Typed
    <2>4. Matches(refresh', i) # {}
      BY <2>2, StoreDocs DEF Typed
    <2> QED  BY <2>2, <2>3, <2>4 DEF HeldStored, Typed
  <1>4. ASSUME NEW q \in Requests, Begins(q) PROVE UNCHANGED <<held, refresh>>
    BY <1>4 DEF Begins, Begin
  <1>5. ASSUME NEW q \in Requests, Signed(q) \/ AccessSaved(q) \/ Abandoned(q)
        PROVE  UNCHANGED <<held, refresh>>
    BY <1>5 DEF Signed, AccessSaved, Abandoned
  <1>6. UNCHANGED vars \/ Tick => UNCHANGED <<held, refresh>>
    BY DEF vars, Tick
  <1> QED  BY <1>1, <1>2, <1>3, <1>4, <1>5, <1>6, NextKinds

(* A request in flight that takes a step has only itself to answer for: if *)
(* another were alone, this one would be idle.                             *)
LEMMA OwnStep ==
    ASSUME Undisturbed, NEW q \in Requests, req[q].pc # "idle",
           \A p \in Requests \ {q} : req'[p] = req[p],
           req'[q].pc # "idle" =>
               /\ req'[q].alone = req[q].alone
               /\ req[q].alone =>
                    /\ req'[q].pc \in {"sign", "access"} =>
                          Unrevoked(access') = {} /\ Unrevoked(refresh') = {}
                    /\ req'[q].pc = "refresh" =>
                          /\ Newest(access', req'[q].iat)
                          /\ Unrevoked(refresh') = {},
           current' \in {current, NoPair} \/
               /\ req[q].alone /\ req'[q].pc = "idle"
               /\ Newest(access', current') /\ Newest(refresh', current')
    PROVE  Undisturbed'
  <1>1. current = NoPair
    BY DEF Undisturbed
  <1>2. req[q].alone => \A p \in Requests \ {q} : req[p].pc = "idle"
    BY DEF Undisturbed, AloneLeaves
  <1>3. \A p \in Requests \ {q} :
            req[p].pc # "idle" => ~req[p].alone
    BY DEF Undisturbed, AloneLeaves
  <1>4. ASSUME NEW p \in Requests, req'[p].pc # "idle", req'[p].alone
        PROVE  AloneLeaves(p)'
    <2>1. p = q
      BY <1>3, <1>4
    <2> QED  BY <1>2, <1>4, <2>1 DEF AloneLeaves
  <1>5. current' # NoPair =>
            /\ \A p \in Requests : req'[p].pc = "idle"
            /\ Newest(access', current') /\ Newest(refresh', current')
    BY <1>1, <1>2
  <1> QED  BY <1>4, <1>5 DEF Undisturbed

(* The token stored last, where none before it is valid, is the newest.    *)
LEMMA StoredNewest ==
    ASSUME NEW docs \in Docs, NEW i \in Seconds, Unrevoked(docs) = {}
    PROVE  Newest(Append(docs, Fresh(i)), i)
  <1> DEFINE after == Append(docs, Fresh(i))
  <1>1. Unrevoked(after) = {Len(docs) + 1} /\ Len(after) = Len(docs) + 1
    BY StoreDocs
  <1>2. after[Len(docs) + 1] = Fresh(i) /\ Len(docs) + 1 > 0
    BY DEF Docs, Fresh, Tokens
  <1>3. Fresh(i).iat = i
    BY DEF Fresh
  <1> QED  BY <1>1, <1>2, <1>3 DEF Newest

(* Every step keeps what a request that nothing overlaps has done so far,  *)
(* and what the last one left.                                             *)
LEMMA UndisturbedStep == Typed /\ Undisturbed /\ [Next]_vars => Undisturbed'
  <1> SUFFICES ASSUME Typed, Undisturbed, [Next]_vars PROVE Undisturbed'
    OBVIOUS
  <1>1. CASE UNCHANGED <<access, refresh, current, req>>
    BY <1>1 DEF Undisturbed, AloneLeaves, Newest
  <1>2. ASSUME NEW q \in Requests, Begins(q) PROVE Undisturbed'
    <2>1. PICK step \in {"revokeFirst", "revoke", "logout"} : Begin(q, step)
      BY <1>2 DEF Begins
    <2>2. /\ req'[q].pc = step
          /\ req'[q].alone = (\A o \in Requests : req[o] = Idle)
          /\ \A p \in Requests \ {q} :
                 /\ req'[p].pc = req[p].pc
                 /\ req[p].pc # "idle" => ~req'[p].alone
          /\ current' = NoPair
      BY <2>1, BeginShape DEF Steps
    <2>3. ASSUME NEW p \in Requests, req'[p].pc # "idle", req'[p].alone
          PROVE  AloneLeaves(p)'
      <3>1. p = q
        BY <2>2, <2>3
      <3>2. \A o \in Requests : req[o] = Idle
        BY <2>2, <2>3, <3>1
      <3>3. \A o \in Requests : req[o].pc = "idle"
        BY <3>2 DEF Idle
      <3> QED  BY <2>2, <3>1, <3>3 DEF AloneLeaves
    <2> QED  BY <2>2, <2>3 DEF Undisturbed
  <1>3. ASSUME NEW q \in Requests, Revoked(q) PROVE Undisturbed'
    <2>1. PICK step \in {"revoke", "sign"} : Goto(q, step)
      BY <1>3 DEF Revoked
    <2>2. req[q].pc # "idle" /\ current' = current
          /\ Unrevoked(access') = {} /\ Unrevoked(refresh') = {}
      BY <1>3, RevokeDocs DEF Revoked, Typed
    <2>3. /\ req'[q].pc = step /\ req'[q].alone = req[q].alone
          /\ \A p \in Requests \ {q} : req'[p] = req[p]
      BY <2>1, <2>2, GotoShape DEF Steps
    <2> QED  BY <2>2, <2>3, OwnStep
  <1>4. ASSUME NEW q \in Requests, Signed(q) PROVE Undisturbed'
    <2>1. req[q] \in InFlight /\ req[q].pc = "sign"
      BY <1>4, InFlightType DEF Signed, At
    <2>2. /\ req'[q].pc = "access" /\ req'[q].alone = req[q].alone
          /\ \A p \in Requests \ {q} : req'[p] = req[p]
          /\ UNCHANGED <<access, refresh, current>>
      BY <1>4, <2>1 DEF Signed, Typed, InFlight
    <2>3. req[q].alone => Unrevoked(access) = {} /\ Unrevoked(refresh) = {}
      BY <2>1 DEF Undisturbed, AloneLeaves
    <2> QED  BY <2>1, <2>2, <2>3, OwnStep
  <1>5. ASSUME NEW q \in Requests, AccessSaved(q) PROVE Undisturbed'
    <2>0. PICK i \in Seconds : req[q].iat = i
      BY <1>5, InFlightType DEF AccessSaved, At
    <2>1. /\ req[q].pc = "access"
          /\ access' = Append(access, Fresh(i))
          /\ UNCHANGED <<refresh, current>>
      BY <1>5, <2>0 DEF AccessSaved, At
    <2>2. /\ req'[q].pc = "refresh" /\ req'[q].alone = req[q].alone
          /\ req'[q].iat = i
          /\ \A p \in Requests \ {q} : req'[p] = req[p]
      BY <1>5, <2>0, <2>1, GotoShape DEF AccessSaved, Steps
    <2>3. req[q].alone => Unrevoked(access) = {} /\ Unrevoked(refresh) = {}
      BY <2>1 DEF Undisturbed, AloneLeaves
    <2>4. req[q].alone => Newest(access', i)
      BY <2>1, <2>3, StoredNewest DEF Typed
    <2> QED  BY <2>1, <2>2, <2>3, <2>4, OwnStep
  <1>6. ASSUME NEW q \in Requests, RefreshSaved(q) PROVE Undisturbed'
    <2>0. PICK i \in Seconds : req[q].iat = i
      BY <1>6, InFlightType DEF RefreshSaved, At
    <2>1. /\ req[q].pc = "refresh"
          /\ refresh' = Append(refresh, Fresh(i))
          /\ access' = access
          /\ current' = IF req[q].alone THEN i ELSE NoPair
      BY <1>6, <2>0 DEF RefreshSaved, HandedOut, At
    <2>2. /\ req'[q].pc = "idle"
          /\ \A p \in Requests \ {q} : req'[p] = req[p]
      BY <1>6 DEF RefreshSaved, HandedOut, Typed, Idle
    <2>3. req[q].alone => Newest(access, i) /\ Unrevoked(refresh) = {}
      BY <2>0, <2>1 DEF Undisturbed, AloneLeaves
    <2>4. req[q].alone => Newest(refresh', i)
      BY <2>1, <2>3, StoredNewest DEF Typed
    <2>5. req[q].alone => current' = i
      BY <2>1
    <2>6. ~req[q].alone => current' = NoPair
      BY <2>1
    <2>7. CASE req[q].alone
      BY <2>1, <2>2, <2>3, <2>4, <2>5, <2>7, OwnStep
    <2>8. CASE ~req[q].alone
      BY <2>1, <2>2, <2>6, <2>8, OwnStep
    <2> QED  BY <2>7, <2>8
  <1>7. ASSUME NEW q \in Requests, LoggedOut(q) \/ Abandoned(q)
        PROVE  Undisturbed'
    <2>1. /\ req[q].pc # "idle" /\ req'[q].pc = "idle"
          /\ \A p \in Requests \ {q} : req'[p] = req[p]
          /\ current' = current
      BY <1>7 DEF LoggedOut, Abandoned, Typed, Idle, At
    <2> QED  BY <2>1, OwnStep
  <1>8. UNCHANGED vars \/ Tick => UNCHANGED <<access, refresh, current, req>>
    BY DEF vars, Tick
  <1> QED
    BY <1>1, <1>2, <1>3, <1>4, <1>5, <1>6, <1>7, <1>8, NextKinds

LEMMA InvStep == IInv /\ [Next]_vars => IInv'
  BY TypeStep, CountStep, HeldStep, UndisturbedStep DEF IInv

(* Whatever overlaps: refresh tokens have access tokens, valid ones are few, *)
(* what was handed out is stored, and a request alone leaves what it does. *)
THEOREM Invariance == Spec => []IInv
  BY InvInit, InvStep, PTL DEF Spec

-----------------------------------------------------------------------------
(* Every variable of TokenPairs keeps its type; there are no more refresh  *)
(* tokens than the bound, although only access tokens are held to it.      *)
THEOREM TypeCorrect == Spec => []TypeOK
  <1>1. IInv => TypeOK
    <2> SUFFICES ASSUME IInv PROVE TypeOK
      OBVIOUS
    <2>1. Typed
      BY DEF IInv
    <2>2. Cardinality(Storing) \in Nat /\ Len(access) \in Nat /\ Len(refresh) \in Nat
      BY <2>1, Finite DEF Storing
    <2>3. Len(refresh) <= MaxDocs
      BY <2>1, <2>2, TokenAssumption DEF IInv, Paired, Typed
    <2> QED  BY <2>1, <2>3 DEF Typed, TypeOK, Docs
  <1> QED  BY <1>1, Invariance, PTL

(* Overlapping sign-ins and refreshes leave as many valid refresh tokens   *)
(* as requests can be in flight, however long they go on.                  *)
THEOREM FewValid == Spec => []ValidAtMostInFlight
  <1>1. IInv => ValidAtMostInFlight
    <2> SUFFICES ASSUME IInv PROVE ValidAtMostInFlight
      OBVIOUS
    <2>1. Typed
      BY DEF IInv
    <2>2. /\ Cardinality(Unrevoked(refresh)) \in Nat
          /\ Cardinality(Signing) \in Nat
          /\ Cardinality(Requests) \in Nat
      BY <2>1, Finite DEF Signing
    <2> QED  BY <2>2 DEF IInv, OneEach, ValidAtMostInFlight
  <1> QED  BY <1>1, Invariance, PTL

(* A pair handed out by a request that nothing overlapped is the only one  *)
(* that is accepted, whatever overlapped before.                           *)
THEOREM NoOtherPair == Spec => []OnlyPair
  <1>1. IInv => OnlyPair
    BY FS_Singleton DEF IInv, Undisturbed, Newest, OnlyPair
  <1> QED  BY <1>1, Invariance, PTL

(* Such a pair is accepted, where no other was signed in its second.       *)
THEOREM PairAccepted == Spec => []PairWorks
  <1>1. IInv => PairWorks
    <2> SUFFICES ASSUME IInv, current # NoPair,
                        Cardinality(Matches(access, current)) = 1
                 PROVE  Good(access, current) /\ Good(refresh, current)
      BY DEF PairWorks
    <2>1. Typed /\ current \in Seconds
      BY DEF IInv, Typed
    <2>2. \A docs \in Docs :
              Newest(docs, current) /\ Cardinality(Matches(docs, current)) = 1
                  => Good(docs, current)
      <3> SUFFICES ASSUME NEW docs \in Docs, Newest(docs, current),
                          Cardinality(Matches(docs, current)) = 1
                   PROVE  Good(docs, current)
        OBVIOUS
      <3>0. IsFiniteSet(Matches(docs, current))
        <4>1. DOMAIN docs = 1..Len(docs) /\ Len(docs) \in Nat
          BY DEF Docs
        <4>2. IsFiniteSet(DOMAIN docs)
          BY <4>1, FS_Interval
        <4> QED  BY <4>2, FS_Subset DEF Matches
      <3>1. PICK k : Matches(docs, current) = {k}
        BY <3>0, FS_Singleton
      <3>2. Len(docs) \in Nat /\ Len(docs) \in DOMAIN docs
            /\ Len(docs) \in Matches(docs, current)
            /\ ~docs[Len(docs)].isBlacklist
        BY DEF Newest, Matches, Unrevoked, Docs
      <3> QED  BY <3>1, <3>2 DEF Good
    <2>3. Newest(access, current) /\ Newest(refresh, current)
      BY DEF IInv, Undisturbed
    <2>4. Cardinality(Matches(refresh, current)) = 1
      <3>1. /\ Cardinality(StoringOf(current)) \in Nat
            /\ Cardinality(Matches(refresh, current)) \in Nat
            /\ IsFiniteSet(Matches(refresh, current))
        BY <2>1, Finite DEF StoringOf, Storing
      <3>2. Cardinality(Matches(refresh, current)) <= 1
        BY <2>1, <3>1 DEF IInv, Paired
      <3>3. Matches(refresh, current) # {}
        BY <2>1, <2>3 DEF Newest, Matches, Typed, Docs
      <3>4. Cardinality(Matches(refresh, current)) # 0
        BY <3>1, <3>3, FS_EmptySet
      <3> QED  BY <3>1, <3>2, <3>4
    <2> QED  BY <2>1, <2>2, <2>3, <2>4 DEF Typed
  <1> QED  BY <1>1, Invariance, PTL

-----------------------------------------------------------------------------
(* No step revives a pair that was handed out.                             *)
LEMMA DeadStep ==
    ASSUME IInv, [Next]_vars, NEW i \in held
    PROVE  /\ ~Good(access, i) => ~Good(access', i)
           /\ ~Good(refresh, i) => ~Good(refresh', i)
  <1>1. Typed /\ i \in Seconds
    BY DEF IInv, Typed
  <1>2. Matches(refresh, i) # {}
    BY DEF IInv, HeldStored
  <1>3. Matches(access, i) # {}
    <2>1. /\ Cardinality(StoringOf(i)) \in Nat
          /\ Cardinality(Matches(refresh, i)) \in Nat
          /\ IsFiniteSet(Matches(refresh, i))
          /\ Cardinality(Matches(access, i)) \in Nat
      BY <1>1, Finite DEF StoringOf, Storing
    <2>2. Cardinality(Matches(refresh, i)) # 0
      BY <1>2, <2>1, FS_EmptySet
    <2>3. Cardinality(Matches(access, i)) # 0
      BY <1>1, <2>1, <2>2 DEF IInv, Paired
    <2> QED  BY <2>3, FS_EmptySet
  <1>4. access' \in {access, Blacklisted(access)}
        \/ \E j \in Seconds : access' = Append(access, Fresh(j))
    <2>1. \A q \in Requests : AccessSaved(q) =>
              \E j \in Seconds : access' = Append(access, Fresh(j))
      BY <1>1, InFlightType DEF AccessSaved, At
    <2> QED
      BY <2>1, NextKinds
      DEF vars, Tick, Begins, Begin, Revoked, Signed, RefreshSaved,
          LoggedOut, Abandoned
  <1>5. refresh' \in {refresh, Blacklisted(refresh)}
        \/ \E j \in Seconds : refresh' = Append(refresh, Fresh(j))
    <2>1. \A q \in Requests : RefreshSaved(q) =>
              \E j \in Seconds : refresh' = Append(refresh, Fresh(j))
      BY <1>1, InFlightType DEF RefreshSaved, At
    <2> QED
      BY <2>1, NextKinds
      DEF vars, Tick, Begins, Begin, Revoked, Signed, AccessSaved,
          LoggedOut, Abandoned
  <1>6. access \in Docs /\ refresh \in Docs
    BY <1>1 DEF Typed
  <1>7. ~Good(access, i) => ~Good(access', i)
    BY <1>1, <1>3, <1>4, <1>6, RefusedDocs
  <1>8. ~Good(refresh, i) => ~Good(refresh', i)
    BY <1>1, <1>2, <1>5, <1>6, RefusedDocs
  <1> QED  BY <1>7, <1>8

(* A token that was handed out and is refused is refused for good, although *)
(* documents of its second are stored after it.                            *)
THEOREM DeadTokens == Spec => DeadStaysDead
  <1> DEFINE Stay == \A i \in held :
                         /\ ~Good(access, i) => ~Good(access', i)
                         /\ ~Good(refresh, i) => ~Good(refresh', i)
  <1>1. IInv /\ [Next]_vars => [Stay]_vars
    BY DeadStep
  <1> QED  BY <1>1, Invariance, PTL DEF Spec, DeadStaysDead

(* What was held at a logout is held and refused.                          *)
EndedRefused == ended \subseteq held /\ LoggedOutStaysOut

(* A pair that was held when a logout was carried out is never accepted    *)
(* again, although the same strings may be signed and stored after it.     *)
THEOREM LogoutIsForGood == Spec => []LoggedOutStaysOut
  <1>1. Init => EndedRefused
    BY DEF Init, EndedRefused, LoggedOutStaysOut
  <1>2. IInv /\ EndedRefused /\ [Next]_vars => EndedRefused'
    <2> SUFFICES ASSUME IInv, EndedRefused, [Next]_vars
                 PROVE  EndedRefused'
      OBVIOUS
    <2>1. Typed
      BY DEF IInv
    <2>2. held \subseteq held'
      BY NextKinds
      DEF vars, Tick, Begins, Begin, Revoked, Signed, AccessSaved,
          RefreshSaved, HandedOut, LoggedOut, Abandoned
    <2>3. CASE UNCHANGED ended
      BY <2>2, <2>3, DeadStep DEF EndedRefused, LoggedOutStaysOut
    <2>4. ASSUME NEW q \in Requests, LoggedOut(q)
          PROVE  EndedRefused'
      <3>1. /\ access' = Blacklisted(access) /\ refresh' = Blacklisted(refresh)
            /\ ended' = ended \cup held /\ held' = held
        BY <2>4 DEF LoggedOut
      <3>2. \A i \in Seconds : ~Good(access', i) /\ ~Good(refresh', i)
        BY <2>1, <3>1, RevokeDocs DEF Typed
      <3> QED
        BY <2>1, <3>1, <3>2 DEF EndedRefused, LoggedOutStaysOut, Typed
    <2> QED
      BY <2>3, <2>4, NextKinds
      DEF vars, Tick, Begins, Begin, Revoked, Signed, AccessSaved,
          RefreshSaved, Abandoned
  <1> QED  BY <1>1, <1>2, Invariance, PTL DEF Spec, EndedRefused
=============================================================================
