---------------------------- MODULE MCDirectory ----------------------------
(***************************************************************************)
(* Model values for what is asked of the server over HTTP: signing up      *)
(* (SignUp), the data that administrators keep (Catalog) and read          *)
(* (Listings), and the way into a room (Admission).  The four share no     *)
(* state: a behaviour takes one of them, so that their states add up and   *)
(* do not multiply.  The three collections are listed by the same steps:   *)
(* rooms are, the one of them that is deleted from, and users are counted. *)
(***************************************************************************)
EXTENDS SignUp, Catalog, Listings, Admission, TLC

VARIABLE part

signUpVars == vars
directoryVars == <<part, signUpVars, catalogVars, listingVars, admissionVars>>

DirectoryInit ==
    /\ Init
    /\ CatalogInit
    /\ ListingInit
    /\ AdmissionInit
    /\ part \in {"signUp", "catalog", "listings", "admission"}
    /\ collection # "subscriptions"
    /\ part # "listings" => collection = "rooms"
    /\ part # "admission" => door.private

DirectoryNext ==
    /\ UNCHANGED part
    /\ \/ /\ part = "signUp"
          /\ Next
          /\ UNCHANGED <<catalogVars, listingVars, admissionVars>>
       \/ /\ part = "catalog"
          /\ CatalogNext
          /\ UNCHANGED <<signUpVars, listingVars, admissionVars>>
       \/ /\ part = "listings"
          /\ ListingNext
          /\ collection = "users" => request'.pc # "page"
          /\ UNCHANGED <<signUpVars, catalogVars, admissionVars>>
       \/ /\ part = "admission"
          /\ AdmissionNext
          /\ UNCHANGED <<signUpVars, catalogVars, listingVars>>

DirectorySpec == DirectoryInit /\ [][DirectoryNext]_directoryVars

DirectoryTypeOK ==
    TypeOK /\ CatalogTypeOK /\ ListingTypeOK /\ AdmissionTypeOK

(* The requests of the parts have the same names: they are never in flight *)
(* together.                                                               *)
Symmetry ==
    Permutations(Maps) \cup Permutations(Edits) \cup Permutations(Visitors)

(* Of an answer, what StatusTruthful compares with the state: the user of  *)
(* a 401, what a 404 names, and a 500 that names nothing.  No step reads   *)
(* an answer, so the rest of it need not tell states apart.                *)
Told(q) ==
    LET v == visit[q]
    IN  CASE v.pc # "answered" -> v
          [] v.pc = "answered" /\ ~ v.failed /\ v.status = 401 -> <<401, v.by>>
          [] /\ v.pc = "answered" /\ ~ v.failed /\ v.status = 404
             /\ v.about # "user" -> <<404, v.about>>
          [] /\ v.pc = "answered" /\ ~ v.failed /\ v.status = 500
             /\ v.about = "none" /\ v.op # "invite" -> <<500>>
          [] OTHER -> NoVisit

(* Of a page, whether it was full, and of the total, whether it has come:  *)
(* no step reads more of them, and of what a reader has seen NoneSkipped   *)
(* asks for what was there and still is.                                   *)
Shown ==
    IF request.pc \notin {"page", "listed"} THEN request
    ELSE [request EXCEPT
            !.data = IF @ = Awaited THEN Awaited ELSE Full,
            !.total = @ = Awaited,
            !.seen = @ \cap request.from \cap Alive,
            !.from = @ \cap Alive]

Present ==
    <<part, signUpVars, catalogVars, collection, docs, stored, gone, today, Shown,
      session, door, opened, members, chat, link, [q \in Visits |-> Told(q)]>>
=============================================================================
