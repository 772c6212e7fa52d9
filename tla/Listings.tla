------------------------------ MODULE Listings ------------------------------
(***************************************************************************)
(* What administrators read page by page while others write: the listings  *)
(* of rooms, users and subscriptions, newest first (paginate in the three  *)
(* services), and the number of users on every day of a month              *)
(* (countByDate in src/modules/user/service.ts).                           *)
(*                                                                         *)
(* Every query of a request is a step; those that one Promise.all sends    *)
(* are answered in any order.  The reader who asks for the pages one after *)
(* the other until a page is short of its limit is outside the repository. *)
(***************************************************************************)
EXTENDS Naturals, FiniteSets, Sequences, SequencesExt

CONSTANTS Limits,   \* page sizes asked for; 0 is no limit
          MaxDocs,  \* bound: documents ever created
          Days,     \* bound: days of the month, from 1
          Awaited   \* a query not yet answered

ASSUME ListingsAssumption ==
    /\ Limits \subseteq Nat
    /\ MaxDocs \in Nat
    /\ Days \in Nat \ {0}
    /\ Awaited \notin Nat

VARIABLES
    collection, \* the one that is read: the three do not touch each other
    docs,       \* the documents in the order in which they were stamped
    stored,     \* positions in docs of those the database has had
    gone,       \* positions in docs of those deleted since
    today,
    request     \* the listing or the statistics under way, or the last one

listingVars == <<collection, docs, stored, gone, today, request>>

Alive == stored \ gone
NoRequest == [pc |-> "none"]

ListingTypeOK ==
    /\ collection \in {"rooms", "users", "subscriptions"}
    /\ docs \in Seq([at : 1..MaxDocs, day : 1..Days]) /\ Len(docs) <= MaxDocs
    /\ stored \subseteq DOMAIN docs /\ gone \subseteq stored
    /\ today \in 1..Days
    /\ request.pc \in {"none", "page", "listed", "count"}

ListingInit ==
    /\ collection \in {"rooms", "users", "subscriptions"}
    /\ docs = <<>>
    /\ stored = {}
    /\ gone = {}
    /\ today = 1
    /\ request = NoRequest

-----------------------------------------------------------------------------
(* Writers                                                                 *)

(* mongoose stamps a document with createdAt, which counts milliseconds,   *)
(* before it sends the insert: two documents may share a stamp, and an     *)
(* insert may be carried out late, after a younger one, or never.          *)
Stamp ==
    /\ Len(docs) < MaxDocs
    /\ \E later \in {0, 1} :
         LET last == IF docs = <<>> THEN 0 ELSE Last(docs).at
             sameDay == docs # <<>> /\ Last(docs).day = today
             at == IF sameDay THEN last + later ELSE last + 1
         IN  docs' = Append(docs, [at |-> at, day |-> today])
    /\ UNCHANGED <<collection, stored, gone, today, request>>

Store(d) ==
    /\ d \in DOMAIN docs \ stored
    /\ stored' = stored \cup {d}
    /\ UNCHANGED <<collection, docs, gone, today, request>>

(* Only rooms are ever deleted.                                            *)
Delete(d) ==
    /\ collection = "rooms"
    /\ d \in Alive
    /\ gone' = gone \cup {d}
    /\ UNCHANGED <<collection, docs, stored, today, request>>

Midnight ==
    /\ collection = "users"
    /\ today < Days
    /\ today' = today + 1
    /\ UNCHANGED <<collection, docs, stored, gone, request>>

-----------------------------------------------------------------------------
(* paginate                                                                *)

(* find().sort({createdAt: 'desc'}): documents of one millisecond come in  *)
(* any order, another one in every query.                                  *)
NewestFirst ==
    {order \in SetToSeqs(Alive) :
        \A i, j \in DOMAIN order :
            i < j => docs[order[i]].at >= docs[order[j]].at}

(* Variant: pages are counted from zero.                                   *)
SkipFromZero(page, limit) == page * limit

Skip(page, limit) == (page - 1) * limit

Window(order, page, limit) ==
    LET first == Skip(page, limit) + 1
    IN  Range(SubSeq(order, first,
                     IF limit = 0 THEN Len(order)
                     ELSE IF first + limit - 1 < Len(order)
                          THEN first + limit - 1 ELSE Len(order)))

BothRead == request.data # Awaited /\ request.total # Awaited
Full == request.limit # 0 /\ Cardinality(request.data) = request.limit

(* from and gone are what the reader may compare the answers with.         *)
Ask(limit) ==
    /\ request.pc \in {"none", "listed"}
    /\ request' = [pc |-> "page", page |-> 1, limit |-> limit,
                   data |-> Awaited, total |-> Awaited, seen |-> {},
                   from |-> Alive, gone |-> gone]
    /\ UNCHANGED <<collection, docs, stored, gone, today>>

DataRead ==
    /\ request.pc = "page"
    /\ request.data = Awaited
    /\ \E order \in NewestFirst :
         LET data == Window(order, request.page, request.limit)
         IN  request' = [request EXCEPT !.data = data, !.seen = @ \cup data]
    /\ UNCHANGED <<collection, docs, stored, gone, today>>

TotalRead ==
    /\ request.pc = "page"
    /\ request.total = Awaited
    /\ request' = [request EXCEPT !.total = Cardinality(Alive)]
    /\ UNCHANGED <<collection, docs, stored, gone, today>>

TurnPage ==
    /\ request.pc = "page"
    /\ BothRead
    /\ Full
    /\ request' = [request EXCEPT !.page = @ + 1, !.data = Awaited, !.total = Awaited]
    /\ UNCHANGED <<collection, docs, stored, gone, today>>

LastPage ==
    /\ request.pc = "page"
    /\ BothRead
    /\ ~ Full
    /\ request' = [request EXCEPT !.pc = "listed"]
    /\ UNCHANGED <<collection, docs, stored, gone, today>>

-----------------------------------------------------------------------------
(* GET /admin/stats/user                                                   *)

(* The days of the month, the ones still to come included.                 *)
CountAsked ==
    /\ collection = "users"
    /\ request.pc \in {"none", "count"}
    /\ request' = [pc |-> "count", since |-> today, from |-> stored,
                   counts |-> [d \in 1..Days |-> Awaited]]
    /\ UNCHANGED <<collection, docs, stored, gone, today>>

(* Variant: a day is compared by its first moment.                         *)
UpToStartOf(d) == {i \in Alive : docs[i].day < d}

UpTo(d) == {i \in Alive : docs[i].day <= d}

DayCounted(d) ==
    /\ request.pc = "count"
    /\ request.counts[d] = Awaited
    /\ request' = [request EXCEPT !.counts[d] = Cardinality(UpTo(d))]
    /\ UNCHANGED <<collection, docs, stored, gone, today>>

-----------------------------------------------------------------------------
ListingNext ==
    \/ Stamp
    \/ \E d \in 1..MaxDocs : Store(d) \/ Delete(d)
    \/ Midnight
    \/ \E limit \in Limits : Ask(limit)
    \/ DataRead \/ TotalRead \/ TurnPage \/ LastPage
    \/ CountAsked
    \/ \E d \in 1..Days : DayCounted(d)

ListingSpec == ListingInit /\ [][ListingNext]_listingVars

-----------------------------------------------------------------------------
(* Properties                                                              *)

DeletedMeanwhile == gone \ request.gone
Alone(d) == \A e \in stored \ {d} : docs[e].at # docs[d].at
Seen(d) == d \in request.seen

(* Of what was there when a reader began and is still there, a reader who  *)
(* reads to a short page misses only what was created in one millisecond   *)
(* with another document, or lay behind a document deleted in the meantime: *)
(* insertions, which shift every page and may come late and in any order,  *)
(* hide nothing (rooms/service.ts 32-64, user/service.ts 45-63,            *)
(* subcription/service.ts 16-48).                                          *)
NoneSkipped ==
    request.pc = "listed" =>
        \A d \in request.from \cap Alive :
            \/ Seen(d)
            \/ ~ Alone(d)
            \/ \E g \in DeletedMeanwhile : g > d

(* The count of a day that was over when the statistics were asked for     *)
(* leaves out only sign-ups that were not yet stored then, and counts       *)
(* nobody of a later day, though every day is counted by a query of its    *)
(* own and users sign up in between (user/service.ts 67-77).               *)
UsersUpTo(users, d) == {i \in users : docs[i].day \in 1..d}

PastDaysMissOnlyLate ==
    request.pc = "count" =>
        \A d \in 1..(request.since - 1) :
            request.counts[d] # Awaited =>
                /\ Cardinality(UsersUpTo(request.from, d)) <= request.counts[d]
                /\ request.counts[d] <= Cardinality(UsersUpTo(stored, d))

(* The counts of days that were over are exact: they are not, as a sign-up *)
(* stamped before midnight may be stored after the count.                  *)
PastDaysExact ==
    request.pc = "count" =>
        \A d \in 1..(request.since - 1) :
            request.counts[d] # Awaited =>
                request.counts[d] = Cardinality(UsersUpTo(stored, d))

(* total says when the last page has come: a reader who stops there has    *)
(* seen everything (common/paginate/pagnate.ts).  It does not: data and    *)
(* total are read by two queries.                                          *)
TotalTellsTheEnd ==
    (request.pc = "page" /\ BothRead /\ request.page * request.limit >= request.total) =>
        \A d \in request.from \cap Alive :
            Seen(d) \/ ~ Alone(d) \/ \E g \in DeletedMeanwhile : g > d

(* Nothing is missed for having been created in a millisecond with another. *)
NoneSkippedAmongTies ==
    request.pc = "listed" =>
        \A d \in request.from \cap Alive :
            Seen(d) \/ \E g \in DeletedMeanwhile : g > d

(* The number of users does not fall from one day to the next.             *)
CountsRise ==
    request.pc = "count" =>
        \A d \in 1..(Days - 1) :
            (request.counts[d] # Awaited /\ request.counts[d + 1] # Awaited) =>
                request.counts[d] <= request.counts[d + 1]
=============================================================================
