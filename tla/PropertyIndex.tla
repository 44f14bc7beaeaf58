---------------------------- MODULE PropertyIndex ----------------------------
(***************************************************************************)
(* The `properties` collection of Typesense beside the Listing rows of     *)
(* PostgreSQL.  Handlers of the MLS worker process records: they delete    *)
(* the property's document, commit the row, and rebuild the document, one  *)
(* rebuild of a property at a time within the process.  The API rebuilds   *)
(* documents as well, from its own process: after an admin's change to a   *)
(* property, and for every property in a reindex.                          *)
(*                                                                         *)
(* MlsSync decides when a record is processed; here a listing is `owed`    *)
(* from the vendor's change until a handler has processed it to the end.   *)
(***************************************************************************)
EXTENDS Naturals, Sequences, FiniteSets

CONSTANTS
    MaxListing, \* listings are 1..MaxListing, a greater number is newer
    Property,   \* properties, one per parcel
    Handler,    \* handlers of the MLS worker (CONCURRENCY)
    Moves,      \* whether a listing may change its parcel
    MaxChanges, \* bound: changes the vendor publishes
    MaxFaults   \* bound: failed calls and crashes

ASSUME PropertyIndexAssumption ==
    /\ MaxListing \in Nat /\ MaxChanges \in Nat /\ MaxFaults \in Nat
    /\ Moves \in BOOLEAN
    /\ "no property" \notin Property

Listing == 1..MaxListing

VARIABLES
    log,    \* the vendor's changes: <<[listing, parcel, kind], ...>>
    feed,   \* feed[l]: the latest change of l, 0 for none
    owed,   \* listings whose latest change is not yet processed
    row,    \* Listing rows: the change applied, the property, whether public
    doc,    \* doc[p]: the document of p
    hand,   \* the handlers
    queue,  \* propertyReconciliationQueues
    api,    \* an API request that rebuilds documents
    faults  \* faults so far

dbVars == <<row, doc>>
feedVars == <<log, feed>>
vars == <<log, feed, owed, row, doc, hand, queue, api, faults>>

-----------------------------------------------------------------------------

Kind == {"public", "hidden", "removed"}

NoProperty == "no property"

Revs == 1..Len(log)

NoRow == [rev |-> 0, prop |-> NoProperty, public |-> FALSE]

NoDoc == [listing |-> 0, rev |-> 0]

Doc == [listing: 0..MaxListing, rev: 0..Len(log)]

Free == [pc |-> "free", listing |-> 0, rev |-> 0, prop |-> NoProperty, snap |-> NoDoc]

HandPc == {"free", "delete", "commit", "enqueue", "queued", "write"}

NoRequest == [pc |-> "none", todo |-> {}, left |-> {}, prop |-> NoProperty, snap |-> NoDoc,
              docs |-> [p \in Property |-> NoDoc]]

ApiPc == {"none", "fetch", "import", "stale", "next", "write"}

TypeOK ==
    /\ log \in Seq([listing: Listing, parcel: Property, kind: Kind])
    /\ feed \in [Listing -> 0..Len(log)]
    /\ owed \subseteq Listing
    /\ row \in [Listing -> {NoRow} \cup [rev: Revs, prop: Property, public: BOOLEAN]]
    /\ doc \in [Property -> Doc]
    /\ hand \in [Handler -> [pc: HandPc, listing: 0..MaxListing, rev: 0..Len(log),
                             prop: Property \cup {NoProperty}, snap: Doc]]
    /\ queue \in [Property -> Seq(Handler)]
    /\ api \in [pc: ApiPc, todo: SUBSET Property, left: SUBSET Property,
                prop: Property \cup {NoProperty},
                snap: Doc, docs: [Property -> Doc]]
    /\ faults \in Nat

Init ==
    /\ log = << >>
    /\ feed = [l \in Listing |-> 0]
    /\ owed = {}
    /\ row = [l \in Listing |-> NoRow]
    /\ doc = [p \in Property |-> NoDoc]
    /\ hand = [w \in Handler |-> Free]
    /\ queue = [p \in Property |-> << >>]
    /\ api = NoRequest
    /\ faults = 0

-----------------------------------------------------------------------------

\* The vendor publishes a change of l.
Publish(l, p, kind) ==
    /\ Len(log) < MaxChanges
    /\ ~Moves => \A m \in Revs : log[m].listing = l => log[m].parcel = p
    /\ log' = Append(log, [listing |-> l, parcel |-> p, kind |-> kind])
    /\ feed' = [feed EXCEPT ![l] = Len(log) + 1]
    /\ owed' = owed \cup {l}
    /\ UNCHANGED <<dbVars, hand, queue, api, faults>>

\* The listings buildPublicListingWhere selects.
Eligible(p) == {l \in Listing : row[l].prop = p /\ row[l].public}

\* Mutant: the oldest eligible listing is taken.
Newest_Ascending(p) ==
    IF Eligible(p) = {} THEN NoDoc
    ELSE LET l == CHOOSE m \in Eligible(p) : \A n \in Eligible(p) : m <= n
         IN  [listing |-> l, rev |-> row[l].rev]

\* What reconcilePropertyDocument reads: the newest eligible listing of p.  The code
\* orders by listDate and then createdAt, here by a listing's number: a record that
\* gives its own listing another listDate is left out.
Newest(p) ==
    IF Eligible(p) = {} THEN NoDoc
    ELSE LET l == CHOOSE m \in Eligible(p) : \A n \in Eligible(p) : m >= n
         IN  [listing |-> l, rev |-> row[l].rev]

-----------------------------------------------------------------------------
(* A handler of the worker.                                                *)

\* A page or a dead letter brings the record; no two handlers have the same one.
Take(w, l) ==
    /\ hand[w].pc = "free"
    /\ l \in owed
    /\ \A v \in Handler : hand[v].listing # l
    /\ hand' = [hand EXCEPT ![w] = [Free EXCEPT !.pc = "delete", !.listing = l,
                                                !.rev = feed[l]]]
    /\ UNCHANGED <<feedVars, owed, dbVars, queue, api, faults>>

\* The record is processed; a newer change of it is still owed.
Settled(w) ==
    LET l == hand[w].listing
    IN  IF feed[l] = hand[w].rev THEN owed \ {l} ELSE owed

\* removeListing of a listing the database does not have.
SkipRemoval(w) ==
    /\ hand[w].pc = "delete"
    /\ log[hand[w].rev].kind = "removed" /\ row[hand[w].listing] = NoRow
    /\ owed' = Settled(w)
    /\ hand' = [hand EXCEPT ![w] = Free]
    /\ UNCHANGED <<feedVars, dbVars, queue, api, faults>>

\* Mutant: the document stays until the rebuild.
PreDelete_Omitted(w) ==
    LET r == row[hand[w].listing] IN
    /\ hand[w].pc = "delete"
    /\ r = NoRow => log[hand[w].rev].kind # "removed"
    /\ hand' = [hand EXCEPT ![w] = [hand[w] EXCEPT !.pc = "commit"]]
    /\ UNCHANGED <<feedVars, owed, dbVars, queue, api, faults>>

\* Mutant: removeListing does not look whether the listing exists.
PreDelete_Unchecked(w) ==
    LET r == row[hand[w].listing] IN
    /\ hand[w].pc = "delete"
    /\ doc' = IF r = NoRow THEN doc ELSE [doc EXCEPT ![r.prop] = NoDoc]
    /\ hand' = [hand EXCEPT ![w] = [hand[w] EXCEPT !.pc = "commit"]]
    /\ UNCHANGED <<feedVars, owed, row, queue, api, faults>>

\* The document of the property the listing is at goes before the row changes.
PreDelete(w) ==
    LET r == row[hand[w].listing] IN
    /\ hand[w].pc = "delete"
    /\ r = NoRow => log[hand[w].rev].kind # "removed"
    /\ doc' = IF r = NoRow THEN doc ELSE [doc EXCEPT ![r.prop] = NoDoc]
    /\ hand' = [hand EXCEPT ![w] = [hand[w] EXCEPT !.pc = "commit"]]
    /\ UNCHANGED <<feedVars, owed, row, queue, api, faults>>

\* The transaction: a removal withdraws the row where it is, any other record
\* moves it to the property of its parcel.
Commit(w) ==
    LET l == hand[w].listing
        change == log[hand[w].rev]
        p == IF change.kind = "removed" THEN row[l].prop ELSE change.parcel
    IN  /\ hand[w].pc = "commit"
        /\ row' = [row EXCEPT ![l] = [rev |-> hand[w].rev, prop |-> p,
                                      public |-> change.kind = "public"]]
        /\ hand' = [hand EXCEPT ![w] = [hand[w] EXCEPT !.pc = "enqueue", !.prop = p]]
        /\ UNCHANGED <<feedVars, owed, doc, queue, api, faults>>

\* reconcilePropertySearch: the rebuild waits for the property's earlier ones.
Enqueue(w) ==
    /\ hand[w].pc = "enqueue"
    /\ queue' = [queue EXCEPT ![hand[w].prop] = Append(queue[hand[w].prop], w)]
    /\ hand' = [hand EXCEPT ![w] = [hand[w] EXCEPT !.pc = "queued"]]
    /\ UNCHANGED <<feedVars, owed, dbVars, api, faults>>

\* Mutant: rebuilds of one property overlap.
Load_Unqueued(w) ==
    /\ hand[w].pc = "queued"
    /\ hand' = [hand EXCEPT ![w] = [hand[w] EXCEPT !.pc = "write", !.snap = Newest(hand[w].prop)]]
    /\ UNCHANGED <<feedVars, owed, dbVars, queue, api, faults>>

Load(w) ==
    /\ hand[w].pc = "queued"
    /\ Head(queue[hand[w].prop]) = w
    /\ hand' = [hand EXCEPT ![w] = [hand[w] EXCEPT !.pc = "write", !.snap = Newest(hand[w].prop)]]
    /\ UNCHANGED <<feedVars, owed, dbVars, queue, api, faults>>

\* The rebuild at the head is over.
Leave(w) == [queue EXCEPT ![hand[w].prop] = Tail(queue[hand[w].prop])]

\* The document is upserted or deleted, and the record is processed.
Write(w) ==
    /\ hand[w].pc = "write"
    /\ doc' = [doc EXCEPT ![hand[w].prop] = hand[w].snap]
    /\ queue' = Leave(w)
    /\ owed' = Settled(w)
    /\ hand' = [hand EXCEPT ![w] = Free]
    /\ UNCHANGED <<feedVars, row, api, faults>>

\* Mutant: a failed rebuild is logged and the record counts as processed.
Fail_Swallowed(w) ==
    /\ faults < MaxFaults
    /\ hand[w].pc \in {"delete", "commit", "write"}
    /\ queue' = IF hand[w].pc = "write" THEN Leave(w) ELSE queue
    /\ owed' = IF hand[w].pc = "write" THEN Settled(w) ELSE owed
    /\ hand' = [hand EXCEPT ![w] = Free]
    /\ faults' = faults + 1
    /\ UNCHANGED <<feedVars, dbVars, api>>

\* A call of PostgreSQL or Typesense fails: the handler throws, the record is
\* dead-lettered or asked for again.
Fail(w) ==
    /\ faults < MaxFaults
    /\ hand[w].pc \in {"delete", "commit", "write"}
    /\ queue' = IF hand[w].pc = "write" THEN Leave(w) ELSE queue
    /\ hand' = [hand EXCEPT ![w] = Free]
    /\ faults' = faults + 1
    /\ UNCHANGED <<feedVars, owed, dbVars, api>>

\* The worker stops.
Crash ==
    /\ faults < MaxFaults
    /\ \E w \in Handler : hand[w].pc # "free"
    /\ hand' = [w \in Handler |-> Free]
    /\ queue' = [p \in Property |-> << >>]
    /\ faults' = faults + 1
    /\ UNCHANGED <<feedVars, owed, dbVars, api>>

-----------------------------------------------------------------------------
(* The API.                                                                *)

\* updateProperty: reconcilePropertyDocumentBestEffort reads the newest listing.
ApiRefresh(p) ==
    /\ api.pc = "none"
    /\ api' = [NoRequest EXCEPT !.pc = "write", !.prop = p, !.snap = Newest(p)]
    /\ UNCHANGED <<feedVars, owed, dbVars, hand, queue, faults>>

\* reindexAll: export the ids there are ...
Reindex ==
    /\ api.pc = "none"
    /\ api' = [NoRequest EXCEPT !.pc = "fetch", !.todo = {p \in Property : doc[p] # NoDoc}]
    /\ UNCHANGED <<feedVars, owed, dbVars, hand, queue, faults>>

\* ... fetch what there should be ...
ReindexFetch ==
    /\ api.pc = "fetch"
    /\ api' = [api EXCEPT !.pc = "import", !.docs = [p \in Property |-> Newest(p)]]
    /\ UNCHANGED <<feedVars, owed, dbVars, hand, queue, faults>>

Desired == {p \in Property : api.docs[p] # NoDoc}

\* ... import it ...
ReindexImport ==
    /\ api.pc = "import"
    /\ doc' = [p \in Property |-> IF p \in Desired THEN api.docs[p] ELSE doc[p]]
    /\ api' = [api EXCEPT !.pc = "stale", !.left = api.todo \ Desired]
    /\ UNCHANGED <<feedVars, owed, row, hand, queue, faults>>

\* Mutant: documents that should not be there are left alone.
ReindexDelete_Inexact ==
    /\ api.pc = "stale"
    /\ api' = [api EXCEPT !.pc = "next", !.todo = Desired, !.left = {}]
    /\ UNCHANGED <<feedVars, owed, dbVars, hand, queue, faults>>

\* ... delete the documents that should not be there, one call for each, ...
ReindexDelete ==
    /\ api.pc = "stale"
    /\ IF api.left = {}
       THEN doc' = doc /\ api' = [api EXCEPT !.pc = "next", !.todo = api.todo \cup Desired]
       ELSE \E p \in api.left :
               /\ doc' = [doc EXCEPT ![p] = NoDoc]
               /\ api' = [api EXCEPT !.left = api.left \ {p}]
    /\ UNCHANGED <<feedVars, owed, row, hand, queue, faults>>

\* ... and rebuild each document there is or should be.
ReindexNext ==
    /\ api.pc = "next"
    /\ IF api.todo = {} THEN api' = NoRequest
       ELSE \E p \in api.todo :
               api' = [api EXCEPT !.pc = "write", !.todo = api.todo \ {p}, !.prop = p,
                                  !.snap = Newest(p)]
    /\ UNCHANGED <<feedVars, owed, dbVars, hand, queue, faults>>

ApiWrite ==
    /\ api.pc = "write"
    /\ doc' = [doc EXCEPT ![api.prop] = api.snap]
    /\ api' = [api EXCEPT !.pc = "next"]
    /\ UNCHANGED <<feedVars, owed, row, hand, queue, faults>>

\* A call fails or the API stops: a rebuild is best effort, a reindex throws.
ApiFail ==
    /\ faults < MaxFaults
    /\ api.pc # "none"
    /\ api' = NoRequest
    /\ faults' = faults + 1
    /\ UNCHANGED <<feedVars, owed, dbVars, hand, queue>>

-----------------------------------------------------------------------------

Work(w) == \/ \E l \in Listing : Take(w, l)
           \/ SkipRemoval(w) \/ PreDelete(w) \/ Commit(w) \/ Enqueue(w) \/ Load(w)
           \/ Write(w)

ApiWork == \/ ReindexFetch \/ ReindexImport \/ ReindexDelete \/ ReindexNext
           \/ ApiWrite

\* The worker, while the API rebuilds nothing.
WorkerNext ==
    \/ \E l \in Listing, p \in Property, kind \in Kind : Publish(l, p, kind)
    \/ \E w \in Handler : Work(w) \/ Fail(w)
    \/ Crash

ApiNext ==
    \/ \E p \in Property : ApiRefresh(p)
    \/ Reindex \/ ApiWork \/ ApiFail

Next == WorkerNext \/ ApiNext

Spec == Init /\ [][Next]_vars

WorkerSpec == Init /\ [][WorkerNext]_vars

\* The worker keeps processing what is owed.
WorkerFairSpec == WorkerSpec /\ \A w \in Handler : WF_vars(Work(w))

-----------------------------------------------------------------------------
(* Properties.                                                             *)

WorkerAtRest == owed = {} /\ \A w \in Handler : hand[w].pc = "free"

\* The document of p is that of its newest public listing, with its latest data.
Exact(p) ==
    \/ Eligible(p) = {} /\ doc[p] = NoDoc
    \/ \E l \in Eligible(p) :
          /\ doc[p] = [listing |-> l, rev |-> row[l].rev]
          /\ \A m \in Eligible(p) : m <= l

\* Once everything is processed, every document exactly matches the property's
\* newest eligible listing, and no property without one has a document.
ExactAtRest == WorkerAtRest /\ api.pc = "none" => \A p \in Property : Exact(p)

\* A document is of a listing that is public, at that property, and up to date.
Current(p) == \E l \in Eligible(p) : doc[p] = [listing |-> l, rev |-> row[l].rev]

\* Fail closed: with one handler at a time, whatever calls fail and wherever the
\* worker stops, no hidden, removed, moved or outdated listing is ever shown, for
\* the document goes before the row changes.
FailClosed == \A p \in Property : doc[p] = NoDoc \/ Current(p)

\* With handlers side by side a rebuild may put back a document another handler
\* has just deleted, but then somebody is yet to correct it: a handler of that
\* property, or the owed record of the listing shown.
ExposureIsCorrected ==
    \A p \in Property :
        \/ doc[p] = NoDoc
        \/ Current(p)
        \/ \E l \in owed : row[l].prop = p
        \/ \E w \in Handler : hand[w].prop = p /\ hand[w].pc # "free"

\* The collection at last shows exactly the public listings, and stays so once
\* the vendor publishes no more.
EventuallyExact == <>[](\A p \in Property : Exact(p))

\* A reindex during which the worker does nothing makes the collection exact,
\* whatever documents were missing or stale before; or it fails.
ReindexRepairs ==
    \A n \in 0..MaxFaults :
        (api.pc = "fetch" /\ WorkerAtRest /\ faults = n)
            ~> (~WorkerAtRest \/ faults # n \/ \A p \in Property : Exact(p))
==============================================================================
