------------------------ MODULE PropertyIndex_proofs ------------------------
(***************************************************************************)
(* Proofs about PropertyIndex, for any number of listings, properties,     *)
(* handlers, changes and faults.  IInv is inductive; the properties of the *)
(* documents rest on it, for a worker whose parcels are fixed, for one     *)
(* that handles one record at a time, and, as to where a document comes    *)
(* from, for every handler and request there is.                           *)
(***************************************************************************)
EXTENDS PropertyIndex, NaturalsInduction, WellFoundedInduction, TLAPS

-----------------------------------------------------------------------------
(* What reconcilePropertyDocument reads.                                   *)

\* A set of listings has a newest one.
LEMMA Newer ==
    ASSUME NEW S, S \subseteq Listing, S # {}
    PROVE  \E l \in S : \A m \in S : l >= m
<1>1. MaxListing \in Nat
    BY PropertyIndexAssumption
<1> DEFINE T == {MaxListing - l : l \in S}
<1>2. T \subseteq Nat /\ T # {}
  <2>1. T # {}
      BY Zenon
  <2>2. \A l \in S : MaxListing - l \in Nat
      BY <1>1 DEF Listing
  <2> QED
      BY <2>1, <2>2
<1>3. PICK d \in T : \A e \in T : <<e, d>> \notin OpToRel(<, Nat)
    BY <1>2, WFMin, NatLessThanWellFounded, Zenon
<1>4. \A e \in T : ~(e < d)
    BY <1>2, <1>3, Zenon DEF OpToRel
<1>5. PICK l \in S : d = MaxListing - l
    BY Zenon
<1>6. \A m \in S : MaxListing - m \in T
    OBVIOUS
<1>7. \A m \in S : ~(MaxListing - m < MaxListing - l)
    BY <1>4, <1>5, <1>6
<1> QED
    BY <1>1, <1>7 DEF Listing

\* The document of a rebuild is that of the newest eligible listing, if there
\* is one.
LEMMA NewestIs ==
    ASSUME NEW p
    PROVE  \/ Eligible(p) = {} /\ Newest(p) = NoDoc
           \/ \E l \in Eligible(p) :
                 /\ Newest(p) = [listing |-> l, rev |-> row[l].rev]
                 /\ \A m \in Eligible(p) : l >= m
<1>1. CASE Eligible(p) = {}
    BY <1>1, Zenon DEF Newest
<1>2. CASE Eligible(p) # {}
  <2> DEFINE l == CHOOSE m \in Eligible(p) : \A n \in Eligible(p) : m >= n
  <2>1. Eligible(p) \subseteq Listing
      BY DEF Eligible
  <2>2. \E m \in Eligible(p) : \A n \in Eligible(p) : m >= n
      BY <1>2, <2>1, Newer, Zenon
  <2>3. l \in Eligible(p) /\ \A n \in Eligible(p) : l >= n
      BY <2>2, Zenon
  <2>4. Newest(p) = [listing |-> l, rev |-> row[l].rev]
      BY <1>2, Zenon DEF Newest
  <2> QED
      BY <2>3, <2>4, Zenon
<1> QED
    BY <1>1, <1>2

\* Eligible listings have rows.
LEMMA EligibleRow ==
    ASSUME TypeOK, NEW p, NEW l \in Eligible(p)
    PROVE  /\ l \in Listing /\ row[l].prop = p
           /\ row[l].rev \in Revs /\ p \in Property
<1>1. l \in Listing /\ row[l].prop = p /\ row[l].public
    BY DEF Eligible
<1>2. row[l] \in {NoRow} \cup [rev: Revs, prop: Property, public: BOOLEAN]
    BY <1>1 DEF TypeOK
<1>3. row[l] # NoRow
    BY <1>1 DEF NoRow
<1> QED
    BY <1>1, <1>2, <1>3

LEMMA LogLength == ASSUME TypeOK PROVE Len(log) \in Nat
    BY DEF TypeOK

LEMMA Bounds == MaxListing \in Nat
    BY PropertyIndexAssumption

LEMMA DocType ==
    ASSUME TypeOK, NEW l \in Listing, NEW n \in Revs
    PROVE  [listing |-> l, rev |-> n] \in Doc
<1>1. l \in 0..MaxListing
    BY Bounds DEF Listing
<1>2. n \in 0..Len(log)
    BY LogLength DEF Revs
<1> QED
    BY <1>1, <1>2 DEF Doc

LEMMA NoDocType == ASSUME TypeOK PROVE NoDoc \in Doc
    BY LogLength, Bounds DEF NoDoc, Doc

\* What is read is a document.
LEMMA NewestType ==
    ASSUME TypeOK, NEW p
    PROVE  Newest(p) \in Doc
<1>1. CASE Newest(p) = NoDoc
    BY <1>1, NoDocType
<1>2. ASSUME NEW l \in Eligible(p), Newest(p) = [listing |-> l, rev |-> row[l].rev]
      PROVE  Newest(p) \in Doc
    BY <1>2, EligibleRow, DocType
<1> QED
    BY <1>1, <1>2, NewestIs, Zenon

\* Two states with the same eligible listings and rows of them have the same.
LEMMA NewestSame ==
    ASSUME NEW p, Eligible(p)' = Eligible(p),
           \A l \in Eligible(p) : row'[l] = row[l]
    PROVE  Newest(p)' = Newest(p)
<1>1. CASE Eligible(p) = {}
    BY <1>1, Zenon DEF Newest
<1>2. CASE Eligible(p) # {}
  <2> DEFINE l == CHOOSE m \in Eligible(p) : \A n \in Eligible(p) : m >= n
             k == CHOOSE m \in Eligible(p)' : \A n \in Eligible(p)' : m >= n
  <2>1. Eligible(p) \subseteq Listing
      BY DEF Eligible
  <2>2. \E m \in Eligible(p) : \A n \in Eligible(p) : m >= n
      BY <1>2, <2>1, Newer, Zenon
  <2>3. l \in Eligible(p)
      BY <2>2, Zenon
  <2>4. k = l
      BY Zenon
  <2>5. Newest(p) = [listing |-> l, rev |-> row[l].rev]
      BY <1>2, Zenon DEF Newest
  <2>6. Newest(p)' = [listing |-> k, rev |-> row'[k].rev]
      BY <1>2, Zenon DEF Newest
  <2> QED
      BY <2>3, <2>4, <2>5, <2>6
<1> QED
    BY <1>1, <1>2

-----------------------------------------------------------------------------
(* The inductive invariant.                                                *)

HandType == [pc: HandPc, listing: 0..MaxListing, rev: 0..Len(log),
             prop: Property \cup {NoProperty}, snap: Doc]

\* Past its commit a handler knows where the listing is.
Committed == {"enqueue", "queued", "write"}

\* What is owed was published.
FeedInv == \A l \in owed : feed[l] \in Revs /\ log[feed[l]].listing = l

\* A handler works on what is owed, and on a row once it must have one.
HandInv ==
    \A w \in Handler :
        \/ hand[w] = Free
        \/ /\ hand[w].pc # "free"
           /\ hand[w].listing \in owed
           /\ hand[w].rev \in Revs /\ log[hand[w].rev].listing = hand[w].listing
           /\ hand[w].pc = "commit" /\ log[hand[w].rev].kind = "removed"
                 => row[hand[w].listing] # NoRow
           /\ hand[w].pc \in Committed
                 => hand[w].prop \in Property /\ row[hand[w].listing].prop = hand[w].prop

\* No two handlers have the same listing.
ApartInv ==
    \A v, w \in Handler :
        v # w /\ hand[v].pc # "free" => hand[v].listing # hand[w].listing

\* A rebuild waits in the queue of its property, and runs at its head.
QueueInv ==
    \A w \in Handler :
        /\ hand[w].pc \in {"queued", "write"}
              => \E i \in 1..Len(queue[hand[w].prop]) : queue[hand[w].prop][i] = w
        /\ hand[w].pc = "write" => Head(queue[hand[w].prop]) = w

IInv == TypeOK /\ FeedInv /\ HandInv /\ ApartInv /\ QueueInv

LEMMA NoProp == NoProperty \notin Property
    BY PropertyIndexAssumption, Zenon DEF NoProperty

LEMMA FreeType == ASSUME TypeOK PROVE Free \in HandType
    BY NoDocType, LogLength, Bounds DEF Free, HandType, HandPc

\* A row says where its listing is.
LEMMA RowIs ==
    ASSUME TypeOK, NEW l \in Listing
    PROVE  row[l] # NoRow <=> row[l].prop \in Property
<1>1. row[l] \in {NoRow} \cup [rev: Revs, prop: Property, public: BOOLEAN]
    BY DEF TypeOK
<1>2. NoRow.prop \notin Property
    BY NoProp DEF NoRow
<1> QED
    BY <1>1, <1>2

LEMMA InitIInv == Init => IInv
<1> SUFFICES ASSUME Init PROVE IInv
    OBVIOUS
<1> USE DEF Init
<1>1. log \in Seq([listing: Listing, parcel: Property, kind: Kind]) /\ Len(log) = 0
    OBVIOUS
<1>2. NoDoc \in Doc
    BY <1>1, Bounds DEF NoDoc, Doc
<1>3. \A w \in Handler : hand[w] = Free
    OBVIOUS
<1>4. hand \in [Handler -> HandType]
    BY <1>1, <1>2, Bounds DEF Free, HandType, HandPc
<1>5. api \in [pc: ApiPc, todo: SUBSET Property, left: SUBSET Property,
               prop: Property \cup {NoProperty}, snap: Doc, docs: [Property -> Doc]]
    BY <1>2 DEF NoRequest, ApiPc
<1>6. feed \in [Listing -> 0..Len(log)]
    BY <1>1
<1>7. TypeOK
    BY <1>1, <1>2, <1>4, <1>5, <1>6 DEF TypeOK, HandType
<1>8. FeedInv /\ HandInv /\ ApartInv /\ QueueInv
    BY <1>3 DEF FeedInv, HandInv, ApartInv, QueueInv, Free
<1> QED
    BY <1>7, <1>8 DEF IInv

\* The vendor publishes a change.
LEMMA PublishStep ==
    ASSUME IInv, NEW l \in Listing, NEW p \in Property, NEW kind \in Kind,
           Publish(l, p, kind)
    PROVE  IInv'
<1> USE DEF IInv
<1> DEFINE c == [listing |-> l, parcel |-> p, kind |-> kind]
           Change == [listing: Listing, parcel: Property, kind: Kind]
<1>1. c \in Change /\ log \in Seq(Change) /\ log' = Append(log, c)
    BY DEF Publish, TypeOK
<1> HIDE DEF c, Change
<1>2. /\ log' \in Seq(Change) /\ Len(log) \in Nat /\ Len(log') = Len(log) + 1
      /\ \A i \in Revs : log'[i] = log[i]
      /\ log'[Len(log) + 1] = c
    BY <1>1 DEF Revs
<1>3. Revs \subseteq Revs' /\ Len(log) + 1 \in Revs' /\ 0..Len(log) \subseteq 0..Len(log')
    BY <1>2 DEF Revs
<1>4. Doc \subseteq Doc'
    BY <1>3 DEF Doc
<1>5. feed' \in [Listing -> 0..Len(log')]
  <2>1. feed' = [feed EXCEPT ![l] = Len(log) + 1] /\ feed \in [Listing -> 0..Len(log)]
      BY DEF Publish, TypeOK
  <2> QED
      BY <1>2, <1>3, <2>1
<1>6. \A h \in HandType : h \in HandType'
    BY <1>3, <1>4 DEF HandType
<1>7. hand' = hand /\ row' = row /\ doc' = doc /\ queue' = queue /\ api' = api /\ faults' = faults
    BY DEF Publish, dbVars
<1>8. owed' = owed \cup {l}
    BY DEF Publish
<1>9. TypeOK'
  <2>1. hand' \in [Handler -> HandType']
      BY <1>6, <1>7 DEF TypeOK, HandType
  <2>2. row' \in [Listing -> {NoRow} \cup [rev: Revs', prop: Property, public: BOOLEAN]]
      BY <1>3, <1>7 DEF TypeOK
  <2>3. doc' \in [Property -> Doc']
      BY <1>4, <1>7 DEF TypeOK
  <2>4. api' \in [pc: ApiPc, todo: SUBSET Property, left: SUBSET Property,
                  prop: Property \cup {NoProperty}, snap: Doc', docs: [Property -> Doc']]
      BY <1>4, <1>7 DEF TypeOK
  <2>5. log' \in Seq([listing: Listing, parcel: Property, kind: Kind])
      BY <1>2 DEF Change
  <2>6. owed' \subseteq Listing /\ queue' \in [Property -> Seq(Handler)] /\ faults' \in Nat
      BY <1>7, <1>8 DEF TypeOK
  <2> QED
      BY <1>5, <2>1, <2>2, <2>3, <2>4, <2>5, <2>6 DEF TypeOK, HandType
<1>10. FeedInv'
  <2>1. c.listing = l
      BY DEF c
  <2>2. feed' = [feed EXCEPT ![l] = Len(log) + 1] /\ feed \in [Listing -> 0..Len(log)]
      BY DEF Publish, TypeOK
  <2> QED
      BY <1>2, <1>3, <1>8, <2>1, <2>2 DEF FeedInv
<1>11. HandInv'
    BY <1>2, <1>3, <1>7, <1>8 DEF HandInv
<1>12. ApartInv' /\ QueueInv'
    BY <1>7 DEF ApartInv, QueueInv
<1> QED
    BY <1>9, <1>10, <1>11, <1>12

\* A handler at work holds a well-typed record.
LEMMA HandIs ==
    ASSUME IInv, NEW w \in Handler
    PROVE  /\ hand[w] \in HandType
           /\ hand \in [Handler -> HandType]
           /\ hand[w].pc # "free" =>
                 /\ hand[w].listing \in owed /\ hand[w].listing \in Listing
                 /\ hand[w].rev \in Revs /\ log[hand[w].rev].listing = hand[w].listing
                 /\ log[hand[w].rev] \in [listing: Listing, parcel: Property, kind: Kind]
           /\ hand[w].pc = "free" => hand[w] = Free
<1>1. hand \in [Handler -> HandType]
    BY DEF IInv, TypeOK, HandType
<1>2. hand[w].pc # "free" => hand[w].listing \in owed /\ hand[w].rev \in Revs
                             /\ log[hand[w].rev].listing = hand[w].listing
    BY DEF IInv, HandInv, Free
<1>3. owed \subseteq Listing
    BY DEF IInv, TypeOK
<1> DEFINE Change == [listing: Listing, parcel: Property, kind: Kind]
<1>4. \A i \in Revs : log[i] \in Change
  <2>1. log \in Seq(Change)
      BY DEF IInv, TypeOK
  <2> HIDE DEF Change
  <2> QED
      BY <2>1 DEF Revs
<1>5. hand[w].pc = "free" => hand[w] = Free
    BY DEF IInv, HandInv
<1> QED
    BY <1>1, <1>2, <1>3, <1>4, <1>5

\* A handler moves on: the feed and the API stay.
LEMMA MoveStep ==
    ASSUME IInv, NEW w \in Handler, NEW r \in HandType,
           hand' = [hand EXCEPT ![w] = r],
           UNCHANGED <<log, feed, api>>,
           owed' \subseteq owed,
           \A v \in Handler : v # w /\ hand[v].pc # "free" => hand[v].listing \in owed',
           row' \in [Listing -> {NoRow} \cup [rev: Revs, prop: Property, public: BOOLEAN]],
           \A l \in Listing : l # r.listing => row'[l] = row[l],
           doc' \in [Property -> Doc], queue' \in [Property -> Seq(Handler)],
           faults' \in Nat,
           r = Free \/
              /\ r.pc # "free"
              /\ r.listing \in owed'
              /\ \A v \in Handler : v # w => hand[v].listing # r.listing
              /\ r.rev \in Revs /\ log[r.rev].listing = r.listing
              /\ r.pc = "commit" /\ log[r.rev].kind = "removed"
                    => row'[r.listing] # NoRow
              /\ r.pc \in Committed
                    => r.prop \in Property /\ row'[r.listing].prop = r.prop,
           QueueInv'
    PROVE  IInv'
<1> USE DEF IInv
<1>1. hand \in [Handler -> HandType] /\ log' = log /\ feed' = feed /\ api' = api
    BY HandIs
<1>2. hand' \in [Handler -> HandType] /\ hand'[w] = r
    BY <1>1
<1>3. \A v \in Handler : v # w => hand'[v] = hand[v]
    BY <1>1
<1>4. Doc' = Doc /\ Revs' = Revs
    BY <1>1 DEF Doc, Revs
<1>5. TypeOK'
    BY <1>1, <1>2, <1>4 DEF TypeOK, HandType
<1>6. FeedInv'
    BY <1>1, <1>4 DEF FeedInv
<1>7. HandInv'
  <2> SUFFICES ASSUME NEW v \in Handler
               PROVE  \/ hand'[v] = Free
                      \/ /\ hand'[v].pc # "free"
                         /\ hand'[v].listing \in owed'
                         /\ hand'[v].rev \in Revs
                         /\ log[hand'[v].rev].listing = hand'[v].listing
                         /\ hand'[v].pc = "commit" /\ log[hand'[v].rev].kind = "removed"
                               => row'[hand'[v].listing] # NoRow
                         /\ hand'[v].pc \in Committed
                               => hand'[v].prop \in Property
                                  /\ row'[hand'[v].listing].prop = hand'[v].prop
      BY <1>1, <1>4 DEF HandInv
  <2>1. CASE v = w
      BY <2>1, <1>2
  <2>2. CASE v # w /\ hand[v] = Free
      BY <2>2, <1>3
  <2>3. CASE v # w /\ hand[v] # Free
    <3>1. /\ hand[v].pc # "free" /\ hand[v].listing \in Listing
          /\ hand[v].rev \in Revs /\ log[hand[v].rev].listing = hand[v].listing
        BY <2>3, HandIs
    <3>2. r.listing # hand[v].listing
      <4>1. CASE r = Free
        <5>1. r.listing = 0
            BY <4>1 DEF Free
        <5>2. hand[v].listing # 0
            BY <3>1, Bounds DEF Listing
        <5> QED
            BY <5>1, <5>2
      <4> QED
          BY <2>3, <4>1
    <3>3. row'[hand[v].listing] = row[hand[v].listing]
        BY <3>1, <3>2
    <3> QED
        BY <1>3, <2>3, <3>1, <3>3 DEF HandInv
  <2> QED
      BY <2>1, <2>2, <2>3
<1>8. ApartInv'
  <2> SUFFICES ASSUME NEW u \in Handler, NEW v \in Handler, u # v, hand'[u].pc # "free"
               PROVE  hand'[u].listing # hand'[v].listing
      BY DEF ApartInv
  <2>1. CASE u # w /\ v # w
      BY <2>1, <1>3 DEF ApartInv
  <2>2. CASE u = w
    <3>1. r # Free
        BY <2>2, <1>2 DEF Free
    <3> QED
        BY <3>1, <2>2, <1>2, <1>3
  <2>3. CASE v = w /\ r = Free
    <3>1. hand[u].listing \in Listing /\ hand'[u] = hand[u]
        BY <2>3, <1>3, HandIs
    <3>2. hand[u].listing # 0
        BY <3>1, Bounds DEF Listing
    <3> QED
        BY <2>3, <3>1, <3>2, <1>2 DEF Free
  <2>4. CASE v = w /\ r # Free
      BY <2>4, <1>2, <1>3
  <2> QED
      BY <2>1, <2>2, <2>3, <2>4
<1> QED
    BY <1>5, <1>6, <1>7, <1>8

\* QueueInv as it stays when no queue changes and w goes to r.
LEMMA QueueStep ==
    ASSUME IInv, NEW w \in Handler, NEW r,
           hand' = [hand EXCEPT ![w] = r], queue' = queue,
           r.pc \in {"queued", "write"} => hand[w].pc = "queued" /\ r.prop = hand[w].prop,
           r.pc = "write" => Head(queue[r.prop]) = w
    PROVE  QueueInv'
<1>1. hand \in [Handler -> HandType]
    BY HandIs
<1>2. hand'[w] = r /\ \A v \in Handler : v # w => hand'[v] = hand[v]
    BY <1>1
<1> SUFFICES ASSUME NEW v \in Handler
             PROVE  /\ hand'[v].pc \in {"queued", "write"}
                          => \E i \in 1..Len(queue[hand'[v].prop]) : queue[hand'[v].prop][i] = v
                    /\ hand'[v].pc = "write" => Head(queue[hand'[v].prop]) = v
    BY DEF QueueInv
<1>3. CASE v # w
    BY <1>2, <1>3 DEF IInv, QueueInv
<1>4. CASE v = w
    BY <1>2, <1>4 DEF IInv, QueueInv
<1> QED
    BY <1>3, <1>4

\* The handler whose rebuild is at the head leaves.
LEMMA LeaveStep ==
    ASSUME IInv, NEW w \in Handler, hand[w].pc = "write",
           hand' = [hand EXCEPT ![w] = Free], queue' = Leave(w)
    PROVE  queue' \in [Property -> Seq(Handler)] /\ QueueInv'
<1> USE DEF IInv
<1> DEFINE p == hand[w].prop
           q == queue[p]
<1>1. hand \in [Handler -> HandType] /\ p \in Property
    BY HandIs DEF HandInv, Committed, Free
<1>2. hand'[w] = Free /\ \A v \in Handler : v # w => hand'[v] = hand[v]
    BY <1>1
<1>3. queue \in [Property -> Seq(Handler)]
    BY DEF TypeOK
<1>4. q \in Seq(Handler)
    BY <1>1, <1>3
<1>5. PICK i \in 1..Len(q) : q[i] = w
    BY DEF QueueInv
<1>6. Head(q) = w
    BY DEF QueueInv
<1>7. queue' = [queue EXCEPT ![p] = Tail(q)]
    BY DEF Leave
<1> HIDE DEF p, q
<1>8. q # << >>
    BY <1>4, <1>5
<1>9. /\ Tail(q) \in Seq(Handler) /\ Len(Tail(q)) = Len(q) - 1 /\ q[1] = w
      /\ \A j \in 1..Len(q) : j # 1 => j - 1 \in 1..Len(Tail(q)) /\ Tail(q)[j - 1] = q[j]
    BY <1>4, <1>6, <1>8
<1>10. queue' \in [Property -> Seq(Handler)]
    BY <1>3, <1>7, <1>9
<1>11. QueueInv'
  <2> SUFFICES ASSUME NEW v \in Handler, hand'[v].pc \in {"queued", "write"}
               PROVE  /\ \E k \in 1..Len(queue'[hand'[v].prop]) : queue'[hand'[v].prop][k] = v
                      /\ hand'[v].pc = "write" => Head(queue'[hand'[v].prop]) = v
      BY DEF QueueInv
  <2>1. v # w /\ hand'[v] = hand[v]
      BY <1>2 DEF Free
  <2>2. hand[v].prop \in Property
      BY <2>1 DEF HandInv, Committed, Free
  <2>3. PICK k \in 1..Len(queue[hand[v].prop]) : queue[hand[v].prop][k] = v
      BY <2>1 DEF QueueInv
  <2>4. hand[v].pc = "write" => Head(queue[hand[v].prop]) = v
      BY DEF QueueInv
  <2>5. CASE hand[v].prop # p
    <3>1. queue'[hand[v].prop] = queue[hand[v].prop]
        BY <1>3, <1>7, <2>2, <2>5
    <3> QED
        BY <2>1, <2>3, <2>4, <3>1
  <2>6. CASE hand[v].prop = p
    <3>1. queue'[hand[v].prop] = Tail(q)
        BY <1>1, <1>3, <1>7, <2>6
    <3>2. k \in 1..Len(q) /\ q[k] = v /\ k # 1
        BY <1>9, <2>1, <2>3, <2>6 DEF q
    <3>3. hand[v].pc # "write"
        BY <1>6, <2>1, <2>4, <2>6 DEF q
    <3>4. Tail(q)[k - 1] = v /\ k - 1 \in 1..Len(Tail(q))
        BY <1>9, <3>2
    <3> QED
        BY <2>1, <3>1, <3>3, <3>4
  <2> QED
      BY <2>5, <2>6
<1> QED
    BY <1>10, <1>11

\* Settling a record takes nothing from the other handlers.
LEMMA SettledIs ==
    ASSUME IInv, NEW w \in Handler, hand[w].pc # "free"
    PROVE  /\ Settled(w) \subseteq owed
           /\ \A l \in owed : l # hand[w].listing => l \in Settled(w)
           /\ \A v \in Handler : v # w /\ hand[v].pc # "free" => hand[v].listing \in Settled(w)
<1>1. \A v \in Handler : v # w /\ hand[v].pc # "free" =>
          hand[v].listing \in owed /\ hand[v].listing # hand[w].listing
    BY HandIs DEF IInv, ApartInv
<1> QED
    BY <1>1 DEF Settled

LEMMA TakeStep ==
    ASSUME IInv, NEW w \in Handler, NEW l \in Listing, Take(w, l)
    PROVE  IInv'
<1> DEFINE r == [Free EXCEPT !.pc = "delete", !.listing = l, !.rev = feed[l]]
<1>1. l \in owed /\ hand[w] = Free /\ hand' = [hand EXCEPT ![w] = r]
    BY HandIs DEF Take
<1>2. feed[l] \in Revs /\ log[feed[l]].listing = l
    BY <1>1 DEF IInv, FeedInv
<1>3. Free \in HandType /\ l \in 0..MaxListing /\ feed[l] \in 0..Len(log)
    BY <1>2, FreeType, Bounds, LogLength DEF IInv, Listing, Revs
<1>4. r \in HandType
    BY <1>3 DEF HandType, HandPc
<1>5. r.pc = "delete" /\ r.listing = l /\ r.rev = feed[l]
    BY DEF Free
<1> HIDE DEF r
<1>6. QueueInv'
    BY <1>1, <1>5, QueueStep DEF Take
<1>7. \A v \in Handler : hand[v].listing # l
    BY DEF Take
<1>8. /\ UNCHANGED <<log, feed, api>> /\ owed' = owed /\ row' = row /\ doc' = doc
      /\ queue' = queue /\ faults' = faults
    BY DEF Take, feedVars, dbVars
<1> QED
    BY <1>1, <1>2, <1>4, <1>5, <1>6, <1>7, <1>8, MoveStep, HandIs DEF IInv, TypeOK, Committed

LEMMA SkipRemovalStep ==
    ASSUME IInv, NEW w \in Handler, SkipRemoval(w)
    PROVE  IInv'
<1>1. hand[w].pc # "free" /\ hand' = [hand EXCEPT ![w] = Free] /\ owed' = Settled(w)
    BY DEF SkipRemoval
<1>2. Free \in HandType
    BY FreeType DEF IInv
<1>3. /\ UNCHANGED <<log, feed, api>> /\ row' = row /\ doc' = doc
      /\ queue' = queue /\ faults' = faults
    BY DEF SkipRemoval, feedVars, dbVars
<1>4. QueueInv'
    BY <1>1, <1>3, QueueStep DEF Free
<1> QED
    BY <1>1, <1>2, <1>3, <1>4, SettledIs, MoveStep DEF IInv, TypeOK

LEMMA PreDeleteStep ==
    ASSUME IInv, NEW w \in Handler, PreDelete(w)
    PROVE  IInv'
<1> DEFINE l == hand[w].listing
           r == [hand[w] EXCEPT !.pc = "commit"]
<1>1. hand[w].pc = "delete" /\ hand' = [hand EXCEPT ![w] = r]
    BY DEF PreDelete
<1>2. hand[w] \in HandType
    BY HandIs
<1>3. r \in HandType
    BY <1>2 DEF HandType, HandPc
<1>4. r.pc = "commit" /\ r.listing = l /\ r.rev = hand[w].rev
    BY <1>2 DEF HandType
<1>5. /\ UNCHANGED <<log, feed, api>> /\ owed' = owed /\ row' = row
      /\ queue' = queue /\ faults' = faults
    BY DEF PreDelete, feedVars
<1>6. log[hand[w].rev].kind = "removed" => row[l] # NoRow
    BY DEF PreDelete
<1>7. doc' \in [Property -> Doc]
    BY NoDocType DEF PreDelete, IInv, TypeOK
<1>8. l \in owed /\ l \in Listing /\ hand[w].rev \in Revs /\ log[hand[w].rev].listing = l
    BY <1>1, HandIs
<1>9. \A v \in Handler : v # w => hand[v].listing # l
    BY <1>1 DEF IInv, ApartInv
<1> HIDE DEF r
<1>10. QueueInv'
    BY <1>1, <1>4, <1>5, QueueStep
<1> QED
    BY <1>1, <1>3, <1>4, <1>5, <1>6, <1>7, <1>8, <1>9, <1>10, MoveStep, HandIs
    DEF IInv, TypeOK, Committed

\* A committed row is one, at the property the handler rebuilds.
LEMMA CommitIs ==
    ASSUME IInv, NEW w \in Handler, Commit(w)
    PROVE  \E p \in Property, b \in BOOLEAN :
              /\ row' = [row EXCEPT ![hand[w].listing] =
                            [rev |-> hand[w].rev, prop |-> p, public |-> b]]
              /\ hand' = [hand EXCEPT ![w] = [hand[w] EXCEPT !.pc = "enqueue", !.prop = p]]
              /\ \/ p = log[hand[w].rev].parcel
                 \/ row[hand[w].listing] # NoRow /\ p = row[hand[w].listing].prop
<1> DEFINE l == hand[w].listing
           change == log[hand[w].rev]
           p == IF change.kind = "removed" THEN row[l].prop ELSE change.parcel
<1>1. hand[w].pc = "commit"
    BY DEF Commit
<1>2. l \in Listing /\ change.parcel \in Property
    BY <1>1, HandIs
<1>3. change.kind = "removed" => row[l] # NoRow
    BY <1>1 DEF IInv, HandInv, Free
<1>4. p \in Property
    BY <1>2, <1>3, RowIs DEF IInv
<1>5. /\ row' = [row EXCEPT ![l] = [rev |-> hand[w].rev, prop |-> p,
                                     public |-> change.kind = "public"]]
      /\ hand' = [hand EXCEPT ![w] = [hand[w] EXCEPT !.pc = "enqueue", !.prop = p]]
    BY DEF Commit
<1>6. (change.kind = "public") \in BOOLEAN
    OBVIOUS
<1>7. p = change.parcel \/ (row[l] # NoRow /\ p = row[l].prop)
    BY <1>3
<1> HIDE DEF p
<1> QED
    BY <1>4, <1>5, <1>6, <1>7

LEMMA CommitStep ==
    ASSUME IInv, NEW w \in Handler, Commit(w)
    PROVE  IInv'
<1> DEFINE l == hand[w].listing
<1>1. PICK p \in Property, b \in BOOLEAN :
          /\ row' = [row EXCEPT ![l] = [rev |-> hand[w].rev, prop |-> p, public |-> b]]
          /\ hand' = [hand EXCEPT ![w] = [hand[w] EXCEPT !.pc = "enqueue", !.prop = p]]
    BY CommitIs
<1> DEFINE r == [hand[w] EXCEPT !.pc = "enqueue", !.prop = p]
           t == [rev |-> hand[w].rev, prop |-> p, public |-> b]
<1>2. hand[w].pc = "commit"
    BY DEF Commit
<1>3. hand[w] \in HandType
    BY HandIs
<1>4. r \in HandType
    BY <1>3 DEF HandType, HandPc
<1>5. r.pc = "enqueue" /\ r.listing = l /\ r.rev = hand[w].rev /\ r.prop = p
    BY <1>3 DEF HandType
<1>6. /\ UNCHANGED <<log, feed, api>> /\ owed' = owed /\ doc' = doc
      /\ queue' = queue /\ faults' = faults
    BY DEF Commit, feedVars
<1>7. l \in owed /\ l \in Listing /\ hand[w].rev \in Revs /\ log[hand[w].rev].listing = l
    BY <1>2, HandIs
<1>8. t \in [rev: Revs, prop: Property, public: BOOLEAN] /\ t.prop = p
    BY <1>7
<1>9. \A v \in Handler : v # w => hand[v].listing # l
    BY <1>2 DEF IInv, ApartInv
<1> DEFINE Rows == {NoRow} \cup [rev: Revs, prop: Property, public: BOOLEAN]
<1>10. row \in [Listing -> Rows] /\ t \in Rows /\ row' = [row EXCEPT ![l] = t]
    BY <1>1, <1>8 DEF IInv, TypeOK
<1> HIDE DEF r, t, Rows
<1>11. row' \in [Listing -> Rows] /\ row'[l] = t /\ \A m \in Listing : m # l => row'[m] = row[m]
    BY <1>7, <1>10
<1>12. QueueInv'
    BY <1>1, <1>5, <1>6, QueueStep DEF r
<1>13. hand' = [hand EXCEPT ![w] = r]
    BY <1>1 DEF r
<1>14. /\ doc' \in [Property -> Doc] /\ queue' \in [Property -> Seq(Handler)]
       /\ faults' \in Nat
    BY <1>6 DEF IInv, TypeOK
<1>15. \A v \in Handler : v # w /\ hand[v].pc # "free" => hand[v].listing \in owed'
    BY <1>6, HandIs
<1>16. /\ r.pc # "free" /\ r.listing \in owed'
       /\ \A v \in Handler : v # w => hand[v].listing # r.listing
       /\ r.rev \in Revs /\ log[r.rev].listing = r.listing
       /\ (r.pc = "commit" /\ log[r.rev].kind = "removed" => row'[r.listing] # NoRow)
       /\ (r.pc \in Committed => r.prop \in Property /\ row'[r.listing].prop = r.prop)
    BY <1>5, <1>6, <1>7, <1>8, <1>9, <1>11
<1>17. /\ row' \in [Listing -> {NoRow} \cup [rev: Revs, prop: Property, public: BOOLEAN]]
       /\ \A m \in Listing : m # r.listing => row'[m] = row[m]
    BY <1>5, <1>11 DEF Rows
<1>18. UNCHANGED <<log, feed, api>> /\ owed' \subseteq owed
    BY <1>6
<1> QED
    BY <1>4, <1>12, <1>13, <1>14, <1>15, <1>16, <1>17, <1>18, MoveStep

LEMMA EnqueueStep ==
    ASSUME IInv, NEW w \in Handler, Enqueue(w)
    PROVE  IInv'
<1> USE DEF IInv
<1> DEFINE p == hand[w].prop
           q == queue[p]
           r == [hand[w] EXCEPT !.pc = "queued"]
<1>1. /\ hand[w].pc = "enqueue" /\ hand' = [hand EXCEPT ![w] = r]
      /\ queue' = [queue EXCEPT ![p] = Append(q, w)]
    BY DEF Enqueue
<1>2. hand[w] \in HandType /\ hand \in [Handler -> HandType]
    BY HandIs
<1>3. r \in HandType
    BY <1>2 DEF HandType, HandPc
<1>4. r.pc = "queued" /\ r.listing = hand[w].listing /\ r.rev = hand[w].rev /\ r.prop = p
    BY <1>2 DEF HandType
<1> HIDE DEF r
<1>5. p \in Property /\ row[hand[w].listing].prop = p
    BY <1>1 DEF HandInv, Committed, Free
<1>6. queue \in [Property -> Seq(Handler)] /\ q \in Seq(Handler)
    BY <1>5 DEF TypeOK
<1> HIDE DEF p, q
<1>7. /\ Append(q, w) \in Seq(Handler) /\ Len(Append(q, w)) = Len(q) + 1
      /\ Len(q) \in Nat /\ Append(q, w)[Len(q) + 1] = w
      /\ \A i \in 1..Len(q) : Append(q, w)[i] = q[i]
      /\ Len(q) > 0 => Head(Append(q, w)) = Head(q)
    BY <1>6
<1>8. /\ queue' \in [Property -> Seq(Handler)] /\ queue'[p] = Append(q, w)
      /\ \A s \in Property : s # p => queue'[s] = queue[s]
    BY <1>1, <1>5, <1>6, <1>7
<1>9. hand'[w] = r /\ \A v \in Handler : v # w => hand'[v] = hand[v]
    BY <1>1, <1>2
<1>10. QueueInv'
  <2> SUFFICES ASSUME NEW v \in Handler, hand'[v].pc \in {"queued", "write"}
               PROVE  /\ \E k \in 1..Len(queue'[hand'[v].prop]) : queue'[hand'[v].prop][k] = v
                      /\ hand'[v].pc = "write" => Head(queue'[hand'[v].prop]) = v
      BY DEF QueueInv
  <2>1. CASE v = w
    <3>1. Len(q) + 1 \in 1..Len(Append(q, w))
        BY <1>7
    <3> QED
        BY <2>1, <3>1, <1>4, <1>7, <1>8, <1>9
  <2>2. CASE v # w
    <3>1. hand'[v] = hand[v] /\ hand[v].prop \in Property
        BY <2>2, <1>9 DEF HandInv, Committed, Free
    <3>2. PICK k \in 1..Len(queue[hand[v].prop]) : queue[hand[v].prop][k] = v
        BY <3>1 DEF QueueInv
    <3>3. hand[v].pc = "write" => Head(queue[hand[v].prop]) = v
        BY DEF QueueInv
    <3>4. CASE hand[v].prop # p
        BY <3>1, <3>2, <3>3, <3>4, <1>8
    <3>5. CASE hand[v].prop = p
      <4>1. k \in 1..Len(q) /\ q[k] = v /\ (hand[v].pc = "write" => Head(q) = v)
          BY <3>2, <3>3, <3>5 DEF q
      <4>2. k \in 1..Len(Append(q, w)) /\ Len(q) > 0
          BY <4>1, <1>7
      <4> QED
          BY <3>1, <3>5, <4>1, <4>2, <1>7, <1>8
    <3> QED
        BY <3>4, <3>5
  <2> QED
      BY <2>1, <2>2
<1>11. /\ UNCHANGED <<log, feed, api>> /\ owed' = owed /\ row' = row /\ doc' = doc
       /\ faults' = faults
    BY DEF Enqueue, feedVars, dbVars
<1>12. hand[w].listing \in owed /\ hand[w].rev \in Revs /\ log[hand[w].rev].listing = hand[w].listing
    BY <1>1, HandIs
<1>13. \A v \in Handler : v # w => hand[v].listing # hand[w].listing
    BY <1>1 DEF ApartInv
<1>14. /\ doc' \in [Property -> Doc] /\ faults' \in Nat
       /\ row' \in [Listing -> {NoRow} \cup [rev: Revs, prop: Property, public: BOOLEAN]]
    BY <1>11 DEF TypeOK
<1>15. /\ r.pc # "free" /\ r.listing \in owed'
       /\ \A v \in Handler : v # w => hand[v].listing # r.listing
       /\ r.rev \in Revs /\ log[r.rev].listing = r.listing
       /\ r.pc # "commit" /\ r.prop \in Property /\ row'[r.listing].prop = r.prop
    BY <1>4, <1>5, <1>11, <1>12, <1>13
<1>16. \A v \in Handler : v # w /\ hand[v].pc # "free" => hand[v].listing \in owed'
    BY <1>11, HandIs
<1> QED
    BY <1>1, <1>3, <1>8, <1>10, <1>11, <1>14, <1>15, <1>16, MoveStep

LEMMA LoadStep ==
    ASSUME IInv, NEW w \in Handler, Load(w)
    PROVE  IInv'
<1> DEFINE p == hand[w].prop
           s == Newest(p)
           r == [hand[w] EXCEPT !.pc = "write", !.snap = s]
<1>1. hand[w].pc = "queued" /\ Head(queue[p]) = w /\ hand' = [hand EXCEPT ![w] = r]
    BY DEF Load
<1>2. hand[w] \in HandType /\ s \in Doc
    BY HandIs, NewestType DEF IInv
<1> HIDE DEF s
<1>3. r \in HandType
    BY <1>2 DEF HandType, HandPc
<1>4. r.pc = "write" /\ r.listing = hand[w].listing /\ r.rev = hand[w].rev /\ r.prop = p
    BY <1>2 DEF HandType
<1> HIDE DEF r
<1>5. p \in Property /\ row[hand[w].listing].prop = p
    BY <1>1 DEF IInv, HandInv, Committed, Free
<1>6. /\ UNCHANGED <<log, feed, api>> /\ owed' = owed /\ row' = row /\ doc' = doc
      /\ queue' = queue /\ faults' = faults
    BY DEF Load, feedVars, dbVars
<1>7. QueueInv'
    BY <1>1, <1>4, <1>6, QueueStep
<1>8. hand[w].listing \in owed /\ hand[w].rev \in Revs /\ log[hand[w].rev].listing = hand[w].listing
    BY <1>1, HandIs
<1>9. \A v \in Handler : v # w => hand[v].listing # hand[w].listing
    BY <1>1 DEF IInv, ApartInv
<1> QED
    BY <1>1, <1>3, <1>4, <1>5, <1>6, <1>7, <1>8, <1>9, MoveStep, HandIs
    DEF IInv, TypeOK

LEMMA WriteStep ==
    ASSUME IInv, NEW w \in Handler, Write(w)
    PROVE  IInv'
<1>1. /\ hand[w].pc = "write" /\ hand' = [hand EXCEPT ![w] = Free]
      /\ owed' = Settled(w) /\ queue' = Leave(w)
    BY DEF Write
<1>2. queue' \in [Property -> Seq(Handler)] /\ QueueInv'
    BY <1>1, LeaveStep
<1>3. hand[w].snap \in Doc
    BY HandIs DEF HandType
<1>4. doc' \in [Property -> Doc]
    BY <1>3 DEF Write, IInv, TypeOK
<1>5. UNCHANGED <<log, feed, api>> /\ row' = row /\ faults' = faults
    BY DEF Write, feedVars
<1> QED
    BY <1>1, <1>2, <1>4, <1>5, FreeType, SettledIs, MoveStep DEF IInv, TypeOK

LEMMA FailStep ==
    ASSUME IInv, NEW w \in Handler, Fail(w)
    PROVE  IInv'
<1>1. /\ hand[w].pc # "free" /\ hand' = [hand EXCEPT ![w] = Free]
      /\ owed' = owed /\ faults' \in Nat
    BY DEF Fail, IInv, TypeOK
<1>2. UNCHANGED <<log, feed, api>> /\ row' = row /\ doc' = doc
    BY DEF Fail, feedVars, dbVars
<1>3. queue' \in [Property -> Seq(Handler)] /\ QueueInv'
  <2>1. CASE hand[w].pc = "write"
      BY <1>1, <2>1, LeaveStep DEF Fail
  <2>2. CASE hand[w].pc # "write"
      BY <1>1, <2>2, QueueStep DEF Fail, Free, IInv, TypeOK
  <2> QED
      BY <2>1, <2>2
<1> QED
    BY <1>1, <1>2, <1>3, FreeType, HandIs, MoveStep DEF IInv, TypeOK

LEMMA CrashStep ==
    ASSUME IInv, Crash
    PROVE  IInv'
<1> USE DEF IInv
<1>1. /\ hand' = [w \in Handler |-> Free] /\ queue' = [p \in Property |-> << >>]
      /\ faults' \in Nat
    BY DEF Crash, TypeOK
<1>2. UNCHANGED <<log, feed, owed, row, doc, api>>
    BY DEF Crash, feedVars, dbVars
<1>3. Doc' = Doc /\ Revs' = Revs
    BY <1>2 DEF Doc, Revs
<1>4. hand' \in [Handler -> HandType]
    BY <1>1, FreeType
<1>5. queue' \in [Property -> Seq(Handler)]
    BY <1>1
<1>6. TypeOK'
    BY <1>1, <1>2, <1>3, <1>4, <1>5 DEF TypeOK, HandType
<1>7. FeedInv'
    BY <1>2, <1>3 DEF FeedInv
<1>8. HandInv' /\ ApartInv' /\ QueueInv'
    BY <1>1 DEF HandInv, ApartInv, QueueInv, Free
<1> QED
    BY <1>6, <1>7, <1>8

-----------------------------------------------------------------------------
(* The API changes documents and nothing the handlers rest on.             *)

ApiType == [pc: ApiPc, todo: SUBSET Property, left: SUBSET Property,
            prop: Property \cup {NoProperty},
            snap: Doc, docs: [Property -> Doc]]

LEMMA ApiKeeps ==
    ASSUME IInv, UNCHANGED <<log, feed, owed, row, hand, queue>>,
           doc' \in [Property -> Doc], api' \in ApiType, faults' \in Nat
    PROVE  IInv'
<1> USE DEF IInv
<1>1. Doc' = Doc /\ Revs' = Revs
    BY DEF Doc, Revs
<1>2. TypeOK'
    BY <1>1 DEF TypeOK, ApiType
<1>3. FeedInv'
    BY <1>1 DEF FeedInv
<1>4. HandInv'
    BY <1>1 DEF HandInv
<1>5. ApartInv' /\ QueueInv'
    BY DEF ApartInv, QueueInv
<1> QED
    BY <1>2, <1>3, <1>4, <1>5

LEMMA ApiStep ==
    ASSUME IInv, ApiNext
    PROVE  IInv'
<1>1. api \in ApiType /\ doc \in [Property -> Doc] /\ faults \in Nat
    BY DEF IInv, TypeOK, ApiType
<1>2. NoRequest \in ApiType
    BY NoDocType DEF IInv, NoRequest, ApiType, ApiPc
<1>3. \A p : Newest(p) \in Doc
    BY NewestType DEF IInv
<1> USE DEF dbVars, feedVars
<1>4. ASSUME NEW p \in Property, ApiRefresh(p)
      PROVE  IInv'
  <2> DEFINE s == Newest(p)
  <2>1. s \in Doc /\ api' = [NoRequest EXCEPT !.pc = "write", !.prop = p, !.snap = s]
      BY <1>3, <1>4 DEF ApiRefresh
  <2> HIDE DEF s
  <2>2. api' \in ApiType
      BY <1>2, <2>1 DEF ApiType, ApiPc
  <2> QED
      BY <1>1, <1>4, <2>2, ApiKeeps DEF ApiRefresh
<1>5. CASE Reindex
  <2>1. api' \in ApiType
      BY <1>2, <1>5 DEF Reindex, ApiType, ApiPc
  <2> QED
      BY <1>1, <1>5, <2>1, ApiKeeps DEF Reindex
<1>6. CASE ReindexFetch
  <2> DEFINE d == [p \in Property |-> Newest(p)]
  <2>1. d \in [Property -> Doc] /\ api' = [api EXCEPT !.pc = "import", !.docs = d]
      BY <1>3, <1>6 DEF ReindexFetch
  <2> HIDE DEF d
  <2>2. api' \in ApiType
      BY <1>1, <2>1 DEF ApiType, ApiPc
  <2> QED
      BY <1>1, <1>6, <2>2, ApiKeeps DEF ReindexFetch
<1>7. CASE ReindexImport
  <2>1. api.docs \in [Property -> Doc] /\ api' \in ApiType
      BY <1>1, <1>7 DEF ReindexImport, ApiType, ApiPc
  <2>2. doc' \in [Property -> Doc]
      BY <1>1, <1>7, <2>1 DEF ReindexImport
  <2> QED
      BY <1>1, <1>7, <2>1, <2>2, ApiKeeps DEF ReindexImport
<1>8. CASE ReindexDelete
  <2>1. /\ api.todo \in SUBSET Property /\ api.left \in SUBSET Property
        /\ api.todo \cup Desired \in SUBSET Property
      BY <1>1 DEF ApiType, Desired
  <2>2. api' \in ApiType
    <3>1. CASE api.left = {}
        BY <1>1, <1>8, <2>1, <3>1 DEF ReindexDelete, ApiType, ApiPc
    <3>2. CASE api.left # {}
      <4>1. PICK p \in api.left : api' = [api EXCEPT !.left = api.left \ {p}]
          BY <1>8, <3>2 DEF ReindexDelete
      <4> QED
          BY <1>1, <2>1, <4>1 DEF ApiType
    <3> QED
        BY <3>1, <3>2
  <2>3. doc' \in [Property -> Doc]
    <3>1. NoDoc \in Doc
        BY NoDocType DEF IInv
    <3> QED
        BY <1>1, <1>8, <2>1, <3>1 DEF ReindexDelete
  <2> QED
      BY <1>1, <1>8, <2>2, <2>3, ApiKeeps DEF ReindexDelete
<1>9. CASE ReindexNext
  <2>1. CASE api' = NoRequest
      BY <1>1, <1>2, <1>9, <2>1, ApiKeeps DEF ReindexNext
  <2>2. ASSUME NEW p \in api.todo,
               api' = [api EXCEPT !.pc = "write", !.todo = api.todo \ {p}, !.prop = p,
                                  !.snap = Newest(p)]
        PROVE  IInv'
    <3> DEFINE s == Newest(p)
    <3>1. s \in Doc /\ api' = [api EXCEPT !.pc = "write", !.todo = api.todo \ {p}, !.prop = p, !.snap = s]
        BY <1>3, <2>2
    <3> HIDE DEF s
    <3>2. api' \in ApiType
        BY <1>1, <3>1 DEF ApiType, ApiPc
    <3> QED
        BY <1>1, <1>9, <3>2, ApiKeeps DEF ReindexNext
  <2> QED
      BY <1>9, <2>1, <2>2 DEF ReindexNext
<1>10. CASE ApiWrite
  <2>1. api.snap \in Doc /\ api' \in ApiType
      BY <1>1, <1>10 DEF ApiWrite, ApiType, ApiPc
  <2>2. doc' \in [Property -> Doc]
      BY <1>1, <1>10, <2>1 DEF ApiWrite
  <2> QED
      BY <1>1, <1>10, <2>1, <2>2, ApiKeeps DEF ApiWrite
<1>11. CASE ApiFail
    BY <1>1, <1>2, <1>11, ApiKeeps DEF ApiFail
<1> QED
    BY <1>4, <1>5, <1>6, <1>7, <1>8, <1>9, <1>10, <1>11 DEF ApiNext, ApiWork

LEMMA WorkerStep ==
    ASSUME IInv, WorkerNext
    PROVE  IInv'
<1>1. ASSUME NEW w \in Handler, Work(w)
      PROVE  IInv'
    BY <1>1, TakeStep, SkipRemovalStep, PreDeleteStep, CommitStep, EnqueueStep, LoadStep,
       WriteStep DEF Work
<1> QED
    BY <1>1, PublishStep, FailStep, CrashStep DEF WorkerNext

LEMMA StutterStep ==
    ASSUME IInv, UNCHANGED vars
    PROVE  IInv'
    BY ApiKeeps DEF vars, IInv, TypeOK, ApiType

\* The state is well typed whatever the handlers and the API do: in particular a
\* handler that commits a removal has a row to withdraw, and a rebuild always
\* has a property (upsertPropertyAndListing, removeListing, reindexAll).
THEOREM TypeCorrect == Spec => []TypeOK
<1>1. IInv /\ [Next]_vars => IInv'
    BY WorkerStep, ApiStep, StutterStep DEF Next
<1>2. IInv => TypeOK
    BY DEF IInv
<1> QED
    BY InitIInv, <1>1, <1>2, PTL DEF Spec

-----------------------------------------------------------------------------
(* The documents, when parcels are fixed and the API rebuilds nothing.     *)

\* All changes of a listing are at one parcel ...
FixedInv ==
    \A i, j \in Revs : log[i].listing = log[j].listing => log[i].parcel = log[j].parcel

\* ... and so is its row.
PlaceInv ==
    \A l \in Listing : row[l] # NoRow =>
        log[row[l].rev].listing = l /\ log[row[l].rev].parcel = row[l].prop

\* A document that is not exact is of a property with a listing that is owed.
DocInv == \A p \in Property : doc[p] = Newest(p) \/ \E l \in owed : row[l].prop = p

\* So is what a rebuild has read, and not by its own listing alone.
SnapInv ==
    \A w \in Handler : hand[w].pc = "write" =>
        \/ hand[w].snap = Newest(hand[w].prop)
        \/ \E m \in owed : m # hand[w].listing /\ row[m].prop = hand[w].prop

ExactInv == IInv /\ FixedInv /\ PlaceInv /\ DocInv /\ SnapInv

LEMMA SameRows ==
    ASSUME row' = row
    PROVE  \A p : Newest(p)' = Newest(p)
<1> SUFFICES ASSUME NEW p PROVE Newest(p)' = Newest(p)
    OBVIOUS
<1>1. Eligible(p)' = Eligible(p)
    BY DEF Eligible
<1> QED
    BY <1>1, NewestSame

\* A step that settles nothing and changes no row, document or rebuild at work.
LEMMA QuietStep ==
    ASSUME ExactInv, IInv', UNCHANGED <<log, row, doc>>, owed \subseteq owed',
           \A w \in Handler : hand'[w].pc = "write" => hand'[w] = hand[w]
    PROVE  ExactInv'
<1> USE DEF ExactInv
<1>1. Revs' = Revs /\ \A p : Newest(p)' = Newest(p)
    BY SameRows DEF Revs
<1>2. FixedInv' /\ PlaceInv'
    BY <1>1 DEF FixedInv, PlaceInv
<1>3. DocInv'
    BY <1>1 DEF DocInv
<1>4. SnapInv'
    BY <1>1 DEF SnapInv
<1> QED
    BY <1>2, <1>3, <1>4

LEMMA ExactInit == Init => ExactInv
<1> SUFFICES ASSUME Init PROVE ExactInv
    OBVIOUS
<1>1. IInv
    BY InitIInv
<1>2. FixedInv /\ PlaceInv /\ SnapInv
    BY DEF Init, FixedInv, PlaceInv, SnapInv, Revs, Free
<1>3. \A p \in Property : Eligible(p) = {}
    BY DEF Init, Eligible, NoRow
<1>4. DocInv
    BY <1>3, Zenon DEF Init, DocInv, Newest
<1> QED
    BY <1>1, <1>2, <1>4 DEF ExactInv

LEMMA ExactPublish ==
    ASSUME ~Moves, ExactInv, NEW l \in Listing, NEW p \in Property, NEW kind \in Kind,
           Publish(l, p, kind)
    PROVE  ExactInv'
<1> USE DEF ExactInv
<1>1. IInv'
    BY PublishStep
<1> DEFINE c == [listing |-> l, parcel |-> p, kind |-> kind]
           Change == [listing: Listing, parcel: Property, kind: Kind]
<1>2. c \in Change /\ log \in Seq(Change) /\ log' = Append(log, c) /\ c.listing = l /\ c.parcel = p
    BY DEF Publish, IInv, TypeOK
<1> HIDE DEF c, Change
<1>3. /\ Len(log) \in Nat /\ Len(log') = Len(log) + 1
      /\ \A i \in Revs : log'[i] = log[i]
      /\ log'[Len(log) + 1] = c
    BY <1>2 DEF Revs
<1>4. Revs' = Revs \cup {Len(log) + 1}
    BY <1>3 DEF Revs
<1>5. \A m \in Revs : log[m].listing = l => log[m].parcel = p
    BY DEF Publish
<1>6. FixedInv'
  <2> DEFINE n == Len(log) + 1
  <2>1. n \notin Revs /\ log'[n].listing = l /\ log'[n].parcel = p
      BY <1>2, <1>3 DEF Revs
  <2>2. Revs' = Revs \cup {n} /\ \A i \in Revs : log'[i] = log[i]
      BY <1>3, <1>4
  <2> HIDE DEF n
  <2> SUFFICES ASSUME NEW i \in Revs', NEW j \in Revs', log'[i].listing = log'[j].listing
               PROVE  log'[i].parcel = log'[j].parcel
      BY DEF FixedInv
  <2>3. CASE i \in Revs /\ j \in Revs
      BY <2>2, <2>3 DEF FixedInv
  <2>4. CASE i = n /\ j \in Revs
      BY <1>5, <2>1, <2>2, <2>4
  <2>5. CASE i \in Revs /\ j = n
      BY <1>5, <2>1, <2>2, <2>5
  <2> QED
      BY <2>2, <2>3, <2>4, <2>5
<1>7. row' = row /\ doc' = doc /\ hand' = hand /\ owed \subseteq owed'
    BY DEF Publish, dbVars
<1>8. PlaceInv'
  <2>1. \A m \in Listing : row[m] # NoRow => row[m].rev \in Revs
      BY DEF IInv, TypeOK
  <2> QED
      BY <1>3, <1>7, <2>1 DEF PlaceInv
<1>9. DocInv' /\ SnapInv'
    BY <1>7, SameRows DEF DocInv, SnapInv
<1> QED
    BY <1>1, <1>6, <1>8, <1>9

\* What is settled is not at p.
LEMMA SettledElsewhere ==
    ASSUME IInv, NEW w \in Handler, hand[w].pc # "free", owed' = Settled(w), row' = row,
           NEW p, NEW m \in owed, m # hand[w].listing, row[m].prop = p
    PROVE  \E l \in owed' : l = m /\ row'[l].prop = p
    BY SettledIs

LEMMA ExactSkip ==
    ASSUME ExactInv, NEW w \in Handler, SkipRemoval(w)
    PROVE  ExactInv'
<1> USE DEF ExactInv
<1>1. IInv'
    BY SkipRemovalStep
<1>2. /\ hand[w].pc = "delete" /\ row[hand[w].listing].prop = NoProperty
      /\ owed' = Settled(w) /\ row' = row /\ doc' = doc /\ log' = log
      /\ hand' = [hand EXCEPT ![w] = Free]
    BY DEF SkipRemoval, dbVars, feedVars, NoRow
<1>3. hand'[w] = Free /\ \A v \in Handler : v # w => hand'[v] = hand[v]
    BY <1>2, HandIs
<1>4. \A p : Newest(p)' = Newest(p)
    BY <1>2, SameRows
<1>5. Revs' = Revs
    BY <1>2 DEF Revs
<1>6. FixedInv' /\ PlaceInv'
    BY <1>2, <1>5 DEF FixedInv, PlaceInv
<1>7. \A p \in Property : \A m \in owed :
          row[m].prop = p => m # hand[w].listing /\ m \in owed' /\ row'[m].prop = p
    BY <1>2, NoProp, SettledIs
<1>8. DocInv'
    BY <1>2, <1>4, <1>7 DEF DocInv
<1>9. SnapInv'
  <2> SUFFICES ASSUME NEW v \in Handler, hand'[v].pc = "write"
               PROVE  \/ hand'[v].snap = Newest(hand[v].prop)'
                      \/ \E m \in owed' : m # hand'[v].listing /\ row'[m].prop = hand'[v].prop
      BY DEF SnapInv
  <2>1. v # w /\ hand'[v] = hand[v]
      BY <1>3 DEF Free
  <2>2. hand[v].prop \in Property
      BY <2>1 DEF IInv, HandInv, Committed, Free
  <2> QED
      BY <1>4, <1>7, <2>1, <2>2 DEF SnapInv
<1> QED
    BY <1>1, <1>6, <1>8, <1>9

LEMMA ExactPreDelete ==
    ASSUME ExactInv, NEW w \in Handler, PreDelete(w)
    PROVE  ExactInv'
<1> USE DEF ExactInv
<1> DEFINE l == hand[w].listing
<1>1. IInv'
    BY PreDeleteStep
<1>2. /\ hand[w].pc = "delete" /\ row' = row /\ owed' = owed /\ log' = log
      /\ hand' = [hand EXCEPT ![w] = [hand[w] EXCEPT !.pc = "commit"]]
      /\ doc' = IF row[l] = NoRow THEN doc ELSE [doc EXCEPT ![row[l].prop] = NoDoc]
    BY DEF PreDelete, feedVars
<1>3. l \in owed
    BY <1>2, HandIs
<1>4. hand'[w].pc = "commit" /\ \A v \in Handler : v # w => hand'[v] = hand[v]
    BY <1>2, HandIs DEF HandType
<1>5. Revs' = Revs /\ \A p : Newest(p)' = Newest(p)
    BY <1>2, SameRows DEF Revs
<1>6. FixedInv' /\ PlaceInv'
    BY <1>2, <1>5 DEF FixedInv, PlaceInv
<1>7. DocInv'
  <2>1. \A p \in Property : p # row[l].prop => doc'[p] = doc[p]
      BY <1>2 DEF IInv, TypeOK
  <2> QED
      BY <1>2, <1>3, <1>5, <2>1 DEF DocInv
<1>8. SnapInv'
    BY <1>2, <1>4, <1>5 DEF SnapInv
<1> QED
    BY <1>1, <1>6, <1>7, <1>8

\* The commit of a listing at p changes what a rebuild of another property
\* would read in no way.
LEMMA CommitElsewhere ==
    ASSUME TypeOK, NEW l \in Listing, NEW p, NEW t,
           row' = [row EXCEPT ![l] = t], t.prop = p, row[l] # NoRow => row[l].prop = p,
           NEW q \in Property, q # p
    PROVE  Newest(q)' = Newest(q)
<1>1. row[l].prop # q
    BY NoProp DEF NoRow
<1>2. row'[l] = t /\ \A m \in Listing : m # l => row'[m] = row[m]
    BY DEF TypeOK
<1>3. Eligible(q)' = Eligible(q)
    BY <1>1, <1>2 DEF Eligible
<1>4. \A m \in Eligible(q) : row'[m] = row[m]
    BY <1>1, <1>2 DEF Eligible
<1> QED
    BY <1>3, <1>4, NewestSame

LEMMA ExactCommit ==
    ASSUME ExactInv, NEW w \in Handler, Commit(w)
    PROVE  ExactInv'
<1> USE DEF ExactInv
<1> DEFINE l == hand[w].listing
<1>1. IInv'
    BY CommitStep
<1>2. hand[w].pc = "commit" /\ log' = log /\ doc' = doc /\ owed' = owed
    BY DEF Commit, feedVars
<1>3. l \in owed /\ l \in Listing /\ hand[w].rev \in Revs /\ log[hand[w].rev].listing = l
    BY <1>2, HandIs
<1>4. PICK p \in Property, b \in BOOLEAN :
          /\ row' = [row EXCEPT ![l] = [rev |-> hand[w].rev, prop |-> p, public |-> b]]
          /\ hand' = [hand EXCEPT ![w] = [hand[w] EXCEPT !.pc = "enqueue", !.prop = p]]
          /\ p = log[hand[w].rev].parcel \/ (row[l] # NoRow /\ p = row[l].prop)
    BY CommitIs
<1> DEFINE t == [rev |-> hand[w].rev, prop |-> p, public |-> b]
<1>5. t.rev = hand[w].rev /\ t.prop = p
    OBVIOUS
<1>6. row' = [row EXCEPT ![l] = t]
    BY <1>4
<1> HIDE DEF t
<1>7. row'[l] = t /\ \A m \in Listing : m # l => row'[m] = row[m]
    BY <1>3, <1>6 DEF IInv, TypeOK
<1>8. row[l] # NoRow => row[l].rev \in Revs
    BY <1>3 DEF IInv, TypeOK
<1>9. log[hand[w].rev].parcel = p /\ (row[l] # NoRow => row[l].prop = p)
    BY <1>3, <1>4, <1>8 DEF FixedInv, PlaceInv
<1>10. Revs' = Revs
    BY <1>2 DEF Revs
<1>11. FixedInv' /\ PlaceInv'
    BY <1>2, <1>3, <1>5, <1>7, <1>9, <1>10 DEF FixedInv, PlaceInv
<1>12. \A q \in Property : q # p => Newest(q)' = Newest(q)
    BY <1>3, <1>5, <1>6, <1>9, CommitElsewhere DEF IInv
<1>13. \A q \in Property : \A m \in owed : row[m].prop = q => row'[m].prop = q
  <2> SUFFICES ASSUME NEW q \in Property, NEW m \in owed, row[m].prop = q
               PROVE  row'[m].prop = q
      OBVIOUS
  <2>1. m \in Listing
      BY DEF IInv, TypeOK
  <2>2. CASE m = l
      BY <2>1, <2>2, <1>5, <1>7, <1>9, RowIs DEF IInv
  <2>3. CASE m # l
      BY <2>1, <2>3, <1>7
  <2> QED
      BY <2>2, <2>3
<1>14. DocInv'
  <2> SUFFICES ASSUME NEW q \in Property
               PROVE  doc[q] = Newest(q)' \/ \E m \in owed : row'[m].prop = q
      BY <1>2 DEF DocInv
  <2>1. CASE q = p
      BY <2>1, <1>3, <1>5, <1>7
  <2>2. CASE q # p
      BY <2>2, <1>12, <1>13 DEF DocInv
  <2> QED
      BY <2>1, <2>2
<1>15. SnapInv'
  <2>1. hand'[w].pc = "enqueue" /\ \A v \in Handler : v # w => hand'[v] = hand[v]
      BY <1>4, HandIs DEF HandType
  <2> SUFFICES ASSUME NEW v \in Handler, hand'[v].pc = "write"
               PROVE  \/ hand'[v].snap = Newest(hand[v].prop)'
                      \/ \E m \in owed : m # hand'[v].listing /\ row'[m].prop = hand'[v].prop
      BY <1>2 DEF SnapInv
  <2>2. v # w /\ hand'[v] = hand[v]
      BY <2>1
  <2>3. hand[v].prop \in Property /\ hand[v].listing # l
      BY <2>2 DEF IInv, HandInv, ApartInv, Committed, Free
  <2>4. CASE hand[v].prop = p
      BY <2>2, <2>3, <2>4, <1>3, <1>5, <1>7
  <2>5. CASE hand[v].prop # p
    <3>1. CASE hand[v].snap = Newest(hand[v].prop)
        BY <3>1, <2>2, <2>3, <2>5, <1>12
    <3>2. CASE \E m \in owed : m # hand[v].listing /\ row[m].prop = hand[v].prop
        BY <3>2, <2>2, <2>3, <1>13
    <3> QED
        BY <3>1, <3>2, <2>2 DEF SnapInv
  <2> QED
      BY <2>4, <2>5
<1> QED
    BY <1>1, <1>11, <1>14, <1>15

LEMMA ExactLoad ==
    ASSUME ExactInv, NEW w \in Handler, Load(w)
    PROVE  ExactInv'
<1> USE DEF ExactInv
<1> DEFINE s == Newest(hand[w].prop)
           r == [hand[w] EXCEPT !.pc = "write", !.snap = s]
<1>1. IInv'
    BY LoadStep
<1>2. /\ row' = row /\ doc' = doc /\ owed' = owed /\ log' = log
      /\ hand' = [hand EXCEPT ![w] = r]
    BY DEF Load, feedVars, dbVars
<1>3. r.snap = s /\ r.prop = hand[w].prop
    BY HandIs DEF HandType
<1>4. hand'[w] = r /\ \A v \in Handler : v # w => hand'[v] = hand[v]
    BY <1>2, HandIs
<1>5. Revs' = Revs /\ \A p : Newest(p)' = Newest(p)
    BY <1>2, SameRows DEF Revs
<1>6. FixedInv' /\ PlaceInv'
    BY <1>2, <1>5 DEF FixedInv, PlaceInv
<1>7. DocInv'
    BY <1>2, <1>5 DEF DocInv
<1> HIDE DEF r
<1>8. SnapInv'
  <2> SUFFICES ASSUME NEW v \in Handler, hand'[v].pc = "write"
               PROVE  \/ hand'[v].snap = Newest(hand'[v].prop)
                      \/ \E m \in owed : m # hand'[v].listing /\ row[m].prop = hand'[v].prop
      BY <1>2, <1>5 DEF SnapInv
  <2>1. CASE v = w
      BY <2>1, <1>3, <1>4
  <2>2. CASE v # w
      BY <2>2, <1>4 DEF SnapInv
  <2> QED
      BY <2>1, <2>2
<1> QED
    BY <1>1, <1>6, <1>7, <1>8

LEMMA ExactWrite ==
    ASSUME ExactInv, NEW w \in Handler, Write(w)
    PROVE  ExactInv'
<1> USE DEF ExactInv
<1> DEFINE p == hand[w].prop
           l == hand[w].listing
<1>1. IInv'
    BY WriteStep
<1>2. /\ hand[w].pc = "write" /\ row' = row /\ owed' = Settled(w) /\ log' = log
      /\ hand' = [hand EXCEPT ![w] = Free]
      /\ doc' = [doc EXCEPT ![p] = hand[w].snap]
    BY DEF Write, feedVars
<1>3. p \in Property /\ row[l].prop = p
    BY <1>2 DEF IInv, HandInv, Committed, Free
<1>4. hand'[w] = Free /\ \A v \in Handler : v # w => hand'[v] = hand[v]
    BY <1>2, HandIs
<1>5. Revs' = Revs /\ \A q : Newest(q)' = Newest(q)
    BY <1>2, SameRows DEF Revs
<1>6. FixedInv' /\ PlaceInv'
    BY <1>2, <1>5 DEF FixedInv, PlaceInv
<1>7. \A m \in owed : m # l => m \in owed'
    BY <1>2, SettledIs
<1>8. DocInv'
  <2> SUFFICES ASSUME NEW q \in Property
               PROVE  doc'[q] = Newest(q) \/ \E m \in owed' : row[m].prop = q
      BY <1>2, <1>5 DEF DocInv
  <2>1. CASE q = p
    <3>1. doc'[q] = hand[w].snap
        BY <2>1, <1>2 DEF IInv, TypeOK
    <3> QED
        BY <3>1, <2>1, <1>2, <1>7 DEF SnapInv
  <2>2. CASE q # p
    <3>1. doc'[q] = doc[q]
        BY <2>2, <1>2 DEF IInv, TypeOK
    <3> QED
        BY <3>1, <2>2, <1>3, <1>7 DEF DocInv
  <2> QED
      BY <2>1, <2>2
<1>9. SnapInv'
  <2> SUFFICES ASSUME NEW v \in Handler, hand'[v].pc = "write"
               PROVE  \/ hand'[v].snap = Newest(hand'[v].prop)
                      \/ \E m \in owed' : m # hand'[v].listing /\ row[m].prop = hand'[v].prop
      BY <1>2, <1>5 DEF SnapInv
  <2>1. v # w /\ hand'[v] = hand[v]
      BY <1>4 DEF Free
  <2>2. hand[v].prop # p
      BY <1>2, <2>1 DEF IInv, QueueInv
  <2> QED
      BY <2>1, <2>2, <1>3, <1>7 DEF SnapInv
<1> QED
    BY <1>1, <1>6, <1>8, <1>9

LEMMA ExactStep ==
    ASSUME ~Moves, ExactInv, [WorkerNext]_vars
    PROVE  ExactInv'
<1>1. ASSUME NEW w \in Handler, NEW l \in Listing, Take(w, l)
      PROVE  ExactInv'
  <2>1. hand'[w].pc = "delete" /\ \A v \in Handler : v # w => hand'[v] = hand[v]
      BY <1>1, HandIs DEF Take, ExactInv, HandType, Free
  <2> QED
      BY <1>1, <2>1, TakeStep, QuietStep DEF Take, ExactInv, feedVars, dbVars
<1>2. ASSUME NEW w \in Handler, Enqueue(w)
      PROVE  ExactInv'
  <2>1. hand'[w].pc = "queued" /\ \A v \in Handler : v # w => hand'[v] = hand[v]
      BY <1>2, HandIs DEF Enqueue, ExactInv, HandType
  <2> QED
      BY <1>2, <2>1, EnqueueStep, QuietStep DEF Enqueue, ExactInv, feedVars, dbVars
<1>3. ASSUME NEW w \in Handler, Fail(w)
      PROVE  ExactInv'
  <2>1. hand'[w] = Free /\ \A v \in Handler : v # w => hand'[v] = hand[v]
      BY <1>3, HandIs DEF Fail, ExactInv
  <2>2. UNCHANGED <<log, row, doc>> /\ owed' = owed
      BY <1>3 DEF Fail, feedVars, dbVars
  <2>3. IInv'
      BY <1>3, FailStep DEF ExactInv
  <2>4. \A v \in Handler : hand'[v].pc = "write" => hand'[v] = hand[v]
      BY <2>1 DEF Free
  <2> QED
      BY <2>2, <2>3, <2>4, QuietStep
<1>4. CASE Crash
    BY <1>4, CrashStep, QuietStep DEF Crash, ExactInv, feedVars, dbVars, Free
<1>5. CASE UNCHANGED vars
    BY <1>5, StutterStep, QuietStep DEF ExactInv, vars
<1>6. ASSUME NEW w \in Handler, Work(w)
      PROVE  ExactInv'
    BY <1>1, <1>2, <1>6, ExactSkip, ExactPreDelete, ExactCommit, ExactLoad, ExactWrite DEF Work
<1> QED
    BY <1>3, <1>4, <1>5, <1>6, ExactPublish DEF WorkerNext

LEMMA ExactProps == ExactInv => ExactAtRest /\ ExposureIsCorrected
<1> SUFFICES ASSUME ExactInv PROVE ExactAtRest /\ ExposureIsCorrected
    OBVIOUS
<1>1. ASSUME NEW p \in Property, doc[p] = Newest(p)
      PROVE  Exact(p) /\ (doc[p] = NoDoc \/ Current(p))
  <2>1. CASE Eligible(p) = {} /\ Newest(p) = NoDoc
      BY <1>1, <2>1, Zenon DEF Exact
  <2>2. ASSUME NEW l \in Eligible(p), Newest(p) = [listing |-> l, rev |-> row[l].rev],
               \A m \in Eligible(p) : l >= m
        PROVE  Exact(p) /\ Current(p)
    <3>1. l \in Nat /\ \A m \in Eligible(p) : m \in Nat
        BY DEF Eligible, Listing
    <3>2. \A m \in Eligible(p) : m <= l
        BY <2>2, <3>1
    <3> QED
        BY <1>1, <2>2, <3>2, Zenon DEF Exact, Current
  <2> QED
      BY <2>1, <2>2, NewestIs, Zenon
<1>2. \A p \in Property : doc[p] = Newest(p) \/ \E l \in owed : row[l].prop = p
    BY DEF ExactInv, DocInv
<1>3. ExactAtRest
    BY <1>1, <1>2 DEF ExactAtRest, WorkerAtRest
<1>4. ExposureIsCorrected
    BY <1>1, <1>2, Zenon DEF ExposureIsCorrected
<1> QED
    BY <1>3, <1>4

\* Parcels that do not change: at rest the collection shows exactly the newest
\* public listing of each property, whatever handlers overlapped and calls failed
\* before (upsertPropertyAndListing, reconcilePropertySearch).
THEOREM WorkerExact ==
    ASSUME ~Moves
    PROVE  WorkerSpec => []ExactAtRest
<1>1. ExactInv /\ [WorkerNext]_vars => ExactInv'
    BY ExactStep
<1> QED
    BY ExactInit, ExactProps, <1>1, PTL DEF WorkerSpec

\* And at any time a document that is not of a public listing with its latest data
\* is of a property with a listing that is still owed, which will correct it.
THEOREM WorkerCorrects ==
    ASSUME ~Moves
    PROVE  WorkerSpec => []ExposureIsCorrected
<1>1. ExactInv /\ [WorkerNext]_vars => ExactInv'
    BY ExactStep
<1> QED
    BY ExactInit, ExactProps, <1>1, PTL DEF WorkerSpec

-----------------------------------------------------------------------------
(* One record at a time, wherever its parcel goes.                         *)

\* Before the row changes its document is gone, and what a rebuild has read is
\* still so.
ClosedInv ==
    /\ IInv /\ FailClosed
    /\ \A w \in Handler :
          /\ hand[w].pc = "commit" /\ row[hand[w].listing] # NoRow
                => doc[row[hand[w].listing].prop] = NoDoc
          /\ hand[w].pc = "write" => hand[w].snap = Newest(hand[w].prop)

\* A step that changes no row and no document, and lets no handler commit or
\* write that did not before.
LEMMA ClosedQuiet ==
    ASSUME ClosedInv, IInv', UNCHANGED <<row, doc>>,
           \A w \in Handler : hand'[w].pc \in {"commit", "write"} => hand'[w] = hand[w]
    PROVE  ClosedInv'
<1> USE DEF ClosedInv
<1>1. \A p : Newest(p)' = Newest(p)
    BY SameRows
<1>2. FailClosed'
    BY DEF FailClosed, Current, Eligible
<1> QED
    BY <1>1, <1>2

LEMMA ClosedPreDelete ==
    ASSUME ClosedInv, \A v, w \in Handler : v = w, NEW w \in Handler, PreDelete(w)
    PROVE  ClosedInv'
<1> USE DEF ClosedInv
<1> DEFINE l == hand[w].listing
<1>1. IInv'
    BY PreDeleteStep
<1>2. /\ row' = row
      /\ hand' = [hand EXCEPT ![w] = [hand[w] EXCEPT !.pc = "commit"]]
      /\ doc' = IF row[l] = NoRow THEN doc ELSE [doc EXCEPT ![row[l].prop] = NoDoc]
    BY DEF PreDelete
<1>3. hand'[w].pc = "commit" /\ hand'[w].listing = l
    BY <1>2, HandIs DEF HandType
<1>4. hand[w].pc # "free" /\ l \in Listing
    BY HandIs DEF PreDelete
<1>5. row[l] # NoRow => row[l].prop \in Property
    BY <1>4, RowIs DEF IInv
<1>6. doc \in [Property -> Doc]
    BY DEF IInv, TypeOK
<1>7. row[l] # NoRow => doc'[row[l].prop] = NoDoc
    BY <1>2, <1>5, <1>6
<1>8. \A p \in Property : doc'[p] = doc[p] \/ doc'[p] = NoDoc
    BY <1>2, <1>6
<1>9. FailClosed'
    BY <1>2, <1>8 DEF FailClosed, Current, Eligible
<1> QED
    BY <1>1, <1>2, <1>3, <1>7, <1>9

LEMMA ClosedCommit ==
    ASSUME ClosedInv, \A v, w \in Handler : v = w, NEW w \in Handler, Commit(w)
    PROVE  ClosedInv'
<1> USE DEF ClosedInv
<1> DEFINE l == hand[w].listing
<1>1. IInv'
    BY CommitStep
<1>2. hand[w].pc = "commit" /\ doc' = doc
    BY DEF Commit
<1>3. PICK p \in Property, b \in BOOLEAN :
          /\ row' = [row EXCEPT ![l] = [rev |-> hand[w].rev, prop |-> p, public |-> b]]
          /\ hand' = [hand EXCEPT ![w] = [hand[w] EXCEPT !.pc = "enqueue", !.prop = p]]
          /\ p = log[hand[w].rev].parcel \/ (row[l] # NoRow /\ p = row[l].prop)
    BY CommitIs
<1>4. hand'[w].pc = "enqueue"
    BY <1>3, HandIs DEF HandType
<1>5. l \in Listing
    BY <1>2, HandIs
<1>6. \A m \in Listing : m # l => row'[m] = row[m]
    BY <1>3, <1>5 DEF IInv, TypeOK
<1>7. FailClosed'
  <2> SUFFICES ASSUME NEW q \in Property, doc[q] # NoDoc
               PROVE  Current(q)'
      BY <1>2 DEF FailClosed
  <2>1. PICK m \in Eligible(q) : doc[q] = [listing |-> m, rev |-> row[m].rev]
      BY DEF FailClosed, Current
  <2>2. m \in Listing /\ row[m].prop = q /\ row[m].public /\ row[m] # NoRow
      BY <2>1 DEF Eligible, NoRow
  <2>3. m # l
      BY <2>2, <1>2
  <2> QED
      BY <1>2, <1>6, <2>1, <2>2, <2>3 DEF Current, Eligible
<1> QED
    BY <1>1, <1>4, <1>7

LEMMA ClosedLoad ==
    ASSUME ClosedInv, \A v, w \in Handler : v = w, NEW w \in Handler, Load(w)
    PROVE  ClosedInv'
<1> USE DEF ClosedInv
<1> DEFINE s == Newest(hand[w].prop)
<1>1. IInv'
    BY LoadStep
<1>2. /\ row' = row /\ doc' = doc
      /\ hand' = [hand EXCEPT ![w] = [hand[w] EXCEPT !.pc = "write", !.snap = s]]
    BY DEF Load, dbVars
<1> HIDE DEF s
<1>3. hand'[w].pc = "write" /\ hand'[w].snap = s /\ hand'[w].prop = hand[w].prop
    BY <1>2, HandIs DEF HandType
<1>4. \A p : Newest(p)' = Newest(p)
    BY <1>2, SameRows
<1>5. FailClosed'
    BY <1>2 DEF FailClosed, Current, Eligible
<1> QED
    BY <1>1, <1>3, <1>4, <1>5 DEF s

LEMMA ClosedWrite ==
    ASSUME ClosedInv, \A v, w \in Handler : v = w, NEW w \in Handler, Write(w)
    PROVE  ClosedInv'
<1> USE DEF ClosedInv
<1> DEFINE p == hand[w].prop
<1>1. IInv'
    BY WriteStep
<1>2. /\ hand[w].pc = "write" /\ row' = row /\ hand' = [hand EXCEPT ![w] = Free]
      /\ doc' = [doc EXCEPT ![p] = hand[w].snap]
    BY DEF Write
<1>3. hand'[w] = Free
    BY <1>2, HandIs
<1>4. hand[w].snap = Newest(p)
    BY <1>2
<1>5. \A q \in Property : doc'[q] = doc[q] \/ (q = p /\ doc'[q] = Newest(p))
    BY <1>2, <1>4 DEF IInv, TypeOK
<1>6. Newest(p) = NoDoc \/ \E l \in Eligible(p) : Newest(p) = [listing |-> l, rev |-> row[l].rev]
    BY NewestIs, Zenon
<1>7. FailClosed'
  <2> SUFFICES ASSUME NEW q \in Property
               PROVE  doc'[q] = NoDoc \/ Current(q)'
      BY DEF FailClosed
  <2>1. CASE doc'[q] = doc[q]
      BY <2>1, <1>2 DEF FailClosed, Current, Eligible
  <2>2. CASE q = p /\ doc'[q] = Newest(p)
      BY <2>2, <1>2, <1>6 DEF Current, Eligible
  <2> QED
      BY <2>1, <2>2, <1>5
<1> QED
    BY <1>1, <1>3, <1>7 DEF Free

LEMMA ClosedStep ==
    ASSUME \A v, w \in Handler : v = w, ClosedInv, [WorkerNext]_vars
    PROVE  ClosedInv'
<1> USE DEF feedVars, dbVars
<1>1. IInv /\ IInv'
    BY WorkerStep, StutterStep DEF ClosedInv
<1>2. ASSUME NEW w \in Handler, hand'[w].pc \notin {"commit", "write"}, UNCHANGED <<row, doc>>
      PROVE  ClosedInv'
    BY <1>1, <1>2, ClosedQuiet
<1>3. ASSUME NEW w \in Handler, NEW l \in Listing, Take(w, l)
      PROVE  ClosedInv'
    BY <1>1, <1>2, <1>3, HandIs DEF Take, HandType, Free
<1>4. ASSUME NEW w \in Handler, SkipRemoval(w)
      PROVE  ClosedInv'
    BY <1>1, <1>2, <1>4, HandIs DEF SkipRemoval, Free
<1>5. ASSUME NEW w \in Handler, Enqueue(w)
      PROVE  ClosedInv'
    BY <1>1, <1>2, <1>5, HandIs DEF Enqueue, HandType
<1>6. ASSUME NEW w \in Handler, Fail(w)
      PROVE  ClosedInv'
    BY <1>1, <1>2, <1>6, HandIs DEF Fail, Free
<1>7. CASE Crash
    BY <1>1, <1>7, ClosedQuiet DEF Crash, Free
<1>8. ASSUME NEW l \in Listing, NEW p \in Property, NEW kind \in Kind, Publish(l, p, kind)
      PROVE  ClosedInv'
    BY <1>1, <1>8, ClosedQuiet DEF Publish
<1>9. CASE UNCHANGED vars
    BY <1>1, <1>9, ClosedQuiet DEF vars
<1>10. ASSUME NEW w \in Handler, Work(w)
       PROVE  ClosedInv'
    BY <1>3, <1>4, <1>5, <1>10, ClosedPreDelete, ClosedCommit, ClosedLoad, ClosedWrite DEF Work
<1> QED
    BY <1>6, <1>7, <1>8, <1>9, <1>10 DEF WorkerNext

\* Fail closed, for one handler at a time and listings that may move: no hidden,
\* removed, moved or outdated listing is ever shown, whatever calls fail and
\* wherever the worker stops (upsertPropertyAndListing, removeListing).
THEOREM WorkerFailsClosed ==
    ASSUME \A v, w \in Handler : v = w
    PROVE  WorkerSpec => []FailClosed
<1>1. Init => ClosedInv
    BY InitIInv DEF ClosedInv, Init, FailClosed, Free
<1>2. ClosedInv /\ [WorkerNext]_vars => ClosedInv'
    BY ClosedStep
<1>3. ClosedInv => FailClosed
    BY DEF ClosedInv
<1> QED
    BY <1>1, <1>2, <1>3, PTL DEF WorkerSpec

-----------------------------------------------------------------------------
(* Where a document comes from, whatever handlers and API do side by side. *)

\* The document d of p is what the vendor published: a public change of the listing
\* at p, which the listing's row has reached.
Shown(p, d) ==
    d = NoDoc \/ /\ d.rev \in Revs
                 /\ log[d.rev].listing = d.listing
                 /\ log[d.rev].parcel = p
                 /\ log[d.rev].kind = "public"
                 /\ d.rev <= row[d.listing].rev

Provenance == \A p \in Property : Shown(p, doc[p])

\* A row and the handler that works on it are no further than the feed, and a
\* public row is as the vendor published it.
RowsInv ==
    /\ \A l \in Listing :
          /\ row[l].rev <= feed[l]
          /\ row[l].public => /\ log[row[l].rev].listing = l
                              /\ log[row[l].rev].parcel = row[l].prop
                              /\ log[row[l].rev].kind = "public"
    /\ \A w \in Handler : hand[w].pc # "free" =>
          /\ hand[w].rev <= feed[hand[w].listing]
          /\ row[hand[w].listing].rev <= hand[w].rev

\* What was read and is not yet written is as the vendor published it too.
ShownInv ==
    /\ Provenance
    /\ \A w \in Handler : hand[w].pc = "write" => Shown(hand[w].prop, hand[w].snap)
    /\ \A p \in Property : Shown(p, api.docs[p])
    /\ api.pc = "write" => Shown(api.prop, api.snap)

OriginInv == IInv /\ RowsInv /\ ShownInv

\* The rows are no further back, and the log keeps what it has.
Onward ==
    /\ \A l \in Listing : row[l].rev <= row'[l].rev
    /\ Revs \subseteq Revs' /\ \A r \in Revs : log'[r] = log[r]

LEMMA RowRev ==
    ASSUME TypeOK, NEW l \in Listing
    PROVE  /\ row[l].rev \in Nat /\ feed[l] \in Nat /\ feed[l] <= Len(log)
           /\ row[l].public => row[l].rev \in Revs
<1>1. row[l] \in {NoRow} \cup [rev: Revs, prop: Property, public: BOOLEAN]
    BY DEF TypeOK
<1>2. feed[l] \in 0..Len(log) /\ Len(log) \in Nat
    BY LogLength DEF TypeOK
<1> QED
    BY <1>1, <1>2 DEF NoRow, Revs

\* What an eligible row holds was published.
LEMMA NewestShown ==
    ASSUME TypeOK, RowsInv, NEW p
    PROVE  Shown(p, Newest(p))
<1>1. ASSUME NEW l \in Eligible(p), Newest(p) = [listing |-> l, rev |-> row[l].rev]
      PROVE  Shown(p, Newest(p))
  <2>1. l \in Listing /\ row[l].prop = p /\ row[l].public
      BY DEF Eligible
  <2>2. row[l].rev \in Revs /\ row[l].rev \in Nat
      BY <2>1, RowRev
  <2> QED
      BY <1>1, <2>1, <2>2 DEF RowsInv, Shown
<1> QED
    BY <1>1, NewestIs, Zenon DEF Shown

\* What was published once stays so.
LEMMA ShownStays ==
    ASSUME IInv, IInv', Onward, NEW p, NEW d, Shown(p, d)
    PROVE  Shown(p, d)'
<1>1. CASE d = NoDoc
    BY <1>1 DEF Shown
<1>2. CASE d # NoDoc
  <2>1. d.rev \in Revs /\ d.rev \in Nat /\ log[d.rev].listing = d.listing
      BY <1>2, LogLength DEF Shown, Revs, IInv
  <2>2. d.listing \in Listing
    <3> DEFINE Change == [listing: Listing, parcel: Property, kind: Kind]
    <3>1. log \in Seq(Change)
        BY DEF IInv, TypeOK
    <3>2. \A c \in Change : c.listing \in Listing
        OBVIOUS
    <3> HIDE DEF Change
    <3>3. log[d.rev] \in Change
        BY <2>1, <3>1 DEF Revs
    <3> QED
        BY <2>1, <3>2, <3>3
  <2>3. row[d.listing].rev \in Nat /\ row'[d.listing].rev \in Nat
    <3>1. row[d.listing].rev \in Nat
        BY <2>2, RowRev DEF IInv
    <3>2. row' \in [Listing -> {NoRow} \cup [rev: Revs', prop: Property, public: BOOLEAN]]
          /\ Len(log') \in Nat
        BY DEF IInv, TypeOK
    <3>3. row'[d.listing].rev \in Nat
        BY <2>2, <3>2 DEF NoRow, Revs
    <3> QED
        BY <3>1, <3>3
  <2>4. d.rev <= row'[d.listing].rev
      BY <1>2, <2>1, <2>2, <2>3 DEF Shown, Onward
  <2> QED
      BY <1>2, <2>1, <2>4 DEF Shown, Onward
<1> QED
    BY <1>1, <1>2

-----------------------------------------------------------------------------
(* The rows.                                                               *)

\* A step that changes no row and takes no record.
LEMMA RowsQuiet ==
    ASSUME OriginInv, UNCHANGED <<log, feed, row>>,
           \A v \in Handler : hand'[v].pc # "free" =>
               /\ hand[v].pc # "free"
               /\ hand'[v].listing = hand[v].listing /\ hand'[v].rev = hand[v].rev
    PROVE  RowsInv' /\ Onward
<1>1. RowsInv'
    BY DEF OriginInv, RowsInv
<1>2. \A l \in Listing : row[l].rev <= row'[l].rev
    BY RowRev DEF OriginInv, IInv
<1> QED
    BY <1>1, <1>2 DEF Onward, Revs

LEMMA RowsPublish ==
    ASSUME OriginInv, NEW l \in Listing, NEW p \in Property, NEW kind \in Kind,
           Publish(l, p, kind)
    PROVE  RowsInv' /\ Onward
<1> USE DEF OriginInv
<1> DEFINE Change == [listing: Listing, parcel: Property, kind: Kind]
           c == [listing |-> l, parcel |-> p, kind |-> kind]
<1>1. log \in Seq(Change) /\ c \in Change /\ log' = Append(log, c)
    BY DEF Publish, IInv, TypeOK
<1> HIDE DEF Change, c
<1>2. /\ Len(log) \in Nat /\ Len(log') = Len(log) + 1
      /\ \A r \in Revs : log'[r] = log[r]
    BY <1>1 DEF Revs
<1>3. /\ row' = row /\ hand' = hand
      /\ feed' = [feed EXCEPT ![l] = Len(log) + 1]
      /\ feed \in [Listing -> 0..Len(log)]
    BY DEF Publish, dbVars, IInv, TypeOK
<1>4. \A m \in Listing : feed[m] \in Nat /\ feed'[m] \in Nat /\ feed[m] <= feed'[m]
    BY <1>2, <1>3
<1>5. \A m \in Listing : row[m].rev \in Nat /\ (row[m].public => row[m].rev \in Revs)
    BY RowRev DEF IInv
<1>6. \A w \in Handler : hand[w].pc # "free" =>
          hand[w].listing \in Listing /\ hand[w].rev \in Nat
    BY HandIs, <1>2 DEF Revs
<1>7. RowsInv'
    BY <1>2, <1>3, <1>4, <1>5, <1>6 DEF RowsInv
<1>8. Onward
    BY <1>2, <1>3, <1>5 DEF Onward, Revs
<1> QED
    BY <1>7, <1>8

LEMMA RowsTake ==
    ASSUME OriginInv, NEW w \in Handler, NEW l \in Listing, Take(w, l)
    PROVE  RowsInv' /\ Onward
<1> USE DEF OriginInv
<1> DEFINE r == [Free EXCEPT !.pc = "delete", !.listing = l, !.rev = feed[l]]
<1>1. UNCHANGED <<log, feed, row>> /\ hand' = [hand EXCEPT ![w] = r]
    BY DEF Take, feedVars, dbVars
<1>2. r.listing = l /\ r.rev = feed[l]
    BY DEF Free
<1> HIDE DEF r
<1>3. hand'[w] = r /\ \A v \in Handler : v # w => hand'[v] = hand[v]
    BY <1>1, HandIs
<1>4. \A m \in Listing : row[m].rev \in Nat /\ feed[m] \in Nat
    BY RowRev DEF IInv
<1>5. RowsInv'
    BY <1>1, <1>2, <1>3, <1>4 DEF RowsInv
<1> QED
    BY <1>1, <1>4, <1>5 DEF Onward, Revs

LEMMA RowsCommit ==
    ASSUME OriginInv, NEW w \in Handler, Commit(w)
    PROVE  RowsInv' /\ Onward
<1> USE DEF OriginInv
<1> DEFINE l == hand[w].listing
           change == log[hand[w].rev]
           p == IF change.kind = "removed" THEN row[l].prop ELSE change.parcel
           t == [rev |-> hand[w].rev, prop |-> p, public |-> change.kind = "public"]
           r == [hand[w] EXCEPT !.pc = "enqueue", !.prop = p]
<1>1. /\ hand[w].pc = "commit" /\ UNCHANGED <<log, feed>>
      /\ row' = [row EXCEPT ![l] = t] /\ hand' = [hand EXCEPT ![w] = r]
    BY DEF Commit, feedVars
<1>2. l \in Listing /\ hand[w].rev \in Revs /\ change.listing = l /\ hand[w].rev \in Nat
    BY <1>1, HandIs, LogLength DEF Revs, IInv
<1>3. t.rev = hand[w].rev /\ (t.public => change.kind = "public" /\ t.prop = change.parcel)
    OBVIOUS
<1>4. r.listing = l /\ r.rev = hand[w].rev
    BY HandIs DEF HandType
<1> HIDE DEF t, r
<1>5. hand'[w] = r /\ \A v \in Handler : v # w => hand'[v] = hand[v]
    BY <1>1, HandIs
<1>6. row'[l] = t /\ \A m \in Listing : m # l => row'[m] = row[m]
    BY <1>1, <1>2 DEF IInv, TypeOK
<1>7. \A v \in Handler : v # w /\ hand[v].pc # "free" =>
          hand[v].listing # l /\ hand[v].listing \in Listing
    BY <1>1, HandIs DEF IInv, ApartInv
<1>8. hand[w].rev <= feed[l] /\ row[l].rev <= hand[w].rev
    BY <1>1 DEF RowsInv
<1>9. \A m \in Listing : row[m].rev \in Nat
    BY RowRev DEF IInv
<1>10. ASSUME NEW m \in Listing
       PROVE  /\ row'[m].rev <= feed'[m]
              /\ row'[m].public => /\ log'[row'[m].rev].listing = m
                                   /\ log'[row'[m].rev].parcel = row'[m].prop
                                   /\ log'[row'[m].rev].kind = "public"
  <2>1. CASE m = l
      BY <2>1, <1>1, <1>2, <1>3, <1>6, <1>8
  <2>2. CASE m # l
      BY <2>2, <1>1, <1>6 DEF RowsInv
  <2> QED
      BY <2>1, <2>2
<1>11. ASSUME NEW v \in Handler, hand'[v].pc # "free"
       PROVE  /\ hand'[v].rev <= feed'[hand'[v].listing]
              /\ row'[hand'[v].listing].rev <= hand'[v].rev
  <2>1. CASE v = w
      BY <2>1, <1>1, <1>2, <1>3, <1>4, <1>5, <1>6, <1>8
  <2>2. CASE v # w
      BY <2>2, <1>1, <1>5, <1>6, <1>7, <1>11 DEF RowsInv
  <2> QED
      BY <2>1, <2>2
<1>12. \A m \in Listing : row[m].rev <= row'[m].rev
    BY <1>2, <1>3, <1>6, <1>8, <1>9
<1>13. Onward
    BY <1>1, <1>12 DEF Onward, Revs
<1>14. RowsInv'
    BY <1>10, <1>11 DEF RowsInv
<1> QED
    BY <1>13, <1>14

LEMMA RowsStep ==
    ASSUME OriginInv, [Next]_vars
    PROVE  RowsInv' /\ Onward
<1> USE DEF OriginInv, feedVars, dbVars
<1>1. ASSUME NEW w \in Handler, NEW r,
             UNCHANGED <<log, feed, row>>, hand' = [hand EXCEPT ![w] = r],
             r.pc # "free" => /\ hand[w].pc # "free"
                              /\ r.listing = hand[w].listing /\ r.rev = hand[w].rev
      PROVE  RowsInv' /\ Onward
  <2>1. hand'[w] = r /\ \A v \in Handler : v # w => hand'[v] = hand[v]
      BY <1>1, HandIs
  <2> QED
      BY <1>1, <2>1, RowsQuiet
<1>2. ASSUME NEW w \in Handler, SkipRemoval(w) \/ Write(w) \/ Fail(w)
      PROVE  RowsInv' /\ Onward
    BY <1>1, <1>2 DEF SkipRemoval, Write, Fail, Free
<1>3. ASSUME NEW w \in Handler, PreDelete(w)
      PROVE  RowsInv' /\ Onward
    BY <1>1, <1>3, HandIs DEF PreDelete, HandType
<1>4. ASSUME NEW w \in Handler, Enqueue(w)
      PROVE  RowsInv' /\ Onward
    BY <1>1, <1>4, HandIs DEF Enqueue, HandType
<1>5. ASSUME NEW w \in Handler, Load(w)
      PROVE  RowsInv' /\ Onward
  <2> DEFINE s == Newest(hand[w].prop)
  <2>1. hand' = [hand EXCEPT ![w] = [hand[w] EXCEPT !.pc = "write", !.snap = s]]
        /\ hand[w].pc = "queued" /\ UNCHANGED <<log, feed, row>>
      BY <1>5 DEF Load
  <2> HIDE DEF s
  <2> QED
      BY <1>1, <2>1, HandIs DEF HandType
<1>6. CASE Crash
    BY <1>6, RowsQuiet DEF Crash, Free
<1>7. CASE ApiNext
  <2>1. UNCHANGED <<log, feed, row, hand>>
      BY <1>7 DEF ApiNext, ApiWork, ApiRefresh, Reindex, ReindexFetch, ReindexImport,
                  ReindexDelete, ReindexNext, ApiWrite, ApiFail
  <2> QED
      BY <2>1, RowsQuiet
<1>8. CASE UNCHANGED vars
    BY <1>8, RowsQuiet DEF vars
<1>9. ASSUME NEW w \in Handler, Work(w)
      PROVE  RowsInv' /\ Onward
    BY <1>2, <1>3, <1>4, <1>5, <1>9, RowsTake, RowsCommit DEF Work
<1> QED
    BY <1>2, <1>6, <1>7, <1>8, <1>9, RowsPublish DEF Next, WorkerNext


-----------------------------------------------------------------------------
(* The documents.                                                          *)

\* Who writes a document writes what was read, and who reads, reads the rows.
LEMMA ShownFrom ==
    ASSUME OriginInv, IInv', Onward,
           \A p \in Property : Shown(p, doc'[p]),
           \A w \in Handler : hand'[w].pc = "write" => Shown(hand'[w].prop, hand'[w].snap),
           \A p \in Property : Shown(p, api'.docs[p]),
           api'.pc = "write" => Shown(api'.prop, api'.snap)
    PROVE  ShownInv'
<1>1. \A p, d : Shown(p, d) => Shown(p, d)'
    BY ShownStays DEF OriginInv
<1>2. Provenance'
  <2> SUFFICES ASSUME NEW p \in Property PROVE Shown(p, doc[p])'
      BY DEF Provenance
  <2>1. PICK d : d = doc'[p]
      OBVIOUS
  <2>2. Shown(p, d)'
      BY <1>1, <2>1
  <2> QED
      BY <2>1, <2>2 DEF Shown
<1>3. ASSUME NEW w \in Handler, hand'[w].pc = "write"
      PROVE  Shown(hand[w].prop, hand[w].snap)'
  <2>1. PICK p, d : p = hand'[w].prop /\ d = hand'[w].snap
      OBVIOUS
  <2>2. Shown(p, d)'
      BY <1>1, <1>3, <2>1
  <2> QED
      BY <2>1, <2>2 DEF Shown
<1>4. ASSUME NEW p \in Property
      PROVE  Shown(p, api.docs[p])'
  <2>1. PICK d : d = api'.docs[p]
      OBVIOUS
  <2>2. Shown(p, d)'
      BY <1>1, <2>1
  <2> QED
      BY <2>1, <2>2 DEF Shown
<1>5. ASSUME api'.pc = "write"
      PROVE  Shown(api.prop, api.snap)'
  <2>1. PICK p, d : p = api'.prop /\ d = api'.snap
      OBVIOUS
  <2>2. Shown(p, d)'
      BY <1>1, <1>5, <2>1
  <2> QED
      BY <2>1, <2>2 DEF Shown
<1> QED
    BY <1>2, <1>3, <1>4, <1>5 DEF ShownInv

\* A handler's step writes what the handler has read, deletes, or reads the rows.
LEMMA ShownHand ==
    ASSUME OriginInv, IInv', Onward, NEW w \in Handler, NEW r,
           hand' = [hand EXCEPT ![w] = r], api' = api,
           r.pc = "write" => r.snap = Newest(r.prop),
           \A p \in Property :
               \/ doc'[p] \in {doc[p], NoDoc}
               \/ hand[w].pc = "write" /\ p = hand[w].prop /\ doc'[p] = hand[w].snap
    PROVE  ShownInv'
<1>1. hand'[w] = r /\ \A v \in Handler : v # w => hand'[v] = hand[v]
    BY HandIs DEF OriginInv
<1>2. \A p : Shown(p, Newest(p)) /\ Shown(p, NoDoc)
    BY NewestShown DEF OriginInv, IInv, Shown
<1>3. \A p \in Property : Shown(p, doc'[p])
    BY <1>2 DEF OriginInv, ShownInv, Provenance
<1>4. ASSUME NEW v \in Handler, hand'[v].pc = "write"
      PROVE  Shown(hand'[v].prop, hand'[v].snap)
    BY <1>1, <1>2, <1>4 DEF OriginInv, ShownInv
<1> QED
    BY <1>3, <1>4, ShownFrom DEF OriginInv, ShownInv

\* So does the API's: `docs` and `snap` are what it goes on with.
LEMMA ShownApi ==
    ASSUME OriginInv, IInv', Onward, hand' = hand,
           \A p \in Property :
               \/ doc'[p] \in {doc[p], NoDoc, api.docs[p]}
               \/ api.pc = "write" /\ p = api.prop /\ doc'[p] = api.snap,
           \A p \in Property : api'.docs[p] \in {api.docs[p], NoDoc, Newest(p)},
           api'.pc = "write" => api'.snap = Newest(api'.prop)
    PROVE  ShownInv'
<1>1. \A p : Shown(p, Newest(p)) /\ Shown(p, NoDoc)
    BY NewestShown DEF OriginInv, IInv, Shown
<1>2. \A p \in Property : Shown(p, doc'[p])
    BY <1>1 DEF OriginInv, ShownInv, Provenance
<1>3. \A p \in Property : Shown(p, api'.docs[p])
    BY <1>1 DEF OriginInv, ShownInv
<1>4. api'.pc = "write" => Shown(api'.prop, api'.snap)
    BY <1>1
<1> QED
    BY <1>2, <1>3, <1>4, ShownFrom DEF OriginInv, ShownInv

LEMMA ShownApiNext ==
    ASSUME OriginInv, IInv', Onward, ApiNext
    PROVE  ShownInv'
<1>1. /\ doc \in [Property -> Doc] /\ api \in ApiType
      /\ api.docs \in [Property -> Doc]
    BY DEF OriginInv, IInv, TypeOK, ApiType
<1>2. \A p \in Property : NoRequest.docs[p] = NoDoc
    BY DEF NoRequest
<1> USE DEF dbVars, feedVars
<1>3. ASSUME NEW p \in Property, ApiRefresh(p)
      PROVE  ShownInv'
  <2> DEFINE s == Newest(p)
  <2>1. /\ api' = [NoRequest EXCEPT !.pc = "write", !.prop = p, !.snap = s]
        /\ UNCHANGED <<doc, hand>>
      BY <1>3 DEF ApiRefresh
  <2> HIDE DEF s
  <2>2. api'.docs = NoRequest.docs /\ api'.prop = p /\ api'.snap = s
      BY <2>1 DEF NoRequest
  <2> QED
      BY <1>2, <2>1, <2>2, ShownApi DEF s
<1>4. CASE Reindex
  <2>1. api'.docs = NoRequest.docs /\ api'.pc = "fetch" /\ UNCHANGED <<doc, hand>>
      BY <1>4 DEF Reindex, NoRequest
  <2> QED
      BY <1>2, <2>1, ShownApi
<1>5. CASE ReindexFetch
  <2> DEFINE d == [p \in Property |-> Newest(p)]
  <2>1. api' = [api EXCEPT !.pc = "import", !.docs = d] /\ UNCHANGED <<doc, hand>>
      BY <1>5 DEF ReindexFetch
  <2>2. \A p \in Property : d[p] = Newest(p)
      OBVIOUS
  <2> HIDE DEF d
  <2>3. api'.docs = d /\ api'.pc = "import"
      BY <1>1, <2>1 DEF ApiType
  <2> QED
      BY <2>1, <2>2, <2>3, ShownApi
<1>6. CASE ReindexImport
  <2>1. api'.docs = api.docs /\ api'.pc = "stale" /\ hand' = hand
      BY <1>1, <1>6 DEF ReindexImport, ApiType
  <2>2. \A p \in Property : doc'[p] \in {doc[p], api.docs[p]}
      BY <1>6 DEF ReindexImport
  <2> QED
      BY <2>1, <2>2, ShownApi
<1>7. CASE ReindexDelete
  <2>1. api'.docs = api.docs /\ api'.pc \in {"next", "stale"} /\ hand' = hand
      BY <1>1, <1>7 DEF ReindexDelete, ApiType
  <2>2. \A p \in Property : doc'[p] \in {doc[p], NoDoc}
      BY <1>1, <1>7 DEF ReindexDelete
  <2> QED
      BY <2>1, <2>2, ShownApi
<1>8. CASE ReindexNext
  <2>1. UNCHANGED <<doc, hand>>
      BY <1>8 DEF ReindexNext
  <2>2. CASE api' = NoRequest
      BY <1>2, <2>1, <2>2, ShownApi DEF NoRequest
  <2>3. ASSUME NEW p \in api.todo,
               api' = [api EXCEPT !.pc = "write", !.todo = api.todo \ {p}, !.prop = p,
                                  !.snap = Newest(p)]
        PROVE  ShownInv'
    <3> DEFINE s == Newest(p)
    <3>1. api' = [api EXCEPT !.pc = "write", !.todo = api.todo \ {p}, !.prop = p, !.snap = s]
        BY <2>3
    <3> HIDE DEF s
    <3>2. api'.docs = api.docs /\ api'.prop = p /\ api'.snap = s
        BY <1>1, <3>1 DEF ApiType
    <3> QED
        BY <2>1, <3>2, ShownApi DEF s
  <2> QED
      BY <1>8, <2>2, <2>3 DEF ReindexNext
<1>9. CASE ApiWrite
  <2>1. api'.docs = api.docs /\ api'.pc = "next" /\ hand' = hand /\ api.pc = "write"
      BY <1>1, <1>9 DEF ApiWrite, ApiType
  <2>2. \A p \in Property : doc'[p] = doc[p] \/ (p = api.prop /\ doc'[p] = api.snap)
      BY <1>1, <1>9 DEF ApiWrite
  <2> QED
      BY <2>1, <2>2, ShownApi
<1>10. CASE ApiFail
    BY <1>2, <1>10, ShownApi DEF ApiFail, NoRequest
<1> QED
    BY <1>3, <1>4, <1>5, <1>6, <1>7, <1>8, <1>9, <1>10 DEF ApiNext, ApiWork

LEMMA ShownStep ==
    ASSUME OriginInv, IInv', Onward, [Next]_vars
    PROVE  ShownInv'
<1> USE DEF dbVars, feedVars
<1>1. doc \in [Property -> Doc]
    BY DEF OriginInv, IInv, TypeOK
<1>2. ASSUME NEW l \in Listing, NEW p \in Property, NEW kind \in Kind, Publish(l, p, kind)
      PROVE  ShownInv'
    BY <1>2, ShownFrom DEF Publish, OriginInv, ShownInv, Provenance
<1>3. ASSUME NEW w \in Handler, NEW l \in Listing, Take(w, l)
      PROVE  ShownInv'
    BY <1>3, ShownHand DEF Take, Free
<1>4. ASSUME NEW w \in Handler, SkipRemoval(w) \/ Fail(w)
      PROVE  ShownInv'
    BY <1>4, ShownHand DEF SkipRemoval, Fail, Free
<1>5. ASSUME NEW w \in Handler, PreDelete(w)
      PROVE  ShownInv'
  <2> DEFINE r == [hand[w] EXCEPT !.pc = "commit"]
  <2>1. r.pc = "commit"
      BY HandIs DEF OriginInv, HandType
  <2>2. hand' = [hand EXCEPT ![w] = r] /\ api' = api
      BY <1>5 DEF PreDelete
  <2>3. \A p \in Property : doc'[p] \in {doc[p], NoDoc}
      BY <1>1, <1>5 DEF PreDelete
  <2> HIDE DEF r
  <2> QED
      BY <2>1, <2>2, <2>3, ShownHand
<1>6. ASSUME NEW w \in Handler, Commit(w)
      PROVE  ShownInv'
  <2>1. PICK p : hand' = [hand EXCEPT ![w] = [hand[w] EXCEPT !.pc = "enqueue", !.prop = p]]
      BY <1>6 DEF Commit
  <2> DEFINE r == [hand[w] EXCEPT !.pc = "enqueue", !.prop = p]
  <2>2. r.pc = "enqueue"
      BY HandIs DEF OriginInv, HandType
  <2>3. hand' = [hand EXCEPT ![w] = r] /\ api' = api /\ doc' = doc
      BY <1>6, <2>1 DEF Commit
  <2> HIDE DEF r
  <2> QED
      BY <2>2, <2>3, ShownHand
<1>7. ASSUME NEW w \in Handler, Enqueue(w)
      PROVE  ShownInv'
  <2> DEFINE r == [hand[w] EXCEPT !.pc = "queued"]
  <2>1. r.pc = "queued"
      BY HandIs DEF OriginInv, HandType
  <2>2. hand' = [hand EXCEPT ![w] = r] /\ api' = api /\ doc' = doc
      BY <1>7 DEF Enqueue
  <2> HIDE DEF r
  <2> QED
      BY <2>1, <2>2, ShownHand
<1>8. ASSUME NEW w \in Handler, Load(w)
      PROVE  ShownInv'
  <2> DEFINE s == Newest(hand[w].prop)
             r == [hand[w] EXCEPT !.pc = "write", !.snap = s]
  <2>1. r.prop = hand[w].prop /\ r.snap = s
      BY HandIs DEF OriginInv, HandType
  <2>2. hand' = [hand EXCEPT ![w] = r] /\ api' = api /\ doc' = doc
      BY <1>8 DEF Load
  <2>3. s = Newest(r.prop)
      BY <2>1
  <2> HIDE DEF r, s
  <2> QED
      BY <2>1, <2>2, <2>3, ShownHand
<1>9. ASSUME NEW w \in Handler, Write(w)
      PROVE  ShownInv'
  <2>1. hand' = [hand EXCEPT ![w] = Free] /\ api' = api /\ hand[w].pc = "write"
      BY <1>9 DEF Write
  <2>2. \A p \in Property : doc'[p] = doc[p] \/ (p = hand[w].prop /\ doc'[p] = hand[w].snap)
      BY <1>1, <1>9 DEF Write
  <2> QED
      BY <2>1, <2>2, ShownHand DEF Free
<1>10. CASE Crash
    BY <1>10, ShownFrom DEF Crash, Free, OriginInv, ShownInv, Provenance
<1>11. CASE UNCHANGED vars
    BY <1>11, ShownFrom DEF vars, OriginInv, ShownInv, Provenance
<1>12. ASSUME NEW w \in Handler, Work(w)
       PROVE  ShownInv'
    BY <1>3, <1>4, <1>5, <1>6, <1>7, <1>8, <1>9, <1>12 DEF Work
<1> QED
    BY <1>2, <1>4, <1>10, <1>11, <1>12, ShownApiNext DEF Next, WorkerNext

LEMMA OriginStep ==
    ASSUME OriginInv, [Next]_vars
    PROVE  OriginInv' /\ Onward
<1>1. IInv'
    BY WorkerStep, ApiStep, StutterStep DEF Next, OriginInv
<1> QED
    BY <1>1, RowsStep, ShownStep DEF OriginInv

LEMMA OriginInit == Init => OriginInv
<1> SUFFICES ASSUME Init PROVE OriginInv
    OBVIOUS
<1>1. IInv
    BY InitIInv
<1>2. RowsInv
    BY DEF Init, RowsInv, NoRow, Free
<1>3. ShownInv
    BY DEF Init, ShownInv, Provenance, Shown, Free, NoRequest
<1> QED
    BY <1>1, <1>2, <1>3 DEF OriginInv

\* Whatever handlers of the worker and requests of the API rebuild side by side, with
\* listings that move and calls that fail, as long as no listing has two handlers: a
\* document is always one the vendor published, of a public change at that property,
\* never of one that hid or removed the listing or put it elsewhere, and never of one
\* whose row is not yet committed (reconcilePropertyDocument, reindexAll,
\* buildPublicListingWhere).
THEOREM DocumentsHaveAnOrigin == Spec => []Provenance
<1>1. OriginInv /\ [Next]_vars => OriginInv'
    BY OriginStep
<1>2. OriginInv => Provenance
    BY DEF OriginInv, ShownInv
<1> QED
    BY OriginInit, <1>1, <1>2, PTL DEF Spec

=============================================================================
