------------------------------ MODULE MediaSync ------------------------------
(***************************************************************************)
(* The photos of one property (syncPropertyMedia of mls-service).  Records *)
(* of different listings of the property are handled side by side.  Each   *)
(* photo is downloaded and stored under a key made of its listing and its  *)
(* place; then one transaction replaces the rows and stamps the property.  *)
(* Under READ COMMITTED it takes away the rows that were committed when it *)
(* began.  Last, the listing gets the address of its first photo.          *)
(***************************************************************************)
EXTENDS Naturals, FiniteSets, FiniteSetsExt

CONSTANTS
    Listing,     \* listings of the property
    Order,       \* places of photos, numbers
    Work,        \* handlers of a record, which run once each
    MaxTime      \* bound on the changes of photos

VARIABLES
    time,        \* the provider's clock
    photos,      \* listing -> PhotosChangeTimestamp, 0 without photos
    object,      \* listing -> place -> version of the object stored, 0 for none
    media,       \* the rows: [listing, version, order, by]
    stamp,       \* photosSyncedAt, 0 for null
    image,       \* listing -> place of the photo its imageUrl names, or NoImage
    work,        \* handler -> what it knows
    partial,     \* history: handlers that lost a photo
    raced        \* history: two replacements overlapped

vars == <<time, photos, object, media, stamp, image, work, partial, raced>>

NoImage == 99
New == [step |-> "new", listing |-> CHOOSE l \in Listing : TRUE, version |-> 0,
        dated |-> TRUE, tried |-> {}, got |-> {}, seen |-> {}]

Init ==
    /\ time = 0
    /\ photos = [l \in Listing |-> 0]
    /\ object = [l \in Listing |-> [o \in Order |-> 0]]
    /\ media = {} /\ stamp = 0
    /\ image = [l \in Listing |-> NoImage]
    /\ work = [w \in Work |-> New]
    /\ partial = {} /\ raced = FALSE

-----------------------------------------------------------------------------

\* The provider has new photos of a listing.
Change(l) ==
    /\ time < MaxTime
    /\ time' = time + 1
    /\ photos' = [photos EXCEPT ![l] = time + 1]
    /\ UNCHANGED <<object, media, stamp, image, work, partial, raced>>

Becomes(w, state) == work' = [work EXCEPT ![w] = state]
Finished(w) == Becomes(w, [New EXCEPT !.step = "done"])

\* The photos are fetched unless the record is dated and no newer than the stamp.
Start(w, l, dated) ==
    /\ work[w].step = "new" /\ photos[l] # 0
    /\ dated => photos[l] > stamp
    /\ Becomes(w, [step |-> "fetch", listing |-> l, version |-> photos[l], dated |-> dated,
                   tried |-> {}, got |-> {}, seen |-> {}])
    /\ UNCHANGED <<time, photos, object, media, stamp, image, partial, raced>>

\* A download or its storing fails, which is only logged.
Lose(w, o) ==
    LET k == work[w] IN
    /\ k.step = "fetch" /\ o \notin k.tried
    /\ Becomes(w, [k EXCEPT !.tried = @ \cup {o}])
    /\ partial' = partial \cup {w}
    /\ UNCHANGED <<time, photos, object, media, stamp, image, raced>>

\* A photo is stored under its key, over the object that was there.
Fetch(w, o) ==
    LET k == work[w] IN
    /\ k.step = "fetch" /\ o \notin k.tried
    /\ object' = [object EXCEPT ![k.listing][o] = k.version]
    /\ Becomes(w, [k EXCEPT !.tried = @ \cup {o}, !.got = @ \cup {o}])
    /\ UNCHANGED <<time, photos, media, stamp, image, partial, raced>>

\* Without any photo nothing is replaced; else the transaction begins.
Replace(w) ==
    LET k == work[w] IN
    /\ k.step = "fetch" /\ k.tried = Order
    /\ IF k.got = {} THEN Finished(w) /\ UNCHANGED raced
       ELSE /\ Becomes(w, [k EXCEPT !.step = "replace", !.seen = media])
            /\ raced' = (raced \/ \E v \in Work \ {w} : work[v].step = "replace")
    /\ UNCHANGED <<time, photos, object, media, stamp, image, partial>>

Rows(w, k) == {[listing |-> k.listing, version |-> k.version, order |-> o, by |-> w] : o \in k.got}

\* Mutant: the rows that were there stay.
Commit_Keeps(w) ==
    LET k == work[w] IN
    /\ k.step = "replace"
    /\ media' = media \cup Rows(w, k)
    /\ stamp' = IF k.dated THEN k.version ELSE time
    /\ Becomes(w, [k EXCEPT !.step = "image"])
    /\ UNCHANGED <<time, photos, object, image, partial, raced>>

\* The rows and the stamp, which is the present time for a record without a date.
Commit(w) ==
    LET k == work[w] IN
    /\ k.step = "replace"
    /\ media' = (media \ k.seen) \cup Rows(w, k)
    /\ stamp' = IF k.dated THEN k.version ELSE time
    /\ Becomes(w, [k EXCEPT !.step = "image"])
    /\ UNCHANGED <<time, photos, object, image, partial, raced>>

\* upsertMlsRecord then writes the address of the first photo.
SetImage(w) ==
    LET k == work[w] IN
    /\ k.step = "image"
    /\ image' = [image EXCEPT ![k.listing] = Min(k.got)]
    /\ Finished(w)
    /\ UNCHANGED <<time, photos, object, media, stamp, partial, raced>>

\* A query fails, or the process stops; the record counts as handled.
Fail(w) ==
    /\ work[w].step \notin {"new", "done"}
    /\ Finished(w)
    /\ UNCHANGED <<time, photos, object, media, stamp, image, partial, raced>>

Next ==
    \/ \E l \in Listing : Change(l)
    \/ \E w \in Work :
          \/ \E l \in Listing, dated \in BOOLEAN : Start(w, l, dated)
          \/ \E o \in Order : Fetch(w, o) \/ Lose(w, o)
          \/ Replace(w) \/ Commit(w) \/ SetImage(w) \/ Fail(w)

Spec == Init /\ [][Next]_vars

-----------------------------------------------------------------------------

TypeOK ==
    /\ time \in 0..MaxTime /\ stamp \in 0..MaxTime
    /\ photos \in [Listing -> 0..MaxTime]
    /\ object \in [Listing -> [Order -> 0..MaxTime]]
    /\ image \in [Listing -> Order \cup {NoImage}]
    /\ \A row \in media : row.listing \in Listing /\ row.order \in Order /\ row.by \in Work
    /\ \A w \in Work : work[w].step \in {"new", "fetch", "replace", "image", "done"}
    /\ partial \subseteq Work /\ raced \in BOOLEAN

\* Unless two replacements overlapped, the photos of a property come from one
\* handler, and all its photos are there if none of its downloads failed; and
\* every photo and every image a listing names is in the storage.
PhotosAreOneSet ==
    /\ ~raced => \A x, y \in media : x.by = y.by
    /\ \A row \in media : row.by \notin partial =>
          {y.order : y \in {z \in media : z.by = row.by}} = Order
    /\ \A row \in media : object[row.listing][row.order] # 0
    /\ \A l \in Listing : image[l] # NoImage => object[l][image[l]] # 0

-----------------------------------------------------------------------------

Photos == [listing : Listing, version : 0..MaxTime, order : Order, by : Work]

Works == [step : {"new", "fetch", "replace", "image", "done"}, listing : Listing,
          version : 0..MaxTime, dated : BOOLEAN, tried : SUBSET Order, got : SUBSET Order,
          seen : SUBSET Photos]

\* What a handler has stored, and what its transaction saw: all rows of another
\* handler or none.
Handles(w, k) ==
    /\ k.step \in {"fetch", "replace", "image"} =>
          /\ k.version # 0 /\ \A o \in k.got : object[k.listing][o] # 0
          /\ w \in partial \/ k.got = k.tried
    /\ k.step \in {"replace", "image"} => k.tried = Order /\ k.got # {}
    /\ k.step \in {"new", "fetch", "replace"} =>
          \A x \in media \cup UNION {work[v].seen : v \in Work} : x.by # w
    /\ k.step = "replace" =>
          /\ \A x, y \in media : x.by = y.by => (x \in k.seen <=> y \in k.seen)
          /\ ~raced => k.seen = media /\ \A v \in Work \ {w} : work[v].step # "replace"

\* The inductive invariant.
IInv ==
    /\ TypeOK /\ PhotosAreOneSet
    /\ media \subseteq Photos /\ work \in [Work -> Works]
    /\ \A w \in Work : Handles(w, work[w])

\* What the constants have to be.
Bounds == Listing # {} /\ Order \subseteq Nat /\ MaxTime \in Nat
=============================================================================
