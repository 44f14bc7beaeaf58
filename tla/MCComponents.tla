----------------------------- MODULE MCComponents ----------------------------
(***************************************************************************)
(* Instances of the components that are checked alone.  They share no      *)
(* state, so one of them is chosen at the start and is the only one there  *)
(* is: v1 to v9 stand for its variables, in the order of its module.  The  *)
(* state spaces add up instead of multiplying.                             *)
(***************************************************************************)
EXTENDS Integers

CONSTANTS
    Request, MaxFaults, MaxChanges,                             \* of several components
    MaxListing, Property, Handler, WorkerChanges, WorkerFaults, \* Worker
    Def, Custom, Attachment, MaxSlots,                          \* Docs
    Milestones, Item, Anchor, Offset, LastDay, MaxCreated,      \* Setup
    Contact, Agent, Profile, Scan, MaxItems, Takes,             \* Memory
    Stage, TrackUpdate,                                         \* Tracks
    Email, UserEmail, Submission, MaxRequests,                  \* Links
    MaxVersion,                                                 \* Events
    Account, MaxRows,                                           \* Google
    Caller, Life, MaxTime, MaxCalls,                            \* Token
    MailKind, Sender, MailFaults,                               \* Mail
    Tenant, Address, OwnerAddress, Client, MaxUsers, MaxResets, \* People
    Website, Slug, Site, Hostname, HostOf, Starred, Body, Visit, \* Sites
    Collection, Reimported, Added, Faceted, MustHave, Migrator, Replica, \* Migration
    Tagged, Manual, TagPage, TagVersions, MaxConfig,            \* Tags
    Album, Order, PhotoWork, PhotoTime,                         \* Photos
    Advertised, Wanted, SearchRun, SearchTime,                  \* Alerts
    Lead, InboxPage, LeadFilter, Mark, LeadFetch, LeadPatch, LeadChanges, \* Inbox
    Known, Touch, Todo, Day, Recount, ActivityChanges,          \* Activity
    Indexed, IndexCall, RowVersions, IndexFaults,               \* Index
    House, ListedOn, Offer, HomePredicate, HouseOf, BoardLimit, Asking, HomeChanges, \* Homes
    WebServer, Searched, Visitor, RedisFaults                   \* Cache

VARIABLES part, v1, v2, v3, v4, v5, v6, v7, v8, v9

\* One handler that handles one record at a time (the sync worker).
Worker == INSTANCE PropertyIndex_proofs WITH
    Moves <- TRUE, MaxChanges <- WorkerChanges, MaxFaults <- WorkerFaults,
    log <- v1, feed <- v2, owed <- v3, row <- v4, doc <- v5, hand <- v6, queue <- v7,
    api <- v8, faults <- v9

Docs == INSTANCE TransactionDocuments WITH
    alive <- v1, doc <- v2, known <- v3, folder <- v4, made <- v5, req <- v6,
    faults <- v7

\* Every milestone of the template is required (DEFAULT_TEMPLATE_BLUEPRINT).
Setup == INSTANCE TransactionSetup WITH
    Required <- 1..Milestones,
    template <- v1, created <- v2, req <- v3

Memory == INSTANCE MemoryScan WITH
    Take <- Takes,
    contact <- v1, live <- v2, scan <- v3, beside <- v4, changes <- v5

Events == INSTANCE Calendar WITH
    row <- v1, copy <- v2, made <- v3, connected <- v4, req <- v5, blurred <- v6,
    faults <- v7, cut <- v8

Google == INSTANCE GoogleAccount WITH
    row <- v1, rows <- v2, req <- v3, mixed <- v4

People == INSTANCE Users WITH
    Portal <- Tenant, Email <- Address, OwnerEmail <- OwnerAddress, Request <- Client,
    portal <- v1, user <- v2, identity <- v3, session <- v4, links <- v5, req <- v6

Sites == INSTANCE Portals WITH
    Portal <- Website, Domain <- Hostname, Listing <- Starred, Request <- Visit, Patch <- Body,
    portal <- v1, published <- v2, domain <- v3, dns <- v4, featured <- v5,
    noticed <- v6, raced <- v7, req <- v8

Activity == INSTANCE ContactActivity WITH
    Contact <- Known, Interaction <- Touch, Task <- Todo, Time <- Day, Refresh <- Recount,
    MaxChanges <- ActivityChanges,
    interaction <- v1, task <- v2, field <- v3, refresh <- v4, stale <- v5,
    changes <- v6

Tracks == INSTANCE ContactTracks WITH
    Update <- TrackUpdate,
    active <- v1, tx <- v2, raced <- v3

Links == INSTANCE ContactLinks WITH
    contact <- v1, submission <- v2, req <- v3, lost <- v4, raced <- v5, requests <- v6

Index == INSTANCE DocumentIndex WITH
    Entity <- Indexed, Call <- IndexCall, Typesense <- TRUE, MaxVersion <- RowVersions,
    MaxFaults <- IndexFaults,
    alive <- v1, row <- v2, doc <- v3, call <- v4, import <- v5, stale <- v6,
    faults <- v7

Migration == INSTANCE SearchMigration WITH
    Required <- MustHave, Run <- Migrator, Server <- Replica,
    exists <- v1, field <- v2, filled <- v3, holder <- v4, run <- v5, server <- v6,
    cut <- v7, born <- v8, faults <- v9

Homes == INSTANCE Catalog WITH
    Property <- House, On <- ListedOn, Profile <- Offer, Predicate <- HomePredicate,
    Home <- HouseOf, Boards <- BoardLimit, Query <- Asking, MaxChanges <- HomeChanges,
    listing <- v1, index <- v2, override <- v3, portal <- v4, env <- v5, answer <- v6,
    changes <- v7

Cache == INSTANCE ResponseCache WITH
    Server <- WebServer, Query <- Searched, Request <- Visitor, Connects <- TRUE,
    MaxFaults <- RedisFaults,
    display <- v1, up <- v2, isConnected <- v3, entry <- v4, req <- v5, storing <- v6,
    faults <- v7

Alerts == INSTANCE SavedSearches WITH
    Home <- Advertised, Criteria <- Wanted, Run <- SearchRun, MaxTime <- SearchTime,
    now <- v1, created <- v2, active <- v3, search <- v4, run <- v5, told <- v6,
    passed <- v7

Tags == INSTANCE Classification WITH
    Property <- Tagged, PageSize <- TagPage, MaxVersion <- TagVersions,
    row <- v1, tags <- v2, config <- v3, ingest <- v4, run <- v5, record <- v6,
    chain <- v7, missed <- v8, raced <- v9

Photos == INSTANCE MediaSync WITH
    Listing <- Album, Work <- PhotoWork, MaxTime <- PhotoTime,
    time <- v1, photos <- v2, object <- v3, media <- v4, stamp <- v5, image <- v6,
    work <- v7, partial <- v8, raced <- v9

Token == INSTANCE TokenRefresh WITH
    now <- v1, cached <- v2, inflight <- v3, call <- v4, caller <- v5

Inbox == INSTANCE LeadInbox WITH
    PageSize <- InboxPage, Filter <- LeadFilter, Load <- LeadFetch, Patch <- LeadPatch,
    MaxChanges <- LeadChanges,
    lead <- v1, patch <- v2, inbox <- v3, load <- v4, owed <- v5, slipped <- v6,
    crossed <- v7, changes <- v8

Mail == INSTANCE LifecycleMail WITH
    Kind <- MailKind, Caller <- Sender, MaxFaults <- MailFaults,
    row <- v1, taken <- v2, call <- v3, faults <- v4

-----------------------------------------------------------------------------

ASSUME WorkerAssumption ==
    /\ MaxListing \in Nat /\ WorkerChanges \in Nat /\ WorkerFaults \in Nat
    /\ "no property" \notin Property
    /\ \A v, w \in Handler : v = w

ASSUME TransactionsAssumption == Docs!Bounds /\ Setup!Template

ASSUME MemoryAssumption == Memory!Bounds

ASSUME AccountsAssumption ==
    Events!Bounds /\ MaxRows \in Nat /\ Token!Bounds /\ Mail!Bounds

ASSUME ContactsAssumption == Tracks!Bounds /\ Links!Bounds

ASSUME PortalsAssumption == People!Bounds /\ Sites!Bounds

ASSUME JobsAssumption == Migration!Bounds /\ Tags!Bounds /\ Photos!Bounds

ASSUME ListsAssumption == Alerts!Bounds /\ Inbox!Bounds

ASSUME CopiesAssumption == Activity!Bounds /\ Index!Bounds

ASSUME PublicAssumption == Homes!Bounds /\ Cache!Bounds

\* What the configuration gives for the constants that are functions or sets of them.
AnchorOf == [i1 |-> 1, i2 |-> 3]
OffsetOf == [i1 |-> 1, i2 |-> -1]

Person == [type |-> "LEAD", stage |-> "NEW", silent |-> 0, consult |-> 1000, overdue |-> {}]
Cold == [Person EXCEPT !.stage = "ACTIVE", !.silent = 1]
ContactProfiles ==
    {Cold, [Person EXCEPT !.overdue = {<<"a1", 3>>, <<"a1", 1>>}, !.silent = 8],
     [Person EXCEPT !.stage = "QUALIFIED", !.silent = 1000]}
TakeOf == <<2, 1, 1, 1, 1>>
WantedHomes == {[alert |-> {"h1", "h2"}, count |-> {"h1"}],
                [alert |-> {"h2"}, count |-> {"h1", "h2"}]}
EmailOf == [u |-> "a", v |-> "a"]

Bodies == {[active |-> TRUE], [active |-> TRUE, email |-> TRUE, brokerage |-> TRUE],
           [email |-> FALSE], [active |-> TRUE, email |-> TRUE]}
Hosts == <<"a", "b">>
NewFields == [k |-> {"a"}, p |-> {}]
FacetFields == [k |-> {"b"}, p |-> {"b"}]
MustHaveFields == [k |-> {"b"}, p |-> {}]

Sale == [active |-> TRUE, idx |-> TRUE, mls |-> FALSE, board |-> "b1", price |-> 1, date |-> 1]
Profiles == {Sale, [Sale EXCEPT !.price = 2, !.date = 2], [Sale EXCEPT !.mls = TRUE],
             [Sale EXCEPT !.price = 0, !.board = "b2"], [Sale EXCEPT !.active = FALSE]}

AnyNumber == [min |-> 0, max |-> 99, nulls |-> "none"]
AllHomes == [beds |-> AnyNumber, price |-> AnyNumber, any |-> {}, exclude |-> {}]
Predicates ==
    {AllHomes,
     [AllHomes EXCEPT !.price = [min |-> 1, max |-> 1, nulls |-> "include"]],
     [AllHomes EXCEPT !.beds = [min |-> 3, max |-> 99, nulls |-> "exclude"],
                      !.price = [min |-> 0, max |-> 1, nulls |-> "exclude"]],
     [AllHomes EXCEPT !.any = {"pool"}, !.price.nulls = "only"],
     [AllHomes EXCEPT !.beds.nulls = "exclude", !.price.nulls = "exclude"]}
AnyHome == [min |-> 0, max |-> 0, status |-> "any"]
Queries == {AnyHome, [AnyHome EXCEPT !.max = 1], [AnyHome EXCEPT !.status = "sold"]}
ListedTwice == <<1, 1>>
HouseFacts == <<[beds |-> 0, tags |-> {"pool"}]>>

-----------------------------------------------------------------------------

Init ==
    \/ part = "worker" /\ Worker!Init
    \/ part = "documents" /\ Docs!Init /\ v8 = 0 /\ v9 = 0
    \/ part = "setup" /\ Setup!Init /\ v4 = 0 /\ v5 = 0 /\ v6 = 0 /\ v7 = 0 /\ v8 = 0 /\ v9 = 0
    \/ part = "memory" /\ Memory!Init /\ v6 = 0 /\ v7 = 0 /\ v8 = 0 /\ v9 = 0
    \/ part = "calendar" /\ Events!Init /\ v9 = 0
    \/ part = "google" /\ Google!Init /\ v5 = 0 /\ v6 = 0 /\ v7 = 0 /\ v8 = 0 /\ v9 = 0
    \/ part = "users" /\ People!Init /\ v7 = 0 /\ v8 = 0 /\ v9 = 0
    \/ part = "portals" /\ Sites!Init /\ v4 = {1} /\ v9 = 0
    \/ part = "activity" /\ Activity!Init /\ v7 = 0 /\ v8 = 0 /\ v9 = 0
    \/ part = "tracks" /\ Tracks!Init /\ v4 = 0 /\ v5 = 0 /\ v6 = 0 /\ v7 = 0 /\ v8 = 0 /\ v9 = 0
    \/ part = "links" /\ Links!Init /\ v7 = 0 /\ v8 = 0 /\ v9 = 0
    \/ part = "index" /\ Index!Init /\ v8 = 0 /\ v9 = 0
    \/ part = "migration" /\ Migration!Init
    \/ part = "catalog" /\ Homes!Init /\ v8 = 0 /\ v9 = 0
    \/ part = "cache" /\ Cache!Init /\ v8 = 0 /\ v9 = 0
    \/ part = "saved" /\ Alerts!Init /\ v8 = 0 /\ v9 = 0
    \/ part = "tags" /\ Tags!Init
    \/ part = "photos" /\ Photos!Init
    \/ part = "token" /\ Token!Init /\ v6 = 0 /\ v7 = 0 /\ v8 = 0 /\ v9 = 0
    \/ part = "inbox" /\ Inbox!Init /\ v9 = 0
    \/ part = "mail" /\ Mail!MailInit /\ v5 = 0 /\ v6 = 0 /\ v7 = 0 /\ v8 = 0 /\ v9 = 0

Next ==
    /\ UNCHANGED part
    /\ \/ part = "worker" /\ Worker!WorkerNext
       \/ part = "documents" /\ Docs!Next /\ UNCHANGED <<v8, v9>>
       \/ part = "setup" /\ Setup!Next /\ UNCHANGED <<v4, v5, v6, v7, v8, v9>>
       \/ part = "memory" /\ Memory!Next /\ UNCHANGED <<v6, v7, v8, v9>>
       \/ part = "calendar" /\ Events!Next /\ UNCHANGED <<v9>>
       \/ part = "google" /\ Google!Next /\ UNCHANGED <<v5, v6, v7, v8, v9>>
       \/ part = "users" /\ People!Next /\ UNCHANGED <<v7, v8, v9>>
       \/ part = "portals" /\ Sites!Next /\ UNCHANGED <<v9>>
       \/ part = "activity" /\ Activity!Next /\ UNCHANGED <<v7, v8, v9>>
       \/ part = "tracks" /\ Tracks!Next /\ UNCHANGED <<v4, v5, v6, v7, v8, v9>>
       \/ part = "links" /\ Links!Next /\ UNCHANGED <<v7, v8, v9>>
       \/ part = "index" /\ Index!Next /\ UNCHANGED <<v8, v9>>
       \/ part = "migration" /\ Migration!Next
       \/ part = "catalog" /\ Homes!Next /\ UNCHANGED <<v8, v9>>
       \/ part = "cache" /\ Cache!Next /\ UNCHANGED <<v8, v9>>
       \/ part = "saved" /\ Alerts!Next /\ UNCHANGED <<v8, v9>>
       \/ part = "tags" /\ Tags!Next
       \/ part = "photos" /\ Photos!Next
       \/ part = "token" /\ Token!Next /\ UNCHANGED <<v6, v7, v8, v9>>
       \/ part = "inbox" /\ Inbox!Next /\ UNCHANGED <<v9>>
       \/ part = "mail" /\ Mail!Next /\ UNCHANGED <<v5, v6, v7, v8, v9>>

vars == <<part, v1, v2, v3, v4, v5, v6, v7, v8, v9>>

Spec == Init /\ [][Next]_vars

-----------------------------------------------------------------------------

\* The state has the types of the part.
TypeOK ==
    /\ part = "worker" => Worker!TypeOK
    /\ part = "documents" => Docs!TypeOK
    /\ part = "setup" => Setup!TypeOK
    /\ part = "memory" => Memory!TypeOK
    /\ part = "calendar" => Events!TypeOK
    /\ part = "google" => Google!TypeOK
    /\ part = "users" => People!TypeOK
    /\ part = "portals" => Sites!TypeOK
    /\ part = "activity" => Activity!TypeOK
    /\ part = "tracks" => Tracks!TypeOK
    /\ part = "links" => Links!TypeOK
    /\ part = "index" => Index!TypeOK
    /\ part = "migration" => Migration!TypeOK
    /\ part = "catalog" => Homes!TypeOK
    /\ part = "cache" => Cache!TypeOK
    /\ part = "saved" => Alerts!TypeOK
    /\ part = "tags" => Tags!TypeOK
    /\ part = "photos" => Photos!TypeOK
    /\ part = "token" => Token!TypeOK
    /\ part = "inbox" => Inbox!TypeOK
    /\ part = "mail" => Mail!MailTypeOK

\* Fail closed: whatever calls fail and wherever a worker that handles one record at
\* a time stops, no hidden, removed, moved or outdated listing is ever shown, for
\* the document goes before the row changes (processProperty).
FailClosed == part = "worker" => Worker!FailClosed

\* Transactions: a slot that waits for its document holds none, a matched one holds
\* one, and no attachment serves two slots, whatever stale checks the requests act on
\* (transactionDocumentService); and one that was created from milestones has its
\* dates in order, the plan its agent was shown for them and the slots of a complete
\* template (transactionCreationFlowService).
TransactionsConsistent ==
    /\ part = "documents" => Docs!SlotsConsistent
    /\ part = "setup" => Setup!PlanAsShown /\ Setup!CreatedInOrder /\ Setup!CreatedWithSlots

\* What overlapping requests and retries repeat stays bounded: Drive folders of a
\* transaction; actions for a contact, of which an agent has two only where scans ran
\* beside each other, since the index that the service's comment relies on is in no
\* migration; copies of an event, which faults and disconnections cut off before they
\* are stored add to; and a lifecycle mail goes out again only after a fault, while a
\* refused one never blocks the next attempt.
NothingRepeated ==
    /\ part = "documents" => Docs!FoldersBounded
    /\ part = "memory" => Memory!ContactActionsBounded
    /\ part = "calendar" => Events!CopiesBounded
    /\ part = "mail" => Mail!OneMailPerKind /\ Mail!RowMeansMail

\* What is copied from rows comes to be the rows again: the activity fields of a
\* contact (contactActivityService), and the search documents of the CRM.  Three things
\* leave a difference behind: writes of one copy that overlap, a write that is lost with
\* the process, and a row that the code changes without copying it at all, which the
\* header of contactActivityDenormService asks no caller to do: an interaction that is
\* edited or deleted, the old contact of a task that is moved, and the rows that no
\* document is sent for.
CopiesFollowRows ==
    /\ part = "activity" => Activity!FieldsFollowRows
    /\ part = "index" => Index!DocumentFollowsRow

\* No public page shows a listing that is inactive or not to be displayed, although
\* search documents are older than what forbids it.  The pages of a portal show none
\* once it is not active, and those behind sendPublicPortal and the readiness none
\* while it is suspended; the lookup by domain asks only whether it is active.  And
\* where the cache of responses is connected, which the API does not do by itself, a
\* server with the display off serves no entry of one that has it on.
NothingHiddenIsShown ==
    /\ part = "catalog" => Homes!NothingHiddenIsShown /\ Homes!PagesAreGated
    /\ part = "cache" => Cache!SwitchHolds

\* The tokens that are stored for Google belong to the account the agent is shown, but
\* where a refresh overlapped a new authorization of the same row; and a copy of an
\* event that is behind its event is told to the agent, but where requests overlapped,
\* Google was not connected or a call was lost.
GoogleInStep ==
    /\ part = "google" => Google!TokensOfAccount
    /\ part = "calendar" => Events!StaleCopyIsTold

\* A submission that was dealt with has its contact, unless a query failed or the
\* contact was made or deleted meanwhile; a contact has one active track of a side; and
\* it passes from one user to another only where links overlapped, or where the agent's
\* update, whose body is written as it comes, names the other user.
ContactsWhole ==
    /\ [](part = "links" => Links!SubmissionsLand)
    /\ [](part = "tracks" => Tracks!OneActiveTrack)
    /\ [][part = "links" => Links!LinkKept]_<<part, v1, v2, v3, v4, v5, v6>>

\* A job that says it is completed has done the work it answers for.  The schema
\* migration of the search service has the fields everywhere, with their values where
\* the script imports them, unless a run lost the connection of its lock or dropped a
\* field and ended before the import, which no later run makes up for.  The
\* classification of the properties has the tags of all that were there from its
\* beginning and were not written by others meanwhile, or only of those up to its cursor
\* when the property there was deleted: the walk then stops early and is completed.
CompletedMeansCovered ==
    /\ part = "migration" => Migration!MigratedOnce
    /\ part = "tags" => Tags!CompletedCoversAll

\* A session is for the space where it was asked for (auth.ts), however sign-up,
\* sign-in, password resets and the deletion of a portal interleave; the users of a
\* deleted portal, whose space becomes the agents', are not held to it.
SessionInScope == part = "users" => People!SessionInScope

\* What is replaced as a set is one request's set: the canonical domain and the
\* featured listings of a portal, its domain being proved, and the photos of a property,
\* each with its file.  Replacements of one set that overlap are left out: nothing
\* in the code keeps them from mixing.
SetsAreReplacedWhole ==
    /\ part = "portals" => Sites!ReplacedWhole /\ Sites!CanonicalIsActive
    /\ part = "photos" => Photos!PhotosAreOneSet

\* Both engines answer a query with the same properties, an answer's listings match
\* what was asked for, and a collection compiles to what its predicate says, where a
\* rule that leaves nulls out and gives no bound says nothing, although
\* evaluateCollectionPredicate has it leave out unknown values.
AnswersMeanTheQuery ==
    part = "catalog" => Homes!EnginesAgree /\ Homes!ShownIsMatched /\ Homes!CollectionIsPredicate

\* A saved search tells of every property that the criteria find from before it was
\* listed (cron.ts, users.ts), but for those that come to match by a change of the
\* criteria or of a listing behind lastRunAt or a run's count, and those of a mail that
\* was skipped and stamped all the same; and an owner who has loaded all pages of the
\* inbox has every lead that matched from the first page on, once, but where fetches
\* crossed or a cursor's row left.
NothingIsMissed ==
    /\ part = "saved" => Alerts!NothingIsMissed
    /\ part = "inbox" => Inbox!ListedOnce

\* Concurrent requests share one call of the token endpoint and no failure of before
\* (OAuth2ClientCredentialsAuth).
SingleFlight == part = "token" => Token!SingleFlight

=============================================================================
