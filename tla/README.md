# frontstead-kit: TLA+ models, checks and proofs

frontstead-kit is a real-estate platform: a worker that copies MLS boards into
PostgreSQL and Typesense (`apps/mls-service`), an Express API for portals and
their owners (`apps/api`), a Next.js portal (`apps/portal`) and shared packages
(`packages/*`). This directory models the parts of it where several actors, a
crash or a lost answer can go wrong in an order no test exercises. Each model is
translated from the TypeScript source; `PROJECT.json` maps every definition to
the lines it stands for.

    tlc  -workers 2 -config MlsSync.cfg MCMlsSync.tla    # any run of the table below
    tlapm LeadAction_proofs.tla                          # any *_proofs module

## 1. Inventory

What each component keeps, what it does, what makes it hard, and what makes it
correct. `PROJECT.json` "components" lists all of them with their files, and
"hazards" the lines where they can go wrong.

| component | state | operations | what is hard | correct when | here |
|---|---|---|---|---|---|
| MLS synchronisation run (`sync/runSync.ts`, `cursor.ts`, `index.ts`, the RESO connector) | `SyncCursor`, `MlsSyncFailure`, the in-process `running` set | cron ticks, dead-letter replay, paging, chunks of `CONCURRENCY` handlers, nightly full pull, shutdown | changes published while pages are read, ties at the watermark, overlapping runs, crashes, `recordFailure` failing itself | no change is skipped, pages do not take a listing back, dead letters drain | `MlsSync` |
| MLS persistence and the property document (`sync/persistence.ts`, `packages/search`) | `Listing`, `Property`, the Typesense `properties` collection, the in-process rebuild queue | upsert, removal, rebuild of a document, `updateProperty`, exact reindex | two stores without a common transaction, handlers and the API rebuilding one document | what must not be shown is not shown; documents are exact at rest | `PropertyIndex` |
| MLS media (`sync/media.ts`) | `Media`, `photosSyncedAt`, stored objects | download, store, replace, stamp | some photos fail, two records of one property at once | the rows are one record's set | `MediaSync` |
| OAuth2 client credentials | cached token, kept promise | get headers | concurrent expiry, a failed refresh | one refresh at a time, a failure is not shared later | `TokenRefresh` |
| Inquiry delivery (`inquiryDeliveryService.ts`, its scheduler, the cron route) | `InquiryDelivery` rows | enqueue, claim, send, record, retry, dead-letter, take over a stale lock | several dispatchers, slow calls, lost answers, crashes | exclusive claims, a duplicate only after a fault, everything settles | `InquiryDelivery`, `Outbox` |
| Inquiries and the owner's inbox (`ownerLeads.ts`, `agentPortals.ts`, `owner-leads-inbox.tsx`) | `Inquiry.status`, `respondedAt`; the list in the browser | three writers of a status, pages by cursor, filters | fetches that cross, a cursor whose row leaves the filter | every lead is listed, once | `LeadInbox` |
| Lead response and action queue (`aiDraftService.ts`, `leadResponseAgentService.ts`, `actionQueueService.ts`, recovery cron) | `AIAction` rows, `Inquiry.respondedAt` | draft, recover, execute under a lease, dismiss, snooze, answer by hand | look-then-act across a model call and a mail, leases, partial execution | one execution at a time, no needless second mail, SENT means sent, no lead that has an agent forgotten | `LeadAction` |
| AI chat, relationship memory, risk scan | a conversation; `AIAction` rows | tool rounds; scans by cron and on demand | failing model calls; scans that overlap; the limit of a scan | every call is answered; only overlapping scans repeat an action; a risk that scans read is queued at last | `AgentChat`, `MemoryScan`, `RiskScan` |
| Lifecycle email | `EmailDelivery`, unique in account and kind | make the row, send, record or delete | concurrent handlers, lost answers, a failed delete | one mail of a kind but for faults; a refusal blocks nothing | `LifecycleMail` |
| MLS verification | `AccountMlsAccess`, the roster | link, daily check, flag, alert | the roster moving between read and write | the flag follows the roster | `MlsAccess` |
| Portals, domains, accounts | `Portal`, `PortalDomain`, featured listings | update, publish, prove a domain, make it canonical, suspend | look-then-write handlers, two-statement transactions | one canonical domain but for races, which is active; a set is replaced whole | `Portals` |
| Authentication and users | `User`, identities, resets, sessions | sign-up, sign-in, Google, reset, deletion | handlers that hash or call Google between read and write | a session is for its space | `Users` |
| Contacts | `Contact`, tracks, links, submissions, activity fields | create, link, submit, update, refresh | links and updates that look first, refreshes nobody awaits | a submission has its contact, one active track, fields follow the rows where a refresh follows the change | `ContactLinks`, `ContactTracks`, `ContactActivity` |
| Transactions | rows, slots, sync runs, Drive folders | set up from milestones, match, verify, synchronise mail | one template made by whoever comes first, stale checks, runs nobody awaits | dates in order, slots consistent, a dismissed message stays | `TransactionSetup`, `TransactionDocuments`, `TransactionSync` |
| Google account and calendar | `ConnectedAccount`, `Event` | authorize, refresh, disconnect; copy an event | a refresh across a disconnection; the row and its copy | tokens belong to the account shown; a stale copy is told | `GoogleAccount`, `Calendar` |
| Public search, pages and collections | `Listing`, search documents, overrides | query either engine, property pages, compile a predicate | two engines, two evaluators, stale documents, nulls and open bounds | no hidden listing is shown, both engines agree | `Catalog` |
| Classification | tags, `ClassificationRun` | classify one, walk all, resume | a cursor whose row goes, homes added meanwhile | COMPLETED means all, or all up to a deleted cursor | `Classification` |
| CRM documents | Typesense documents | write the row, send the document, import | order of promises nobody awaits, a refused write | documents follow rows | `DocumentIndex` |
| Schema migration of the search | collections, an advisory lock | drop, add, import | a failure between calls, the loss of the lock, servers that create collections | one run at a time while the lock is kept; migrated means the new schema, and filled unless a run ended before its import | `SearchMigration` |
| Response cache | Redis entries | get, set, expire | a response stored after the switch was turned, servers of both kinds | the switch holds | `ResponseCache` |
| Saved searches | `SavedSearch.lastRunAt` | save, change, alert, count on demand | homes and criteria that change between count and stamp | nothing is missed but those and the homes of a skipped mail | `SavedSearches` |
| Roster, mappers, reports, other pages of the portal, UI, email rendering | none of their own, or single idempotent writes | | | | not modelled, see section 7 |

How they interact: the worker's run (`MlsSync`) hands each record to persistence
(`PropertyIndex`); its failures come back as dead letters. The API writes an
inquiry and its `InquiryDelivery` row in one transaction, answers the visitor,
and calls `enqueue` for the lead response; both are repaired by cron routes. The
search collection is written by the worker and by the API with no lock between
the two processes.

## 2. Modules

| module | role |
|---|---|
| `MlsSync` | the runs of one resource of one provider |
| `PropertyIndex` | the collection beside the rows: the worker's handlers (`WorkerNext`) and the requests of the API (`ApiNext`) |
| `MediaSync`, `TokenRefresh` | the photos a handler replaces, the token its requests share |
| `Outbox` | the abstract promise of the inquiry outbox |
| `InquiryDelivery` | the dispatchers, shown to implement `Outbox` |
| `LeadAction` | the AI reply to a lead |
| `LeadInbox`, `AgentChat`, `MemoryScan`, `RiskScan`, `LifecycleMail`, `MlsAccess`, `Portals`, `Users`, `ContactLinks`, `ContactTracks`, `ContactActivity`, `TransactionSetup`, `TransactionDocuments`, `TransactionSync`, `GoogleAccount`, `Calendar`, `Catalog`, `Classification`, `DocumentIndex`, `SearchMigration`, `ResponseCache`, `SavedSearches` | one component each, see below |
| `MCMlsSync`, `MCInquiryDelivery`, `MCPropertyIndex`, `MCLeadAction`, `MCDocumentIndex` | instances of one module |
| `MCIngestion`, `MCBackground`, `MCComponents` | many components side by side, see section 3 |
| `MlsSync_proofs`, `PropertyIndex_proofs`, `InquiryDelivery_proofs`, `LeadAction_proofs` | theorems about one module each |
| `Background_proofs` | theorems about the parts of `MCBackground` |
| `Accounts_proofs`, `Crm_proofs`, `Components_proofs` | theorems about the parts of `MCComponents`, each extending the one before |

### MlsSync

`log` is the vendor's history: a record revision is its position, so a dead
letter's payload or a record in flight is a number. `cur[k]` is what the feed
serves of listing key k. `db`, `dl`, `cursor` are the Listing, MlsSyncFailure
and SyncCursor rows, `running` the lock, `run[i]` one invocation of `runSync`
with its page, its chunk and, after an abort, the handlers that outlive it
(`tail`). `seen` is a history variable.

| action | code |
|---|---|
| `Start` | the lock and the query of pending dead letters (`runSync`, `retryFailures`) |
| `TakeRetry`, `Succeed`, `Fail` | one replay, and its deletion or count |
| `RetryDone` | `getCursor` and the filter, computed once for the run |
| `FetchPage` | one request; the watermark takes the last record's timestamp |
| `StartChunk`, `Commit`, `Succeed`, `Fail` | `processPage`: dispatch, `clearFailure`, `recordFailure` |
| `FailUnrecorded` | `recordFailure` rejects: the run aborts, its other handlers go on |
| `Finish` | `updateCursor` and the `finally` |
| `FetchError`, `Crash` | a request that gives up after its retries; the process ends |

Assumptions: ModificationTimestamps never decrease in the order of publication,
and may tie. `@odata.nextLink` continues after the last record served, in the
feed's order, over the records as they are then; a full page always has one.
`retryCount` is not followed beyond MaxRetries, which is all the code compares it
with. A handler's failed dispatch and its `recordFailure` are one step. Records
without an external id and the kill switch change nothing and are left out.

### PropertyIndex

A listing is `owed` from the vendor's change until a handler has processed it to
the end, which is what `MlsSync` guarantees of failures and crashes. A handler
deletes the property's document (`PreDelete`), commits the row (`Commit`), joins
the property's queue (`Enqueue`), and when it is first reads the newest eligible
listing (`Load`) and writes or deletes the document (`Write`). `Fail` and `Crash`
lose the handler and keep the listing owed. `ApiRefresh` is the rebuild after
`updateProperty`; `Reindex*` is `/api/search/reindex` with `exact`: fetch,
import, delete what is stale, one call for each document, then rebuild one by one.
`WorkerSpec` is the worker alone, about which the safety properties are; `Spec` adds
the API, in a process of its own and without a lock between the two.

Assumptions: the newest listing is decided by a fixed order; the code orders by
`listDate` and then `createdAt`, so a record that gives its listing another listDate
is left out.
Giving a dead letter up at MaxRetries is in `MlsSync`, not here. A Typesense call
either takes effect before its answer or does not; one that is applied after the
caller gave up is not modelled.

### InquiryDelivery and Outbox

Instants are relative to the present: `due` is nextAttemptAt minus now, `held`
now minus lockedAt, a call's `age` now minus the `now` it read at its start and
uses for every comparison and lock it writes. `Begin` reads the candidates;
`Claim`/`Skip` is the conditional update of the next one; `Read` the row with its
inquiry; `Accept`, `Refuse`, `AnswerLost` the provider; `Delivered`, `Failed`,
`UpdateError` the final update; `Abort` a crash or error that escapes.

`Outbox` knows only what a consumer cares for: queued alerts, how often each may
be attempted, and that it ends delivered or dead. The refinement maps the state
column and the mails taken.

Assumption: no call outlives the 15-minute lock (`MaxAge < StaleLock`) in the
passing run and the proofs; `InquiryDelivery_final` drops it. Deleting an
inquiry, which cascades to its row, is left out.

### LeadAction

`status` and `lease` are the AIAction rows, addressed by lead and number;
`responded` the inquiries with a respondedAt; `call[c]` a request between two
awaits. `Arrive`/`Enqueue`/`Persist`/`DraftFails` are `enqueue`; `Recover`,
`Filter`, `EachLead` the recovery cron, which calls `enqueue` in turn;
`Execute`, `CheckResponded`, `Expire`, `Acquire`, `Send`, `SendFails`, `Crm`,
`CrmFails`, `MarkFailed`, `Finalize` are `executeLeadResponse`; `Decide` with
`Dismiss` or `Snooze` the two decisions; `RespondByHand` the three other writers
of respondedAt; `LeaseExpires` the 90 seconds; `Abort` a crash or a database
error anywhere.

`led` is the leads whose context names an agent: `enqueue` leaves the others alone,
and `Relate` links a submission to a contact or takes the contact away (an inquiry
keeps its account).

Assumptions: the recovery cron, which looks back 48 hours (`cron.ts:93-94`), is
invoked before a lead is older than that. Of the CRM transaction only the inquiry's
answer is kept; contacts, tasks and interactions are not read again. `reviewAction`
only stamps decidedAt. APPROVED is listed by the code but never written.

### The smaller components

Each is a module of its own, in the same style: the rows it writes are
variables, a handler that awaits between two queries has a step for each part
and keeps what it read in its request (`req`, `call`, `run`, `scan`, `work`), and
a history variable tells a race or a fault apart where the property makes an
exception of it.

| module | state and actions | what it leaves out |
|---|---|---|
| `MediaSync` | `Start` to `Commit` and `Cover` of a record's handler: photos downloaded one by one, rows replaced under READ COMMITTED, the first image | formats, the store's own failures beyond a failed photo |
| `TokenRefresh` | `UseCached`, `Ask`, `Answer`, `Resume`: the kept promise and those who wait for it | the request itself |
| `LeadInbox` | the three writers of a status; `ChangeFilter`, `LoadMore`, the read of a page and its arrival | sort orders other than the newest first |
| `AgentChat` | the rounds of tools, their results as cards, the answer; a call that is not of a function is passed over | the text of prompts and answers, how many items a tool returns |
| `MemoryScan`, `RiskScan` | the five queries, each with its order and `take`; the first `take` transactions by closing date; read the active actions, judge, queue up to a limit; decisions between scans | the model's text |
| `LifecycleMail` | make the row, send, record or clean up; faults | templates |
| `MlsAccess` | link, the daily check row by row, the flag and its alert of the flag's day (`LifecycleMail` is instantiated for it) | parsing of roster records |
| `Portals` | creation, patches, domains and their proof by DNS, canonical, featured, suspension | slugs' wording, colours and texts |
| `Users` | sign-up, sign-in, Google, resets, portals' consumers, administration | hashing and cookies: a session is what was signed |
| `ContactLinks`, `ContactTracks`, `ContactActivity` | submissions, links by hand and automatic, the agent's update with the address and the user its unfiltered body may name; tracks in transactions; the refresh's four reads and its write | names, notes, tags; an `accountId` in that body, as there is one account |
| `TransactionSetup` | the default template under concurrency, validation, preview, creation | titles and descriptions |
| `TransactionDocuments` | slots, matching and its stale check, verification, the Drive folder and copies | contents of files |
| `TransactionSync` | runs, messages, attachments, participants, review | what makes a mail relevant |
| `GoogleAccount`, `Calendar` | authorization, refresh and disconnection; commit, call Google, write the account's `lastSyncedAt`, which a disconnect makes fail, and note the outcome | scopes; attendees and reminders |
| `Catalog` | the eligible listing of a property in both engines, gates of a portal's pages, predicates compiled and evaluated | pages, ranking, a query's words |
| `Classification` | classify one, walk page by page beside additions and deletions, fail, resume | the rules themselves: a tag set is the attributes and configuration it is of; two walks at a time |
| `DocumentIndex` | the row, the document on its way, the import of all | fields |
| `SearchMigration` | the lock and its connection, which may go, drop, add, import, servers that start | types of fields |
| `ResponseCache` | get, compute, store, expire; a Redis that goes away with or without its entries, each server noticing for itself; servers with either value of the switch | bodies |
| `SavedSearches` | save, change of the criteria, count, mail taken, skipped or refused, stamp, by the cron and by the user | mail text; prices and places that change: which homes criteria find is fixed |

## 3. Runs

| run | checks | shows | bounds |
|---|---|---|---|
| `MlsSync` | TypeOK, NoChangeSkipped, PagesNeverRegress | the watermark never passes a change no run handled; pages never take a listing back | 2 keys, 2 overlapping invocations, pages and chunks of 2, 3 revisions on 2 ticks, 1 fault |
| `MlsSync_removal` | NoRemovalSkipped (violated) | a full pull moves the watermark past the removal of a listing that is shown, which it cannot see | 3 revisions, no fault |
| `MlsSync_dropped` | FailuresKept (violated) | a dead letter keeps its first payload; its replay loses the newer failure | 3 revisions, no fault |
| `Ingestion` | EventuallyHandled, DeadLettersDrain, ReindexRepairs | every visible change is at last handled; every dead letter is replayed or abandoned; an undisturbed reindex repairs whatever races and failures left | 2 keys, 2 revisions, unlimited dispatch failures, 1 fault; 2 listings, 2 properties, 2 changes, 1 fault |
| `PropertyIndex_worker` | TypeOK, ExactAtRest, ExposureIsCorrected, EventuallyExact | two handlers: a stale document always has its corrector, and the collection converges | 2 listings, 2 properties, 3 changes, 2 faults, parcels fixed |
| `PropertyIndex_moved` | ExactAtRest (violated) | a listing that changes parcel leaves the old property without a document | 3 changes, no fault |
| `InquiryDelivery` | TypeOK, ClaimsExclusive, OneMailPerFault, ImplementsOutbox, EveryAlertSettles | exclusive claims, duplicates only for faults, refinement, settlement | 2 rows, 2 dispatchers, 2 attempts, 2 faults |
| `InquiryDelivery_final` | DeliveredIsFinal (violated) | a call slower than its lock undoes another's DELIVERED | 1 row, no fault |
| `LeadAction_index` | OneLiveAction (violated) | a lead's own enqueue and the cron each create an action | 2 leads, 2 actions, no fault |
| `Background` | AllTypesOK, LeaseExclusive, ResendNeedsFault, SentIsDone, CallsAreAnswered, WorkIsBounded, RespondedIsMailed, DismissedStays, EveryLeadIsDrafted, EveryJobEnds, FlagSettles | what the API does by itself: one execution of an action at a time, a second mail only after a fault, repetition by overlapping scans and sync runs alone, and everything begun comes to an end | `LeadAction` (an inquiry or a submission, with an agent or without, 1 action, 2 requests and the cron, 1 fault), `RiskScan` (3 transactions of which a scan reads 2 and queues 1, 2 scans), `TransactionSync`, `MlsAccess`, `AgentChat` |
| `Components` | TypeOK, FailClosed, TransactionsConsistent, NothingRepeated, CopiesFollowRows, NothingHiddenIsShown, GoogleInStep, CompletedMeansCovered, SessionInScope, SetsAreReplacedWhole, AnswersMeanTheQuery, NothingIsMissed, SingleFlight, ContactsWhole | 21 component instances, each alone; the worker with one handler and moving parcels among them | in `MCComponents`, instance by instance |
| `DocumentIndex_without` | SearchIsOptional (violated) | without a search service the first write of a contact ends the process | 1 row, 2 calls |

**Side by side.** The components share no state, so `MCBackground` and
`MCComponents` (and `MCIngestion`, for its two) choose one at the start
(`part`) and let only that one move: the state spaces add up instead of
multiplying, one run of TLC serves many modules, and each property is about the
parts it names. In `MCComponents` the variables `v1` to `v9` stand for those of
whichever part was chosen; in `MCBackground` and `MCIngestion`, where fairness
needs the variables of each part, every part has its own and the others stand
still. Nothing is composed that interacts in the code, except where a module
instantiates another (`InquiryDelivery` its `Outbox`, `MlsAccess` the lifecycle
mail). The constants of the components are constants of the composite, under names of
their own where two components use one name, and its assumptions
(`TransactionsAssumption`, `PortalsAssumption` and so on) are the components' `Bounds`:
the theorems of section 5 are about the composites for any constants that satisfy
them.

Why the bounds are enough. The hazards of `MlsSync` need a record that changes
between two pages (two keys, three revisions), a tie (more revisions than
ticks), a second invocation beside an aborted one (two slots), and one page with
two handlers; smaller instances miss one of these and the mutants show that these
do not. In `PropertyIndex` a document is disputed by two listings of one property
or two handlers of one listing, and a move needs two properties. In
`InquiryDelivery` two dispatchers are the least that race, two rows the least
that age while another is sent, and one tick within the lock beside two the least
that tells a claim from a take-over. In `LeadAction` everything is about one
action, so one lead and one action with two requests beside the cron are the
least that race (`OneLead`: the lead of a behaviour is an inquiry or a submission,
and a submission's agent comes and goes until somebody drafts for it); the proofs
remove the bound for all its safety properties. In `RiskScan` three transactions
and a scan that reads two make the `take` of the query bite: which two is decided by
closing dates that change, so that a transaction at risk falls behind and comes back. The
smaller components have two requests that overlap, and a third where a race of
two is to be told from an undisturbed one (`Portals`, `Users`, `ContactTracks`,
`LifecycleMail`); two of whatever is disputed (slots, accounts,
domains, pages); and a fault where the code handles one. Every property has a
mutant of the code, named in `PROJECT.json`, that breaks it under the same bounds;
a property of several parts has its mutant in one of them.

`CHECK_DEADLOCK FALSE` stands where the system really may rest: `PropertyIndex`
when the vendor is done and nothing is owed, and the composite runs, in which a
component whose requests have been answered waits for the next.

Violations are disagreements between the code and what its own comments, docs or
schema say; "findings" quotes each.

### Where the comments say more than the code does

Seen while modelling and not given a run of their own. Where a property is near, it
says what the code keeps instead, and its comment says what it leaves out.

| what is said | what the code does | in the model |
|---|---|---|
| one AIAction per transaction (`transactionRiskService.ts:17-18`) | scans look first and create later; no unique index | RiskActionsBounded: a second one only where scans ran beside each other |
| one active AIAction per contact, by a partial unique index (`relationshipMemoryService.ts:15-16`) | no migration creates the index; and each of the agents who share contacts queues its own | ContactActionsBounded, per agent, likewise |
| the idempotency key prevents duplicates (`cron.ts:90`) | submissions record no answer: each recovery within 48 hours drafts a new reply to one already SENT | `Recover` in `LeadAction` |
| do not retry the send (`aiDraftService.ts:198`) | a FAILED action whose mail went out can be executed again | ResendNeedsFault counts exactly these |
| a refresh after any change of interactions and tasks (`contactActivityDenormService.ts:2-11`) | none after an interaction is edited or deleted, nor for the contact a task leaves (`contactService.ts:500-535`) | `stale` in `ContactActivity`; FieldsFollowRows leaves these out |
| a suspended portal gives a generic `{ suspended: true }` and no more (`portalPublic.ts:128-132`) | the lookup by domain asks only whether the portal is active (`portalPublic.ts:275-286`) and shows its featured listings | PagesAreGated holds the `domain` surface to being active alone |
| only one process ever runs the alter (`typesense-migrate.ts:10-11`) | the advisory lock belongs to a connection of the pool (line 53) and is gone when that is | `LoseLock`; MigratedOnce is about runs that kept it |
| re-runs are no-ops (line 2), values are restored immediately (159-160) | a run that ends between drop and import leaves the field without values, and later runs see no difference | `cut`; MigratedOnce leaves that collection's values out |
| resumable keyset jobs (`docs/CLASSIFICATION.md:9-18`) | a walk whose cursor's property was deleted reads an empty page and is COMPLETED | `missed`; CompletedCoversAll then covers those up to the cursor |
| never two canonical domains (`portalDomainService.ts:88-90`) | two requests that make different domains canonical leave two | `raced` in `Portals` |
| nulls `exclude` leaves unknown values out (`collectionPredicate.ts:64`) | the compiled rule has no condition without a bound (11-14) | InEffect in `Catalog`: such a rule counts as none |
| concurrent runs are prevented from overlapping (`runSync.ts:237-238`) | handlers that outlive a rejected `Promise.all` (193) are at work beside the next run | `tail` in `MlsSync` |
| a responded inquiry may only be archived (`ownerLeads.ts:141`) | true of the row that was read, not of the row that is written | `LeadInbox` |

And without a comment that says otherwise:

- an API rebuild that read before the worker's commit may write after it and stay
  until the next change or reindex (`Spec` of `PropertyIndex` beside `WorkerSpec`);
- an action left EXECUTING by a crash is never executed again and blocks the
  recovery cron: the lapse of its lease is acted on nowhere;
- without RESEND_API_KEY `sendEmail` returns `skipped`: the action becomes SENT
  (`Provider = FALSE`), and the saved search is stamped (`cron.ts:66-75`,
  `EmailService.ts:47-49`) although nobody was told (`Send` in `SavedSearches`);
- a change of a saved search's criteria keeps `lastRunAt`, so older homes that only
  the new criteria find are never mailed (`users.ts:361-395`, `passed`);
- a lead whose context names no agent is never drafted for
  (`leadResponseAgentService.ts:54-55`), and a transaction behind the first 50 by
  closing date is not read by the risk scan (`transactionRiskService.ts:120`): those
  before it count although they have their action;
- `PUT /contacts/:id` writes its body as it comes (`agentContacts.ts:51-53`), so it may
  move a contact to another portal user (`UpdateContact`);
- a copy of an event is not stored if the account is disconnected while Google makes it,
  for the account's update fails (`googleWorkspaceService.ts:461-464`, `cut` in `Calendar`);
- a tool call that is not of a function is left without a result
  (`aiChatService.ts:478`); the tools offered are all functions;
- `dismissAction` reads the status and writes by id, so an action that was SENT
  meanwhile becomes DISMISSED;
- `verifyDocument` writes by id alone: a slot that lost its attachment after the
  check becomes VERIFIED without one;
- a refresh of Google's tokens that overlaps a new authorization of the same row
  leaves the token of one account under the name of the other (`mixed`);
- the users of a deleted portal become agents by their row (`agentPortals.ts:322`).

## 4. Fairness

- `MlsSync`: node-cron keeps ticking (`WF` of some `Start`), and the promises of a
  started run settle (`WF` of each run's `Work`); the HTTP client's timeouts turn a
  hanging request into `FetchError`. No fairness for the vendor or for faults.
- `PropertyIndex`: handlers go on (`WF` of each one's `Work`, in `WorkerFairSpec`),
  and in `Ingestion` the API request does too. That an owed listing is taken again
  is `MlsSync`'s EventuallyHandled.
- `InquiryDelivery`: time passes, the scheduler's interval fires (`WF` of
  `Begin(Scheduler)`; the cron route gets none), and calls go on.
- `LeadAction`: calls go on, and the recovery cron is invoked again and again. The
  owner owes nothing: no executions, dismissals or answers are assumed.
- `TransactionSync`, `AgentChat`: the promises of a run or a chat that was started
  settle. `RiskScan`: so do those of a scan, and the daily cron fires. `MlsAccess`:
  so do those of a check; the cron is a bounded number of days.

The other components have safety properties only, and no fairness.

## 5. Proofs

All theorems hold for every value of the constants under the named assumptions of
the modules; nothing else is assumed. Every safety property of a passing run, state
or action, is a theorem:

| theorem (module) | property |
|---|---|
| `TypeCorrect`, `WatermarkSafe`, `PagesHold`, `LockSafe` (`MlsSync_proofs`) | TypeOK, NoChangeSkipped, PagesNeverRegress, the lock |
| `TypeCorrect`, `WorkerExact`, `WorkerCorrects`, `WorkerFailsClosed`, `DocumentsHaveAnOrigin` (`PropertyIndex_proofs`) | TypeOK, ExactAtRest, ExposureIsCorrected, FailClosed, Provenance |
| `TypeCorrect`, `Exclusive`, `MailsPaidFor`, `Implementation` (`InquiryDelivery_proofs`) | TypeOK, ClaimsExclusive, OneMailPerFault, ImplementsOutbox |
| `TypeCorrect`, `Exclusive`, `NoNeedlessResend`, `SentMeansDone`, `RespondedMeansMailed` (`LeadAction_proofs`) | LeaseExclusive, ResendNeedsFault, SentIsDone, RespondedIsMailed |
| `TypesAreKept`, `WorkStaysBounded`, `CallsGetAnswers`, `DismissedForever`, `AlertsGoOnce` (`Background_proofs`) | AllTypesOK, WorkIsBounded, CallsAreAnswered, DismissedStays, the alerts of `MlsAccess` |
| `OneTokenCall`, `SessionsStayInScope`, `HiddenStaysHidden`, `AnswersMean` (`Accounts_proofs`) | SingleFlight, SessionInScope, NothingHiddenIsShown, AnswersMeanTheQuery |
| `TransactionsHold`, `ContactsHold`, `CopiesFollow` (`Crm_proofs`) | TransactionsConsistent, ContactsWhole, CopiesFollowRows |
| `TypesHold`, `WorkerIsClosed`, `RepetitionIsBounded`, `GoogleStaysInStep`, `CompletedCovers`, `SetsStayWhole`, `NothingMissed` (`Components_proofs`) | TypeOK, FailClosed, NothingRepeated, GoogleInStep, CompletedMeansCovered, SetsAreReplacedWhole, NothingIsMissed |

**`MlsSync_proofs`**. NoChangeSkipped speaks of the cursor only, which moves once per
run, so the invariant must say what a run knows before it stores it: `IInv` = TypeOK,
`LogInv` (timestamps follow the history), `LockInv` (one active run, and it holds the
lock), and for each run `FilterInv` (its filter is the cursor's, its watermark the
timestamp of the last revision served) and `SweepInv` (every change behind that
position and in the filter is handled, in flight, or newer than what was served).
Finishing then turns the sweep into the property, and the overlap covers the ties.
PagesNeverRegress, an action property, needs to know what is on its way in every
other run: `PageInv` adds `LatestInv` (nothing stored is later than what the feed
serves), `WaitInv` (records wait only where they are worked on) and `FreshInv` (while a
run works on a page, neither the row nor a record in any run is newer than its
own of the same key).

**`PropertyIndex_proofs`**. ExactAtRest and ExposureIsCorrected are proved while no
listing moves to another parcel, and FailClosed for one handler. ExactAtRest speaks of
a quiet moment, so `ExactInv` says who owes the document what in between: `DocInv`, a
document that is not that of the newest eligible listing is of a property with a
listing that is owed; `SnapInv`, so is what a rebuild has read, and not only by its own
listing, which is settled when it writes; `FixedInv` and `PlaceInv`, all changes of a
listing are at one parcel, where its row is. Without the last two the theorem is
false, as `PropertyIndex_moved` shows. Below it, `IInv` is about the handlers
themselves: no two have the same listing (`ApartInv`), each works on what is owed
(`HandInv`), and a rebuild runs at the head of its property's queue (`QueueInv`).
`ClosedInv` is simpler: a handler about to commit has removed the document of the place
its listing is at, and with only one handler what it has read is still the newest when
it writes. That a set of listings has a newest rests on the library's
well-foundedness of the naturals. None of these three holds beside the API's own
rebuilds. What is left then is Provenance, proved for `Spec`, whatever moves, fails and
overlaps: a document is always of a change the vendor published as public, at that
property, which the listing's row has reached. So a late rebuild may show a listing as
it once was, and no interleaving shows one as it never was. `OriginInv` says the same of
everything that was read and is not yet written (`ShownInv`), and of the rows it was
read from (`RowsInv`), which do not go back while one handler at a time has a listing;
that two may have it, a page's and a replayed dead letter's, is `MlsSync`'s matter.
Provenance is checked by no run: it is stated in the proof module.

**`InquiryDelivery_proofs`**. Exclusiveness depends on time: `HoldInv` says that the
holder of a row is younger than the row's lock would have to be to be taken over,
which needs `MaxAge < StaleLock`. `RowInv` relates a row's attempts and state to the
call that holds it; `MailInv` charges every mail beyond the first to a fault. The
refinement of `Outbox` is proved from them, initial states and steps.

**`LeadAction_proofs`**. `HandInv` is the reason the lease works even after it lapsed:
while a request is past the acquisition its row is in no executable status, whatever
dismissals, snoozes or late EXPIRED writes did to it. `MailInv` keeps one unit of
slack: what may be executed, or is about to mail or to fail, has mailed no more often
than there were faults. `DoneInv` carries "mailed" and "answered" from the send to the
final write. Steps are grouped by what they touch (`CallStep`, `RowStep`, `HandStep`).

**`Background_proofs`, `Accounts_proofs`, `Crm_proofs`, `Components_proofs`** are about
the instances of `MCBackground` and `MCComponents`, so that what is proved is what TLC
checks. Each component has a section: that its `IInv` holds initially
(`...Initially`), that every step keeps it (`...Inductive`, one lemma per action or
group of actions), and what follows (`...Properties`). A theorem combines those of the
parts it names with `Chosen` and `EachStep`: a component that does not move keeps its
variables. The last three modules form a chain of EXTENDS, as one theorem may need
components of each; `MCComponents` names the state v1 to v9 whichever part moves, and
each section opens with the list of what they are there. The invariants, which the
modules state after their properties:

| module | the inductive invariant |
|---|---|
| `TokenRefresh` | a call that is out is the one whose promise is kept (`Kept`), so none is made beside it; whoever waits, waits for a call that was made (`Settled`) |
| `LifecycleMail` | one call at most works on a mail of a kind and holds its row (`Alone`); whoever may still send has only as many mails behind it as there were faults (`Counted`); a row left alone stands for a mail or a fault (`Stands`) |
| `GoogleAccount` | ids are never given again (`Ids`), so a refresh of a deleted row matches no later one; a refresh of the stored row is of the account it shows (`Own`), but where an authorization overlapped it |
| `Users` | a session is in scope by what it says *and* by its user's row now, which a refresh would sign; so is what a request is about to sign, by the row it read and by that row now (`Fit`) |
| `Portals` | the domain a request is about is still active if it is there at all; unless replacements overlapped, what the first statement took away is all there is when the second runs (`Knows`). The types need `Carries` besides: what a request has read and will write |
| `Catalog` | no answer survives the first change after it; the engines, the predicates and the ranges agree by lemmas about the operators, for every row, document and query |
| `ResponseCache` | a key made with the switch off holds no MLS listings, and what is on the way to Redis is what its server, not restarted since, answered |
| `TransactionDocuments` | the request that matches carries an attachment; that no other slot keeps it comes from the transaction's second update and not from the check that went before. As long as the row names no folder, each one made is about to be stored or lost with its request (`FolderInv`) |
| `TransactionSetup` | whatever was created had been accepted |
| `Calendar` | `CopyInv` counts copies against the requests that will note them, the faults and the calls cut off; `StaleInv`: one request at most holds what it read, and that is what the row says or will be read again |
| `MemoryScan`, `RiskScan`, `TransactionSync` | what is there plus the scans or runs still going to add to it are no more than the scans or runs: whoever adds looked while there was none, and comes to it once; where there is one that no other scan ran beside, nobody is going to add |
| `ContactTracks` | unless two updates overlapped unseen, one is under way at most, and it ends every track there is |
| `ContactLinks` | a submission has its contact from when it is linked until the contact goes; a link on its way finds the contact without a user or with its own, or the contact is counted as raced |
| `ContactActivity`, `DocumentIndex` | of what is not stale, one refresh or write at most is on its way; what it has read is still so, and where none is the copy is the row (`Follows`) |
| `SearchMigration` | as long as no run has lost its lock (`Locked`), the run that has it is the one that migrates, and knows which fields of its collection are not new yet (`Knows`); what it has behind it is new and keeps its values. A run that went astray stays so |
| `Classification` | what a walk has passed, or its row says it has passed, has the tags of its attributes (`CoveredTo`), also once it is completed, and a page leaves no gap |
| `MediaSync` | a handler's transaction saw all rows of another handler or none of them, and no row of its own (`Handles`) |
| `SavedSearches` | no run counts from later than `lastRunAt`, and whatever a run under way does not count was told of or passed over (`Leaves`) |
| `LeadInbox` | one fetch at most is out, from where the list ends (`Awaited`); a page that was served goes on there, and with what is listed has all that is owed from its cursor on (`Continues`) |
| `MlsAccess` | a check that goes on has a membership to look up (`Looks`), and the mails keep `LifecycleMail`'s invariant, the stop of a check being a fault of theirs |
| `AgentChat` | a round is left while the model is asked with tools, and at rest all calls of functions have results |

TLC evaluates each `Bounds`, the assumption about a component's constants, in the run
that instantiates it. What the proofs need of it beyond numbers being numbers is what
the code has: ids, dates and positions are ordered (`\subseteq Nat`), sets of rows are
finite, and what stands for "none" is no value. The lemmas they keep needing are
stated once: a nonempty set of numbers has a least element, and a finite one a greatest
(`Least`, `Greatest`); a set that changes by one element (`OneOff`); the cardinality of
disjoint sets (`Disjoint`).

Only model-checked: the liveness properties (EventuallyHandled, DeadLettersDrain,
EveryAlertSettles, EventuallyExact, ReindexRepairs, EveryLeadIsDrafted, EveryJobEnds,
FlagSettles), which need fairness and ENABLED and are out of the prover's reach. Two
groups of theorems are stated for less than the module can do, as the runs are: those of
`PropertyIndex` on a run's properties are about the worker without the API's own
rebuilds (section 3), and ClaimsExclusive with what follows from it assumes that no
call outlives its lock.

## 6. Where to go on

Everything the inventory planned is modelled, and every safety property the runs check
is proved. What would add most next: a composition of `MlsSync` and `PropertyIndex` in
which a dispatch is the handler's steps, with the owed listings of the one refined by
the dead letters of the other; the abstract at-least-once mailer shared by `Outbox`,
`LifecycleMail` and `LeadAction`.

## 7. Not modelled, and why

Mappers, coercions and configuration are stateless conversions; the roster is one
idempotent upsert per record, delivered by `MlsSync`. Reports, campaigns and the
dashboard read and generate text. The portal's other pages, UI, tokens, API client
and email rendering keep no state that another actor writes. Notes, tasks, parties
and segments are single rows written by one statement; their documents are in
`DocumentIndex` and their effect on contacts in `ContactActivity`. Transport details
(HTTP retries, throttling) appear as success or failure of a call. Seed scripts and
migrations of the database prepare data and run alone. An operator may start two
classification walks at a time, which nothing in the code prevents and `Classification`
does not follow.

Also left out: `tryLinkUserToContacts`, which nothing calls; the retries for a slug
that is taken; the order in which `runSync` reads more than its batch of dead
letters; listing images uploaded by an owner. The API as it is started never
connects the Redis client, so the response cache is modelled as it is written
(`Connect`), for a deployment that does.
