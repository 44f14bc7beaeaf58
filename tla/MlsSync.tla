------------------------------- MODULE MlsSync -------------------------------
(***************************************************************************)
(* The MLS synchronisation worker (apps/mls-service): one resource of one  *)
(* provider, the runs node-cron starts for it, the in-process lock, the    *)
(* dead letters, the watermark, and the records in flight of every run.    *)
(*                                                                         *)
(* The vendor's feed is the append-only history `log` of record revisions; *)
(* a revision number stands for the raw RESO record, so a dead letter's    *)
(* payload or an in-flight record is just a number.  Revision numbers grow *)
(* with ModificationTimestamp, and revisions of one clock tick share it.   *)
(***************************************************************************)
EXTENDS Integers, Sequences, FiniteSets

CONSTANTS
    Key,             \* ListingKeys the vendor may publish
    Runs,            \* slots for invocations of runSync that are not over yet
    PageSize,        \* $top of one request
    Concurrency,     \* CONCURRENCY: records of a page handled at the same time
    MaxRetries,      \* MAX_RETRIES
    DeadLetterBatch, \* MAX_DEAD_LETTER_BATCH
    Overlap,         \* OVERLAP_MS, in ticks of the vendor's clock
    AllowFull,       \* whether the nightly full pull is scheduled
    MaxChanges,      \* bound: revisions the vendor publishes
    MaxClock,        \* bound: ticks of the vendor's clock
    MaxFaults        \* bound: crashes, failed fetches and unrecorded failures

ASSUME OverlapAssumption == Overlap \in Nat \ {0}

ASSUME BoundsAssumption ==
    /\ PageSize \in Nat \ {0}
    /\ Concurrency \in Nat \ {0}
    /\ MaxRetries \in Nat \ {0}
    /\ DeadLetterBatch \in Nat \ {0}
    /\ AllowFull \in BOOLEAN
    /\ MaxChanges \in Nat /\ MaxClock \in Nat /\ MaxFaults \in Nat

VARIABLES
    log,     \* the vendor's history: <<[key, ts, view], ...>>
    cur,     \* cur[k]: the revision of k the feed serves, 0 when it has none
    clock,   \* the vendor's clock
    db,      \* Listing rows: the revision last applied, and whether it is shown
    dl,      \* MlsSyncFailure rows: payload (rev, 0 for no row) and retryCount
    cursor,  \* SyncCursor.lastSyncAt, 0 for no row
    running, \* whether the Set `running` holds this resource's lock key
    run,     \* the invocations of runSync
    seen,    \* history: newest revision of k a run applied or dead-lettered
    faults   \* faults so far

vendorVars == <<log, cur, clock>>
storeVars  == <<db, dl, cursor>>
vars == <<log, cur, clock, db, dl, cursor, running, run, seen, faults>>

-----------------------------------------------------------------------------

Phase == {"idle", "retry", "fetch", "work", "aborted"}

Idle == [pc |-> "idle", full |-> FALSE, since |-> 0, pos |-> 0, maxTs |-> 0,
         more |-> FALSE, batch |-> {}, page |-> {}, chunk |-> {}, tail |-> {}]

Revs == 1..Len(log)

RunState ==
    [pc: Phase, full: BOOLEAN, since: Int, pos: Nat, maxTs: Nat, more: BOOLEAN,
     batch: SUBSET Revs,  \* dead letters still to retry
     page:  SUBSET Revs,  \* records of the page not started
     chunk: SUBSET Revs,  \* records started, transaction not committed
     tail:  SUBSET Revs]  \* records committed, media or index still to do

Revision   == [key: Key, ts: Nat, view: BOOLEAN]
Listing    == [rev: 0..Len(log), shown: BOOLEAN]
DeadLetter == [rev: 0..Len(log), count: 0..MaxRetries]

TypeOK ==
    /\ log \in Seq(Revision)
    /\ cur \in [Key -> 0..Len(log)]
    /\ clock \in Nat
    /\ db \in [Key -> Listing]
    /\ dl \in [Key -> DeadLetter]
    /\ cursor \in Nat
    /\ running \in BOOLEAN
    /\ run \in [Runs -> RunState]
    /\ seen \in [Key -> 0..Len(log)]
    /\ faults \in Nat

Init ==
    /\ log = << >>
    /\ cur = [k \in Key |-> 0]
    /\ clock = 1
    /\ db = [k \in Key |-> [rev |-> 0, shown |-> FALSE]]
    /\ dl = [k \in Key |-> [rev |-> 0, count |-> 0]]
    /\ cursor = 0
    /\ running = FALSE
    /\ run = [i \in Runs |-> Idle]
    /\ seen = [k \in Key |-> 0]
    /\ faults = 0

Active(i) == run[i].pc \in {"retry", "fetch", "work"}

-----------------------------------------------------------------------------
(* The vendor.                                                             *)

\* A record appears, changes, or changes its viewable flag.
Publish(k) ==
    /\ Len(log) < MaxChanges
    /\ \E v \in BOOLEAN : log' = Append(log, [key |-> k, ts |-> clock, view |-> v])
    /\ cur' = [cur EXCEPT ![k] = Len(log) + 1]
    /\ UNCHANGED <<clock, storeVars, running, run, seen, faults>>

Tick ==
    /\ clock < MaxClock
    /\ clock' = clock + 1
    /\ UNCHANGED <<log, cur, storeVars, running, run, seen, faults>>

-----------------------------------------------------------------------------
(* What one record does to the database and to its dead letter.            *)

\* processPropertyRecord: upsert, or withdraw when the viewable flag is false.
\* A removal of a listing the database never had is skipped.
Applied(r) ==
    LET k == log[r].key
    IN  IF log[r].view THEN [db EXCEPT ![k] = [rev |-> r, shown |-> TRUE]]
        ELSE IF db[k].rev = 0 THEN db
        ELSE [db EXCEPT ![k] = [rev |-> r, shown |-> FALSE]]

\* Mutant: a failed retry does not count.
Recorded_Uncounted(r) ==
    IF dl[log[r].key].rev = 0 THEN [dl EXCEPT ![log[r].key] = [rev |-> r, count |-> 0]]
    ELSE dl

\* recordFailure: an existing row keeps its payload and counts the attempt.
\* Counts beyond MaxRetries are not told apart: the code only compares with it.
Recorded(r) ==
    LET k == log[r].key
        n == dl[k].count
    IN  IF dl[k].rev = 0 THEN [dl EXCEPT ![k] = [rev |-> r, count |-> 0]]
        ELSE [dl EXCEPT ![k] = [@ EXCEPT !.count = IF n < MaxRetries THEN n + 1 ELSE n]]

\* clearFailure
Cleared(r) == [dl EXCEPT ![log[r].key] = [rev |-> 0, count |-> 0]]

Noted(r) ==
    [seen EXCEPT ![log[r].key] = IF r > @ THEN r ELSE @]

\* Once the last handler an aborted run left behind is over, nothing is left.
Settled(s, r) ==
    LET rest == [s EXCEPT !.chunk = @ \ {r}, !.tail = @ \ {r}]
    IN  IF rest.pc = "aborted" /\ rest.chunk = {} /\ rest.tail = {}
        THEN Idle ELSE rest

-----------------------------------------------------------------------------
(* A run of runSync.                                                       *)

Pending == {k \in Key : dl[k].rev # 0 /\ dl[k].count < MaxRetries}

\* Mutant: the lock is not looked at.
Start_Unlocked(i, full) ==
    /\ run[i].pc = "idle"
    /\ full => AllowFull
    /\ running' = TRUE
    /\ run' = [run EXCEPT ![i] = [Idle EXCEPT !.pc = "retry", !.full = full,
                                  !.batch = {dl[k].rev : k \in Pending}]]
    /\ UNCHANGED <<vendorVars, storeVars, seen, faults>>

\* The lock is free: take it and read the dead letters to retry, in no order.
Start(i, full) ==
    /\ ~running
    /\ run[i].pc = "idle"
    /\ full => AllowFull
    /\ running' = TRUE
    /\ \E B \in SUBSET Pending :
          /\ \/ Cardinality(B) = DeadLetterBatch
             \/ B = Pending /\ Cardinality(B) < DeadLetterBatch
          /\ run' = [run EXCEPT ![i] = [Idle EXCEPT !.pc = "retry", !.full = full,
                                                    !.batch = {dl[k].rev : k \in B}]]
    /\ UNCHANGED <<vendorVars, storeVars, seen, faults>>

\* Dead letters are retried one after the other.
TakeRetry(i) ==
    /\ run[i].pc = "retry"
    /\ run[i].chunk = {} /\ run[i].tail = {}
    /\ \E r \in run[i].batch :
          run' = [run EXCEPT ![i] = [@ EXCEPT !.batch = run[i].batch \ {r}, !.chunk = {r}]]
    /\ UNCHANGED <<vendorVars, storeVars, running, seen, faults>>

\* Mutant: the watermark is used as it was stored.
Since_NoOverlap(full) == IF full THEN -Overlap ELSE cursor

\* getCursor: no row, or a full pull, filters on no timestamp (all are > -Overlap).
Since(full) == IF full THEN -Overlap ELSE cursor - Overlap

RetryDone(i) ==
    /\ run[i].pc = "retry"
    /\ run[i].batch = {} /\ run[i].chunk = {} /\ run[i].tail = {}
    /\ run' = [run EXCEPT ![i] = [@ EXCEPT !.pc = "fetch", !.more = TRUE,
                                           !.since = Since(run[i].full)]]
    /\ UNCHANGED <<vendorVars, storeVars, running, seen, faults>>

\* What the request (or its nextLink) still has to serve: buildFilter.
Match(s) ==
    {r \in {cur[k] : k \in Key} \ {0} :
        r > s.pos /\ log[r].ts > s.since /\ (s.full => log[r].view)}

\* One page, oldest ModificationTimestamp first, up to `last`; maxTs follows it.
\* A full page has a nextLink. Where the vendor leaves it out because nothing is
\* left to serve, that is a nextLink to an empty page, fetched at once.
FetchPage(i) ==
    /\ run[i].pc = "fetch" /\ run[i].more
    /\ \/ /\ Match(run[i]) = {}
          /\ run' = [run EXCEPT ![i] = [@ EXCEPT !.more = FALSE]]
       \/ \E last \in Match(run[i]) :
             LET P == {r \in Match(run[i]) : r <= last}
             IN  /\ \/ Cardinality(P) = PageSize
                    \/ P = Match(run[i]) /\ Cardinality(P) < PageSize
                 /\ run' = [run EXCEPT ![i] = [@ EXCEPT
                       !.pc = "work", !.page = P, !.pos = last,
                       !.maxTs = IF log[last].ts > run[i].maxTs
                                THEN log[last].ts ELSE run[i].maxTs,
                       !.more = (Cardinality(P) = PageSize)]]
    /\ UNCHANGED <<vendorVars, storeVars, running, seen, faults>>

\* The next slice of the page, once every record of the last one has settled.
StartChunk(i) ==
    /\ run[i].pc = "work"
    /\ run[i].chunk = {} /\ run[i].tail = {}
    /\ \E last \in run[i].page :
          LET C == {r \in run[i].page : r <= last}
          IN  /\ \/ Cardinality(C) = Concurrency
                 \/ C = run[i].page /\ Cardinality(C) < Concurrency
              /\ run' = [run EXCEPT ![i] = [@ EXCEPT !.page = run[i].page \ C, !.chunk = C]]
    /\ UNCHANGED <<vendorVars, storeVars, running, seen, faults>>

PageDone(i) ==
    /\ run[i].pc = "work"
    /\ run[i].page = {} /\ run[i].chunk = {} /\ run[i].tail = {}
    /\ run' = [run EXCEPT ![i] = [@ EXCEPT !.pc = "fetch"]]
    /\ UNCHANGED <<vendorVars, storeVars, running, seen, faults>>

\* Mutant: the overlap is subtracted on write, whether or not anything was seen.
Finish_SubtractsOverlap(i) ==
    /\ run[i].pc = "fetch" /\ ~run[i].more
    /\ cursor' = run[i].maxTs - Overlap
    /\ running' = FALSE
    /\ run' = [run EXCEPT ![i] = Idle]
    /\ UNCHANGED <<vendorVars, db, dl, seen, faults>>

\* updateCursor with the greatest timestamp seen; the finally frees the lock.
Finish(i) ==
    /\ run[i].pc = "fetch" /\ ~run[i].more
    /\ cursor' = IF run[i].maxTs > 0 THEN run[i].maxTs ELSE cursor
    /\ running' = FALSE
    /\ run' = [run EXCEPT ![i] = Idle]
    /\ UNCHANGED <<vendorVars, db, dl, seen, faults>>

-----------------------------------------------------------------------------
(* The handler of one record, from a page or from a dead letter.           *)

\* Its transaction commits.
Commit(i, r) ==
    /\ r \in run[i].chunk
    /\ db' = Applied(r)
    /\ run' = [run EXCEPT ![i] = [@ EXCEPT !.chunk = run[i].chunk \ {r},
                                           !.tail = run[i].tail \cup {r}]]
    /\ UNCHANGED <<vendorVars, dl, cursor, running, seen, faults>>

\* dispatch returned; a retried record's dead letter is cleared.
Succeed(i, r) ==
    /\ r \in run[i].tail
    /\ dl' = IF run[i].pc = "retry" THEN Cleared(r) ELSE dl
    /\ seen' = Noted(r)
    /\ run' = [run EXCEPT ![i] = Settled(@, r)]
    /\ UNCHANGED <<vendorVars, db, cursor, running, faults>>

\* dispatch threw, before or after its transaction committed.
Fail(i, r) ==
    /\ r \in run[i].chunk \cup run[i].tail
    /\ dl' = Recorded(r)
    /\ seen' = Noted(r)
    /\ run' = [run EXCEPT ![i] = Settled(@, r)]
    /\ UNCHANGED <<vendorVars, db, cursor, running, faults>>

\* dispatch threw and so did recordFailure: Promise.all rejects, the finally
\* frees the lock, and the other handlers of the chunk run on.
FailUnrecorded(i, r) ==
    /\ faults < MaxFaults
    /\ r \in run[i].chunk \cup run[i].tail
    /\ running' = (running /\ ~Active(i))
    /\ run' = [run EXCEPT ![i] =
                 Settled([@ EXCEPT !.pc = "aborted", !.batch = {}, !.page = {}], r)]
    /\ faults' = faults + 1
    /\ UNCHANGED <<vendorVars, storeVars, seen>>

\* Mutant: no finally, so a run that throws keeps the lock.
FetchError_KeepsLock(i) ==
    /\ faults < MaxFaults
    /\ run[i].pc = "fetch"
    /\ run' = [run EXCEPT ![i] = Idle]
    /\ faults' = faults + 1
    /\ UNCHANGED <<vendorVars, storeVars, running, seen>>

\* A request failed for good, or the cursor could not be read or written.
FetchError(i) ==
    /\ faults < MaxFaults
    /\ run[i].pc = "fetch"
    /\ running' = FALSE
    /\ run' = [run EXCEPT ![i] = Idle]
    /\ faults' = faults + 1
    /\ UNCHANGED <<vendorVars, storeVars, seen>>

\* SIGTERM, uncaughtException, kill: what was committed stays, the rest is gone.
Crash ==
    /\ faults < MaxFaults
    /\ \E i \in Runs : run[i].pc # "idle"
    /\ running' = FALSE
    /\ run' = [i \in Runs |-> Idle]
    /\ faults' = faults + 1
    /\ UNCHANGED <<vendorVars, storeVars, seen>>

-----------------------------------------------------------------------------

Handle(i) == \E r \in run[i].chunk \cup run[i].tail :
                Commit(i, r) \/ Succeed(i, r) \/ Fail(i, r)

Work(i) == \/ TakeRetry(i) \/ RetryDone(i) \/ FetchPage(i) \/ StartChunk(i)
           \/ PageDone(i) \/ Finish(i) \/ Handle(i)

Next ==
    \/ \E k \in Key : Publish(k)
    \/ Tick
    \/ \E i \in Runs, full \in BOOLEAN : Start(i, full)
    \/ \E i \in Runs : Work(i) \/ FetchError(i)
    \/ \E i \in Runs : \E r \in run[i].chunk \cup run[i].tail : FailUnrecorded(i, r)
    \/ Crash

Spec == Init /\ [][Next]_vars

\* node-cron keeps ticking, and a started run's promises keep settling.
Fairness == /\ WF_vars(\E i \in Runs, full \in BOOLEAN : Start(i, full))
            /\ \A i \in Runs : WF_vars(Work(i))

FairSpec == Spec /\ Fairness

-----------------------------------------------------------------------------
(* Properties.                                                             *)

\* Revision cur[k] is one an incremental run would still ask the vendor for.
InWindow(k) == log[cur[k]].ts > Since(FALSE)

Handled(k) == seen[k] >= cur[k]

\* The revisions a full pull can see: with requireViewable, hidden ones are not.
FullSees(k) == log[cur[k]].view \/ ~AllowFull

\* However runs, crashes, ties and mid-run changes interleave, the watermark
\* never passes a change that no run has applied or dead-lettered: a change is
\* handled, or the next incremental run asks for it again (getCursor's overlap).
\* With a nightly full pull this covers the records that pull can see.
NoChangeSkipped ==
    \A k \in Key : cur[k] # 0 /\ FullSees(k) => Handled(k) \/ InWindow(k)

\* The same of removals when the nightly full pull runs too: a listing whose row is shown
\* and that the feed hides by now will be removed, which is the reason the connector
\* leaves the viewable flag out of the incremental filter.
NoRemovalSkipped ==
    \A k \in Key : db[k].shown /\ ~log[cur[k]].view => Handled(k) \/ InWindow(k)

\* The lock at work: a run going through its pages never puts an older revision
\* over a newer one. Only a replayed dead letter, or a handler that outlived its
\* aborted run, can take a listing back.
PagesNeverRegress ==
    [][\A k \in Key : db'[k].rev < db[k].rev =>
          \E i \in Runs : run[i].pc \in {"retry", "aborted"}
                          /\ run'[i].chunk # run[i].chunk]_vars

\* A viewable revision the runs have handled and the database does not hold is
\* kept in the dead letters or will be asked for again: dead-letter capture lets
\* no failing record be silently dropped.
FailuresKept ==
    \A k \in Key : LET n == seen[k] IN
        n # 0 /\ log[n].view /\ db[k].rev < n
            => dl[k].rev # 0 \/ log[n].ts > Since(FALSE)

\* Every change a pull can see is at last applied or dead-lettered, unless the
\* vendor publishes a newer one first.
EventuallyHandled ==
    \A k \in Key, n \in 1..MaxChanges :
        (cur[k] = n /\ FullSees(k)) ~> (seen[k] >= n \/ cur[k] # n)

\* Every dead letter is at last replayed with success or abandoned at MaxRetries.
DeadLettersDrain ==
    \A k \in Key :
        dl[k].rev # 0 ~> (dl[k].rev = 0 \/ dl[k].count = MaxRetries)

-----------------------------------------------------------------------------
(* The inductive invariant behind NoChangeSkipped.                         *)

InFlight(i) == run[i].page \cup run[i].chunk \cup run[i].tail

\* The feed: timestamps follow revision numbers, cur points to k's own revision.
LogInv ==
    /\ \A m \in Revs : log[m].ts \in 1..clock
    /\ \A m, n \in Revs : m <= n => log[m].ts <= log[n].ts
    /\ \A k \in Key : cur[k] # 0 => log[cur[k]].key = k

\* The lock: it is held exactly while a run is active, and only one is.
LockInv ==
    /\ \A i \in Runs : Active(i) => running
    /\ \A i, j \in Runs : Active(i) /\ Active(j) => i = j

\* What a run knows: the nightly pull is scheduled if it is one, its filter is
\* the cursor's, its watermark is the timestamp of the last revision served.
FilterInv(i) ==
    /\ Active(i) /\ run[i].full => AllowFull
    /\ run[i].pc = "retry" => run[i].pos = 0 /\ run[i].maxTs = 0
    /\ run[i].pc \in {"fetch", "work"} =>
          /\ run[i].since = Since(run[i].full)
          /\ run[i].pos <= Len(log)
          /\ run[i].maxTs = IF run[i].pos = 0 THEN 0 ELSE log[run[i].pos].ts

\* Every change the run should see is handled, in flight, or further down the feed.
SweepInv(i) ==
    run[i].pc \in {"fetch", "work"} =>
        \A k \in Key : cur[k] # 0 /\ FullSees(k) =>
            \/ Handled(k)
            \/ run[i].pc = "work" /\ cur[k] \in InFlight(i)
            \/ cur[k] > run[i].pos

IInv ==
    /\ TypeOK
    /\ LogInv
    /\ clock >= 1 /\ cursor <= clock
    /\ LockInv
    /\ \A i \in Runs : FilterInv(i) /\ SweepInv(i)
    /\ NoChangeSkipped

-----------------------------------------------------------------------------
(* What PagesNeverRegress needs besides.                                   *)

\* The records of a run that are still to be written.
Ahead(i) == run[i].page \cup run[i].chunk

\* Records wait only where they are worked on.
WaitInv(i) ==
    /\ run[i].pc # "work" => run[i].page = {}
    /\ run[i].pc \in {"idle", "fetch"} => run[i].chunk = {}

\* The feed serves the latest revision of a key, and nothing later is stored.
LatestInv ==
    /\ \A m \in Revs : m <= cur[log[m].key]
    /\ \A k \in Key : db[k].rev <= cur[k]

\* A record of a page was the latest of its key when it was served: what is stored
\* or on its way in any run, of the same key, is not newer.
FreshInv(i) ==
    run[i].pc = "work" =>
        \A r \in Ahead(i) :
            /\ db[log[r].key].rev <= r
            /\ \A j \in Runs : \A q \in Ahead(j) : log[q].key = log[r].key => q <= r

PageInv == IInv /\ LatestInv /\ \A i \in Runs : WaitInv(i) /\ FreshInv(i)
==============================================================================
