--------------------------- MODULE MlsSync_proofs ---------------------------
(***************************************************************************)
(* Proofs about MlsSync, for every value of its constants: its type        *)
(* invariant, that the watermark passes no unhandled change, and that a    *)
(* page takes no listing back to an earlier change.                        *)
(***************************************************************************)
EXTENDS MlsSync, TLAPS

-----------------------------------------------------------------------------
(* Types of the rows and of a run.                                         *)

LEMMA LogType ==
    ASSUME TypeOK, NEW r \in Revs
    PROVE  /\ Len(log) \in Nat
           /\ r \in 1..Len(log)
           /\ log[r].key \in Key
           /\ log[r].ts \in Nat
           /\ log[r].view \in BOOLEAN
<1>1. log \in Seq(Revision)
    BY DEF TypeOK
<1>2. r \in 1..Len(log)
    BY DEF Revs
<1>3. log[r] \in Revision /\ Len(log) \in Nat
    BY <1>1, <1>2
<1>4. QED
    BY <1>2, <1>3 DEF Revision

\* recordFailure writes a well-formed dead letter.
LEMMA RecordedType ==
    ASSUME TypeOK, NEW r \in Revs
    PROVE  Recorded(r) \in [Key -> DeadLetter]
<1> DEFINE k == log[r].key
           n == dl[k].count
           next == IF n < MaxRetries THEN n + 1 ELSE n
<1>1. dl \in [Key -> DeadLetter]
    BY DEF TypeOK
<1>2. MaxRetries \in Nat
    BY BoundsAssumption
<1>3. k \in Key
    BY LogType
<1>4. [rev |-> r, count |-> 0] \in DeadLetter
    BY LogType, <1>2 DEF DeadLetter
<1>5. [dl[k] EXCEPT !.count = next] \in DeadLetter
    BY <1>1, <1>2, <1>3 DEF DeadLetter
<1>6. Recorded(r) = IF dl[k].rev = 0 THEN [dl EXCEPT ![k] = [rev |-> r, count |-> 0]]
                    ELSE [dl EXCEPT ![k] = [dl[k] EXCEPT !.count = next]]
    BY DEF Recorded
<1>7. QED
    BY <1>1, <1>3, <1>4, <1>5, <1>6

\* clearFailure leaves no row, which is well-formed too.
LEMMA ClearedType ==
    ASSUME TypeOK, NEW r \in Revs
    PROVE  Cleared(r) \in [Key -> DeadLetter]
<1>1. dl \in [Key -> DeadLetter]
    BY DEF TypeOK
<1>2. [rev |-> 0, count |-> 0] \in DeadLetter
    BY LogType, BoundsAssumption DEF DeadLetter
<1>3. QED
    BY <1>1, <1>2, LogType DEF Cleared

LEMMA NotedType ==
    ASSUME TypeOK, NEW r \in Revs
    PROVE  Noted(r) \in [Key -> 0..Len(log)]
<1>1. seen \in [Key -> 0..Len(log)]
    BY DEF TypeOK
<1>2. QED
    BY <1>1, LogType DEF Noted

LEMMA AppliedType ==
    ASSUME TypeOK, NEW r \in Revs
    PROVE  Applied(r) \in [Key -> Listing]
<1>1. db \in [Key -> Listing]
    BY DEF TypeOK
<1>2. /\ [rev |-> r, shown |-> TRUE] \in Listing
      /\ [rev |-> r, shown |-> FALSE] \in Listing
    BY LogType DEF Listing
<1>3. QED
    BY <1>1, <1>2, LogType DEF Applied

LEMMA IdleType == Idle \in RunState
BY DEF RunState, Idle, Phase

LEMMA SettledType ==
    ASSUME NEW s \in RunState, NEW r
    PROVE  Settled(s, r) \in RunState
<1>1. [s EXCEPT !.chunk = @ \ {r}, !.tail = @ \ {r}] \in RunState
    BY DEF RunState
<1>2. QED
    BY <1>1, IdleType DEF Settled

\* A step that leaves the feed alone and moves one run to a well-formed state.
LEMMA RunUpdate ==
    ASSUME TypeOK, UNCHANGED log, NEW i \in Runs, NEW s \in RunState,
           run' = [run EXCEPT ![i] = s]
    PROVE  run' \in [Runs -> RunState']
<1>1. run \in [Runs -> RunState]
    BY DEF TypeOK
<1>2. RunState' = RunState
    BY DEF RunState, Revs
<1>3. QED
    BY <1>1, <1>2

LEMMA SameSets ==
    ASSUME UNCHANGED log
    PROVE  /\ RunState' = RunState /\ Revs' = Revs
           /\ Listing' = Listing /\ DeadLetter' = DeadLetter
BY DEF RunState, Revs, Listing, DeadLetter

-----------------------------------------------------------------------------
(* Every step keeps the types.                                             *)

LEMMA TypePublish ==
    ASSUME TypeOK, NEW k \in Key, Publish(k)
    PROVE  TypeOK'
<1> DEFINE n == Len(log)
<1>1. log \in Seq(Revision) /\ n \in Nat
    BY DEF TypeOK
<1>2. PICK v \in BOOLEAN : log' = Append(log, [key |-> k, ts |-> clock, view |-> v])
    BY DEF Publish
<1>3. [key |-> k, ts |-> clock, view |-> v] \in Revision
    BY DEF TypeOK, Revision
<1>4. log' \in Seq(Revision) /\ Len(log') = n + 1
    BY <1>1, <1>2, <1>3
<1>5. cur' \in [Key -> 0..Len(log')] /\ seen' \in [Key -> 0..Len(log')]
    <2>1. cur \in [Key -> 0..n] /\ seen \in [Key -> 0..n]
        BY DEF TypeOK
    <2>2. cur' = [cur EXCEPT ![k] = n + 1] /\ seen' = seen
        BY DEF Publish
    <2>3. QED
        BY <1>1, <1>4, <2>1, <2>2
<1>6. Listing \subseteq Listing' /\ DeadLetter \subseteq DeadLetter'
    BY <1>1, <1>4 DEF Listing, DeadLetter
<1>7. db' \in [Key -> Listing'] /\ dl' \in [Key -> DeadLetter']
    <2>1. db \in [Key -> Listing] /\ dl \in [Key -> DeadLetter]
        BY DEF TypeOK
    <2>2. db' = db /\ dl' = dl
        BY DEF Publish, storeVars
    <2>3. QED
        BY <1>6, <2>1, <2>2
<1>8. run' \in [Runs -> RunState']
    <2>1. run \in [Runs -> RunState] /\ run' = run
        BY DEF TypeOK, Publish
    <2>2. Revs \subseteq Revs'
        BY <1>1, <1>4 DEF Revs
    <2>3. RunState \subseteq RunState'
        BY <2>2 DEF RunState
    <2>4. QED
        BY <2>1, <2>3
<1>9. QED
    BY <1>4, <1>5, <1>7, <1>8 DEF TypeOK, Publish, storeVars

LEMMA TypeTick ==
    ASSUME TypeOK, Tick
    PROVE  TypeOK'
BY SameSets DEF TypeOK, Tick, storeVars

LEMMA TypeStart ==
    ASSUME TypeOK, NEW i \in Runs, NEW full \in BOOLEAN, Start(i, full)
    PROVE  TypeOK'
<1>1. PICK B \in SUBSET Pending :
          run' = [run EXCEPT ![i] = [Idle EXCEPT !.pc = "retry", !.full = full,
                                                 !.batch = {dl[k].rev : k \in B}]]
    BY DEF Start
<1> DEFINE todo == {dl[k].rev : k \in B}
<1>2. todo \subseteq Revs
    <2>1. dl \in [Key -> DeadLetter] /\ Len(log) \in Nat
        BY DEF TypeOK
    <2>2. \A k \in B : k \in Key /\ dl[k].rev # 0
        BY DEF Pending
    <2>3. QED
        BY <2>1, <2>2 DEF DeadLetter, Revs
<1> DEFINE s == [Idle EXCEPT !.pc = "retry", !.full = full, !.batch = todo]
<1>3. s \in RunState
    <2> HIDE DEF todo
    <2> QED
        BY <1>2, IdleType DEF RunState, Phase
<1>4. run' \in [Runs -> RunState']
    <2>1. run' = [run EXCEPT ![i] = s]
        BY <1>1
    <2> HIDE DEF s
    <2> QED
        BY <1>3, <2>1, RunUpdate DEF Start, vendorVars
<1>5. QED
    BY <1>4, SameSets DEF TypeOK, Start, vendorVars, storeVars

LEMMA TypeTakeRetry ==
    ASSUME TypeOK, NEW i \in Runs, TakeRetry(i)
    PROVE  TypeOK'
<1>1. PICK r \in run[i].batch :
          run' = [run EXCEPT ![i] = [@ EXCEPT !.batch = run[i].batch \ {r}, !.chunk = {r}]]
    BY DEF TakeRetry
<1>2. run[i] \in RunState
    BY DEF TypeOK
<1> DEFINE s == [run[i] EXCEPT !.batch = @ \ {r}, !.chunk = {r}]
<1>3. s \in RunState
    BY <1>2 DEF RunState
<1>4. run' \in [Runs -> RunState']
    <2>1. run' = [run EXCEPT ![i] = s]
        BY <1>1
    <2> HIDE DEF s
    <2> QED
        BY <1>3, <2>1, RunUpdate DEF TakeRetry, vendorVars
<1>5. QED
    BY <1>4, SameSets DEF TypeOK, TakeRetry, vendorVars, storeVars

LEMMA TypeRetryDone ==
    ASSUME TypeOK, NEW i \in Runs, RetryDone(i)
    PROVE  TypeOK'
<1> DEFINE since == Since(run[i].full)
<1>1. since \in Int
    BY OverlapAssumption DEF TypeOK, Since
<1>2. run[i] \in RunState
    BY DEF TypeOK
<1>3. [run[i] EXCEPT !.pc = "fetch", !.more = TRUE, !.since = since] \in RunState
    <2> HIDE DEF since
    <2> QED
        BY <1>1, <1>2 DEF RunState, Phase
<1>4. run' \in [Runs -> RunState']
    BY <1>3, RunUpdate DEF RetryDone, vendorVars
<1>5. QED
    BY <1>4, SameSets DEF TypeOK, RetryDone, vendorVars, storeVars

\* The revisions a request serves are revisions of the feed.
LEMMA MatchRevs ==
    ASSUME TypeOK, NEW s
    PROVE  Match(s) \subseteq Revs
<1>1. cur \in [Key -> 0..Len(log)] /\ Len(log) \in Nat
    BY DEF TypeOK
<1>2. QED
    BY <1>1 DEF Match, Revs

LEMMA TypeFetchPage ==
    ASSUME TypeOK, NEW i \in Runs, FetchPage(i)
    PROVE  TypeOK'
<1>1. run[i] \in RunState
    BY DEF TypeOK
<1>2. run' \in [Runs -> RunState']
    <2>1. CASE run' = [run EXCEPT ![i] = [@ EXCEPT !.more = FALSE]]
        <3>1. [run[i] EXCEPT !.more = FALSE] \in RunState
            BY <1>1 DEF RunState
        <3>2. QED
            BY <2>1, <3>1, RunUpdate DEF FetchPage, vendorVars
    <2>2. ASSUME NEW last \in Match(run[i]), NEW P, P \subseteq Match(run[i]),
                 run' = [run EXCEPT ![i] = [@ EXCEPT
                    !.pc = "work", !.page = P, !.pos = last,
                    !.maxTs = IF log[last].ts > run[i].maxTs
                             THEN log[last].ts ELSE run[i].maxTs,
                    !.more = (Cardinality(P) = PageSize)]]
          PROVE  run' \in [Runs -> RunState']
        <3> DEFINE top == IF log[last].ts > run[i].maxTs THEN log[last].ts ELSE run[i].maxTs
                   more == Cardinality(P) = PageSize
        <3>1. last \in Revs /\ P \subseteq Revs
            BY <2>2, MatchRevs
        <3>2. last \in Nat /\ top \in Nat /\ more \in BOOLEAN
            BY <1>1, <3>1, LogType DEF RunState
        <3> DEFINE s == [run[i] EXCEPT !.pc = "work", !.page = P, !.pos = last,
                                       !.maxTs = top, !.more = more]
        <3>3. s \in RunState
            <4> HIDE DEF top, more
            <4> QED
                BY <1>1, <3>1, <3>2 DEF RunState, Phase
        <3>4. run' = [run EXCEPT ![i] = s]
            BY <2>2
        <3>5. QED
            <4> HIDE DEF s
            <4> QED
                BY <3>3, <3>4, RunUpdate DEF FetchPage, vendorVars
    <2>3. QED
        BY <2>1, <2>2 DEF FetchPage
<1>3. QED
    BY <1>2, SameSets DEF TypeOK, FetchPage, vendorVars, storeVars

LEMMA TypeStartChunk ==
    ASSUME TypeOK, NEW i \in Runs, StartChunk(i)
    PROVE  TypeOK'
<1>1. PICK last \in run[i].page :
          LET C == {r \in run[i].page : r <= last}
          IN  run' = [run EXCEPT ![i] = [@ EXCEPT !.page = run[i].page \ C, !.chunk = C]]
    BY DEF StartChunk
<1> DEFINE C == {r \in run[i].page : r <= last}
<1>2. run[i] \in RunState
    BY DEF TypeOK
<1>3. C \subseteq Revs
    BY <1>2 DEF RunState
<1> DEFINE s == [run[i] EXCEPT !.page = @ \ C, !.chunk = C]
<1>4. s \in RunState
    <2> HIDE DEF C
    <2> QED
        BY <1>2, <1>3 DEF RunState
<1>5. run' \in [Runs -> RunState']
    <2>1. run' = [run EXCEPT ![i] = s]
        BY <1>1
    <2> HIDE DEF s
    <2> QED
        BY <1>4, <2>1, RunUpdate DEF StartChunk, vendorVars
<1>6. QED
    BY <1>5, SameSets DEF TypeOK, StartChunk, vendorVars, storeVars

LEMMA TypePageDone ==
    ASSUME TypeOK, NEW i \in Runs, PageDone(i)
    PROVE  TypeOK'
<1>1. run[i] \in RunState
    BY DEF TypeOK
<1>2. [run[i] EXCEPT !.pc = "fetch"] \in RunState
    BY <1>1 DEF RunState, Phase
<1>3. run' \in [Runs -> RunState']
    BY <1>2, RunUpdate DEF PageDone, vendorVars
<1>4. QED
    BY <1>3, SameSets DEF TypeOK, PageDone, vendorVars, storeVars

LEMMA TypeFinish ==
    ASSUME TypeOK, NEW i \in Runs, Finish(i)
    PROVE  TypeOK'
<1>1. run[i] \in RunState
    BY DEF TypeOK
<1>2. cursor' \in Nat
    <2>1. run[i].maxTs \in Nat
        BY <1>1 DEF RunState
    <2>2. QED
        BY <2>1 DEF Finish, TypeOK
<1>3. run' \in [Runs -> RunState']
    BY IdleType, RunUpdate DEF Finish, vendorVars
<1>4. QED
    BY <1>2, <1>3, SameSets DEF TypeOK, Finish, vendorVars

LEMMA TypeCommit ==
    ASSUME TypeOK, NEW i \in Runs, NEW r, Commit(i, r)
    PROVE  TypeOK'
<1>1. run[i] \in RunState /\ r \in run[i].chunk
    BY DEF TypeOK, Commit
<1>2. r \in Revs
    BY <1>1 DEF RunState
<1>3. db' \in [Key -> Listing']
    BY <1>2, AppliedType, SameSets DEF Commit, vendorVars
<1> DEFINE s == [run[i] EXCEPT !.chunk = @ \ {r}, !.tail = @ \cup {r}]
<1>4. s \in RunState
    BY <1>1, <1>2 DEF RunState
<1>5. run' \in [Runs -> RunState']
    <2>1. run' = [run EXCEPT ![i] = s]
        BY DEF Commit
    <2> HIDE DEF s
    <2> QED
        BY <1>4, <2>1, RunUpdate DEF Commit, vendorVars
<1>6. QED
    BY <1>3, <1>5, SameSets DEF TypeOK, Commit, vendorVars

LEMMA TypeSucceed ==
    ASSUME TypeOK, NEW i \in Runs, NEW r, Succeed(i, r)
    PROVE  TypeOK'
<1>1. run[i] \in RunState /\ r \in run[i].tail
    BY DEF TypeOK, Succeed
<1>2. r \in Revs
    BY <1>1 DEF RunState
<1>3. dl' \in [Key -> DeadLetter']
    <2>1. dl \in [Key -> DeadLetter]
        BY DEF TypeOK
    <2>2. QED
        BY <1>2, <2>1, ClearedType, SameSets DEF Succeed, vendorVars
<1>4. seen' \in [Key -> 0..Len(log')]
    BY <1>2, NotedType DEF Succeed, vendorVars
<1>5. run' \in [Runs -> RunState']
    BY <1>1, SettledType, RunUpdate DEF Succeed, vendorVars
<1>6. QED
    BY <1>3, <1>4, <1>5, SameSets DEF TypeOK, Succeed, vendorVars

LEMMA TypeFail ==
    ASSUME TypeOK, NEW i \in Runs, NEW r, Fail(i, r)
    PROVE  TypeOK'
<1>1. run[i] \in RunState /\ r \in run[i].chunk \cup run[i].tail
    BY DEF TypeOK, Fail
<1>2. r \in Revs
    BY <1>1 DEF RunState
<1>3. dl' \in [Key -> DeadLetter']
    BY <1>2, RecordedType, SameSets DEF Fail, vendorVars
<1>4. seen' \in [Key -> 0..Len(log')]
    BY <1>2, NotedType DEF Fail, vendorVars
<1>5. run' \in [Runs -> RunState']
    BY <1>1, SettledType, RunUpdate DEF Fail, vendorVars
<1>6. QED
    BY <1>3, <1>4, <1>5, SameSets DEF TypeOK, Fail, vendorVars

LEMMA TypeFailUnrecorded ==
    ASSUME TypeOK, NEW i \in Runs, NEW r, FailUnrecorded(i, r)
    PROVE  TypeOK'
<1>1. run[i] \in RunState
    BY DEF TypeOK
<1>2. [run[i] EXCEPT !.pc = "aborted", !.batch = {}, !.page = {}] \in RunState
    BY <1>1 DEF RunState, Phase
<1>3. run' \in [Runs -> RunState']
    BY <1>2, SettledType, RunUpdate DEF FailUnrecorded, vendorVars
<1>4. running' \in BOOLEAN /\ faults' \in Nat
    BY DEF FailUnrecorded, TypeOK, Active
<1>5. QED
    BY <1>3, <1>4, SameSets DEF TypeOK, FailUnrecorded, vendorVars, storeVars

LEMMA TypeFetchError ==
    ASSUME TypeOK, NEW i \in Runs, FetchError(i)
    PROVE  TypeOK'
<1>1. run' \in [Runs -> RunState']
    BY IdleType, RunUpdate DEF FetchError, vendorVars
<1>2. running' \in BOOLEAN
    BY DEF FetchError
<1>3. faults' \in Nat
    BY DEF FetchError, TypeOK
<1>4. QED
    BY <1>1, <1>2, <1>3, SameSets DEF TypeOK, FetchError, vendorVars, storeVars

LEMMA TypeCrash ==
    ASSUME TypeOK, Crash
    PROVE  TypeOK'
<1>1. run' \in [Runs -> RunState']
    BY IdleType, SameSets DEF Crash, vendorVars
<1>2. running' \in BOOLEAN
    BY DEF Crash
<1>3. faults' \in Nat
    BY DEF Crash, TypeOK
<1>4. QED
    BY <1>1, <1>2, <1>3, SameSets DEF TypeOK, Crash, vendorVars, storeVars

LEMMA TypeStutter ==
    ASSUME TypeOK, UNCHANGED vars
    PROVE  TypeOK'
BY SameSets DEF TypeOK, vars

LEMMA TypeInit == Init => TypeOK
<1> SUFFICES ASSUME Init PROVE TypeOK
    OBVIOUS
<1>1. log = << >> /\ log \in Seq(Revision) /\ Len(log) = 0
    BY DEF Init
<1>2. [rev |-> 0, shown |-> FALSE] \in Listing
    BY <1>1 DEF Listing
<1>3. [rev |-> 0, count |-> 0] \in DeadLetter
    BY <1>1, BoundsAssumption DEF DeadLetter
<1>4. db \in [Key -> Listing] /\ dl \in [Key -> DeadLetter] /\ run \in [Runs -> RunState]
    BY <1>2, <1>3, IdleType DEF Init
<1>5. cur \in [Key -> 0..Len(log)] /\ seen \in [Key -> 0..Len(log)]
    BY <1>1 DEF Init
<1>6. clock \in Nat /\ cursor \in Nat /\ faults \in Nat
    BY DEF Init
<1>7. running \in BOOLEAN
    BY DEF Init
<1>8. QED
    BY <1>1, <1>4, <1>5, <1>6, <1>7 DEF TypeOK

LEMMA TypeNext == TypeOK /\ [Next]_vars => TypeOK'
<1> SUFFICES ASSUME TypeOK, [Next]_vars PROVE TypeOK'
    OBVIOUS
<1>1. ASSUME NEW k \in Key, Publish(k) PROVE TypeOK'
    BY <1>1, TypePublish
<1>2. CASE Tick
    BY <1>2, TypeTick
<1>3. ASSUME NEW i \in Runs, NEW full \in BOOLEAN, Start(i, full) PROVE TypeOK'
    BY <1>3, TypeStart
<1>4. ASSUME NEW i \in Runs, Work(i) PROVE TypeOK'
    BY <1>4, TypeTakeRetry, TypeRetryDone, TypeFetchPage, TypeStartChunk, TypePageDone,
       TypeFinish, TypeCommit, TypeSucceed, TypeFail DEF Work, Handle
<1>5. ASSUME NEW i \in Runs, FetchError(i) PROVE TypeOK'
    BY <1>5, TypeFetchError
<1>6. ASSUME NEW i \in Runs, NEW r, FailUnrecorded(i, r) PROVE TypeOK'
    BY <1>6, TypeFailUnrecorded
<1>7. CASE Crash
    BY <1>7, TypeCrash
<1>8. CASE UNCHANGED vars
    BY <1>8, TypeStutter
<1>9. QED
    BY <1>1, <1>2, <1>3, <1>4, <1>5, <1>6, <1>7, <1>8 DEF Next

\* Whatever the runs, the vendor and the faults do, rows, cursor, lock and runs
\* keep the shapes the code gives them.
THEOREM TypeCorrect == Spec => []TypeOK
BY TypeInit, TypeNext, PTL DEF Spec

-----------------------------------------------------------------------------
(* The inductive invariant.  Most steps move one run and leave the feed and *)
(* the cursor alone: RunStep says what is left to show of those.            *)

LEMMA CurType ==
    ASSUME TypeOK, NEW k \in Key
    PROVE  /\ cur[k] \in Nat /\ cur[k] <= Len(log) /\ seen[k] \in Nat /\ Len(log) \in Nat
           /\ cur[k] # 0 => cur[k] \in Revs
<1>1. cur \in [Key -> 0..Len(log)] /\ seen \in [Key -> 0..Len(log)] /\ Len(log) \in Nat
    BY DEF TypeOK
<1>2. QED
    BY <1>1 DEF Revs

\* Handling a revision raises the history, at least to that revision for its key.
LEMMA NotedGrows ==
    ASSUME TypeOK, NEW r \in Revs, NEW k \in Key
    PROVE  /\ Noted(r)[k] >= seen[k]
           /\ k = log[r].key => Noted(r)[k] >= r
<1>1. seen \in [Key -> 0..Len(log)]
    BY DEF TypeOK
<1>2. QED
    BY <1>1, LogType DEF Noted

LEMMA RunAt ==
    ASSUME TypeOK, NEW i \in Runs, NEW s, run' = [run EXCEPT ![i] = s]
    PROVE  run'[i] = s /\ \A j \in Runs : j # i => run'[j] = run[j]
BY DEF TypeOK

LEMMA SettledFields ==
    ASSUME NEW s \in RunState, NEW r,
           Settled(s, r).pc \in {"retry", "fetch", "work"}
    PROVE  /\ Settled(s, r).pc = s.pc /\ Settled(s, r).full = s.full
           /\ Settled(s, r).since = s.since /\ Settled(s, r).pos = s.pos
           /\ Settled(s, r).maxTs = s.maxTs /\ Settled(s, r).page = s.page
           /\ Settled(s, r).chunk = s.chunk \ {r} /\ Settled(s, r).tail = s.tail \ {r}
BY DEF Settled, Idle, RunState

LEMMA RunStep ==
    ASSUME IInv, TypeOK', UNCHANGED vendorVars, UNCHANGED cursor,
           NEW i \in Runs,
           \A j \in Runs : j # i => run'[j] = run[j],
           \A k \in Key : seen'[k] >= seen[k],
           Active(i)' => running' /\ (Active(i) \/ ~running),
           running /\ ~Active(i) => running',
           FilterInv(i)', SweepInv(i)'
    PROVE  IInv'
<1>1. LogInv'
    BY DEF IInv, LogInv, Revs, vendorVars
<1>2. LockInv'
    BY DEF IInv, LockInv, Active
<1>3. ASSUME NEW j \in Runs, j # i PROVE FilterInv(j)' /\ SweepInv(j)'
    <2>1. run'[j] = run[j] /\ FilterInv(j) /\ SweepInv(j)
        BY <1>3 DEF IInv
    <2>2. FilterInv(j)'
        BY <2>1 DEF FilterInv, Active, Since, vendorVars
    <2>3. ASSUME NEW k \in Key, Handled(k) PROVE Handled(k)'
        <3>1. seen[k] \in Nat /\ seen'[k] \in Nat /\ cur[k] \in Nat
            BY CurType, TypeOK, TypeOK' DEF IInv, TypeOK
        <3>2. QED
            BY <2>3, <3>1 DEF Handled, vendorVars
    <2>4. SweepInv(j)'
        BY <2>1, <2>3 DEF SweepInv, InFlight, FullSees, vendorVars
    <2>5. QED
        BY <2>2, <2>4
<1>4. NoChangeSkipped'
    <2>1. SUFFICES ASSUME NEW k \in Key, cur[k] # 0, FullSees(k),
                          Handled(k) \/ InWindow(k)
                   PROVE  Handled(k)' \/ InWindow(k)'
        BY DEF IInv, NoChangeSkipped, FullSees, vendorVars
    <2>2. CASE Handled(k)
        <3>1. seen[k] \in Nat /\ seen'[k] \in Nat /\ cur[k] \in Nat
            BY CurType, TypeOK' DEF IInv, TypeOK
        <3>2. QED
            BY <2>2, <3>1 DEF Handled, vendorVars
    <2>3. CASE InWindow(k)
        BY <2>3 DEF InWindow, Since, vendorVars
    <2>4. QED
        BY <2>1, <2>2, <2>3
<1>5. QED
    BY <1>1, <1>2, <1>3, <1>4 DEF IInv, vendorVars

\* Publishing puts the change at the end of the feed and inside every window.
LEMMA InvPublish ==
    ASSUME IInv, NEW k \in Key, Publish(k)
    PROVE  IInv'
<1> DEFINE n == Len(log)
<1>1. TypeOK /\ TypeOK'
    BY TypePublish DEF IInv
<1>2. PICK v \in BOOLEAN : log' = Append(log, [key |-> k, ts |-> clock, view |-> v])
    BY DEF Publish
<1>3. log \in Seq(Revision) /\ n \in Nat /\ clock \in Nat /\ cursor \in Nat /\ cursor <= clock
    BY <1>1 DEF TypeOK, IInv
<1>4. /\ Len(log') = n + 1
      /\ \A m \in 1..n : log'[m] = log[m]
      /\ log'[n + 1] = [key |-> k, ts |-> clock, view |-> v]
    BY <1>2, <1>3
<1>5. /\ log'[n + 1].key = k
      /\ log'[n + 1].ts = clock
    BY <1>4
<1>6. cur' = [cur EXCEPT ![k] = n + 1] /\ cur \in [Key -> 0..n]
    BY <1>1 DEF Publish, TypeOK
<1>7. \A m \in 1..n : log[m].ts \in 1..clock
    BY DEF IInv, LogInv, Revs
<1>8. clock \in 1..clock
    BY <1>3 DEF IInv
<1>9. LogInv'
    <2> DEFINE m0 == n + 1
    <2>1. Revs' = 1..(n + 1) /\ clock' = clock
        BY <1>4 DEF Revs, Publish
    <2>2. ASSUME NEW m \in 1..(n + 1) PROVE log'[m].ts \in 1..clock
        BY <1>3, <1>4, <1>5, <1>7, <1>8, <2>2
    <2>3. ASSUME NEW m \in 1..(n + 1), NEW q \in 1..(n + 1), m <= q
          PROVE  log'[m].ts <= log'[q].ts
        <3>1. CASE q = n + 1
            BY <1>3, <1>5, <2>2, <3>1
        <3>2. CASE q # n + 1
            <4>1. m \in 1..n /\ q \in 1..n
                BY <1>3, <2>3, <3>2
            <4>2. log[m].ts <= log[q].ts
                BY <2>3, <4>1 DEF IInv, LogInv, Revs
            <4>3. QED
                BY <1>4, <4>1, <4>2
        <3>3. QED
            BY <3>1, <3>2
    <2>4. ASSUME NEW j \in Key, cur'[j] # 0 PROVE log'[cur'[j]].key = j
        <3>1. CASE j = k
            BY <1>5, <1>6, <3>1
        <3>2. CASE j # k
            <4>1. cur'[j] = cur[j] /\ cur[j] \in 1..n
                BY <1>3, <1>6, <2>4, <3>2
            <4>2. log[cur[j]].key = j
                BY <4>1 DEF IInv, LogInv
            <4>3. QED
                BY <1>4, <4>1, <4>2
        <3>3. QED
            BY <3>1, <3>2
    <2>5. QED
        BY <2>1, <2>2, <2>3, <2>4 DEF LogInv
<1>10. \A j \in Key : j # k => cur'[j] = cur[j]
    BY <1>6
<1>11. UNCHANGED <<clock, db, dl, cursor, running, run, seen>>
    BY DEF Publish, storeVars
<1>12. ASSUME NEW i \in Runs PROVE FilterInv(i)' /\ SweepInv(i)'
    <2>1. run[i] \in RunState /\ FilterInv(i) /\ SweepInv(i)
        BY <1>1 DEF TypeOK, IInv
    <2>2. FilterInv(i)'
        <3>1. run[i].pos \in Nat
            BY <2>1 DEF RunState
        <3>2. run[i].pos <= n /\ run[i].pos # 0 => log'[run[i].pos] = log[run[i].pos]
            BY <1>3, <1>4, <3>1
        <3>3. run[i].pos <= n => run[i].pos <= Len(log')
            BY <1>3, <1>4, <3>1
        <3>4. QED
            BY <1>11, <2>1, <3>2, <3>3 DEF FilterInv, Active, Since
    <2>3. SUFFICES ASSUME run[i].pc \in {"fetch", "work"}, NEW j \in Key,
                          cur'[j] # 0, FullSees(j)'
                   PROVE  \/ Handled(j)'
                          \/ run[i].pc = "work" /\ cur'[j] \in InFlight(i)
                          \/ cur'[j] > run[i].pos
        <3>1. run' = run /\ InFlight(i)' = InFlight(i)
            BY <1>11 DEF InFlight
        <3>2. QED
            BY <2>2, <3>1 DEF SweepInv
    <2>4. CASE j = k
        <3>1. run[i].pos \in Nat /\ run[i].pos <= n
            BY <2>1, <2>3 DEF RunState, FilterInv
        <3>2. QED
            BY <1>3, <1>6, <2>4, <3>1
    <2>5. CASE j # k
        <3>1. cur'[j] = cur[j] /\ cur[j] \in 1..n
            BY <1>3, <1>6, <2>3, <2>5
        <3>2. FullSees(j)
            BY <1>4, <2>3, <3>1 DEF FullSees
        <3>3. QED
            BY <1>11, <2>1, <2>3, <3>1, <3>2 DEF SweepInv, Handled
    <2>6. QED
        BY <2>4, <2>5
<1>13. NoChangeSkipped'
    <2>1. SUFFICES ASSUME NEW j \in Key, cur'[j] # 0, FullSees(j)'
                   PROVE  Handled(j)' \/ InWindow(j)'
        BY DEF NoChangeSkipped
    <2>2. CASE j = k
        <3>2. log'[cur'[j]].ts = clock
            BY <1>5, <1>6, <2>2
        <3>3. clock > cursor - Overlap
            BY <1>3, OverlapAssumption
        <3>4. QED
            BY <1>11, <3>2, <3>3 DEF InWindow, Since
    <2>3. CASE j # k
        <3>1. cur'[j] = cur[j] /\ cur[j] \in 1..n
            BY <1>3, <1>6, <2>1, <2>3
        <3>2. FullSees(j)
            BY <1>4, <2>1, <3>1 DEF FullSees
        <3>3. Handled(j) \/ InWindow(j)
            BY <2>1, <3>1, <3>2 DEF IInv, NoChangeSkipped
        <3>4. QED
            BY <1>4, <1>11, <3>1, <3>3 DEF Handled, InWindow, Since
    <2>4. QED
        BY <2>2, <2>3
<1>14. LockInv'
    BY <1>11 DEF IInv, LockInv, Active
<1>15. QED
    BY <1>1, <1>9, <1>11, <1>12, <1>13, <1>14 DEF IInv

LEMMA InvTick ==
    ASSUME IInv, Tick
    PROVE  IInv'
<1>1. TypeOK'
    BY TypeTick DEF IInv
<1>2. clock \in Nat /\ clock' = clock + 1 /\ cursor \in Nat /\ cursor <= clock
    BY DEF Tick, IInv, TypeOK
<1>3. UNCHANGED <<log, cur, cursor, running, run, seen>>
    BY DEF Tick, storeVars
<1>4. LogInv'
    <2>1. \A m \in Revs : log[m].ts \in 1..clock
        BY DEF IInv, LogInv
    <2>2. \A m \in Revs : log[m].ts \in 1..clock'
        BY <1>2, <2>1
    <2>3. QED
        BY <1>3, <2>2 DEF IInv, LogInv, Revs
<1>5. LockInv'
    BY <1>3 DEF IInv, LockInv, Active
<1>6. \A i \in Runs : FilterInv(i)' /\ SweepInv(i)'
    BY <1>3 DEF IInv, FilterInv, SweepInv, Active, Since, InFlight, Handled, FullSees
<1>7. NoChangeSkipped'
    BY <1>3 DEF IInv, NoChangeSkipped, Handled, FullSees, InWindow, Since
<1>8. clock' >= 1 /\ cursor' <= clock'
    BY <1>2, <1>3 DEF IInv
<1>9. QED
    BY <1>1, <1>4, <1>5, <1>6, <1>7, <1>8 DEF IInv

LEMMA InvStart ==
    ASSUME IInv, NEW i \in Runs, NEW full \in BOOLEAN, Start(i, full)
    PROVE  IInv'
<1>1. TypeOK /\ TypeOK'
    BY TypeStart DEF IInv
<1>2. PICK B : run' = [run EXCEPT ![i] = [Idle EXCEPT !.pc = "retry", !.full = full,
                                                      !.batch = {dl[k].rev : k \in B}]]
    BY DEF Start
<1>3. /\ run'[i].pc = "retry" /\ run'[i].full = full
      /\ run'[i].pos = 0 /\ run'[i].maxTs = 0
      /\ \A j \in Runs : j # i => run'[j] = run[j]
    <2> DEFINE s == [Idle EXCEPT !.pc = "retry", !.full = full,
                                 !.batch = {dl[k].rev : k \in B}]
    <2>1. s.pc = "retry" /\ s.full = full /\ s.pos = 0 /\ s.maxTs = 0
        BY DEF Idle
    <2>2. run' = [run EXCEPT ![i] = s]
        BY <1>2
    <2> HIDE DEF s
    <2>3. QED
        BY <1>1, <2>1, <2>2, RunAt
<1>4. FilterInv(i)' /\ SweepInv(i)'
    BY <1>3 DEF FilterInv, SweepInv, Start
<1>5. ~running /\ running' /\ seen' = seen /\ UNCHANGED vendorVars /\ cursor' = cursor
    BY DEF Start, storeVars
<1>6. \A k \in Key : seen'[k] >= seen[k]
    BY <1>1, <1>5, CurType
<1>7. QED
    BY <1>1, <1>3, <1>4, <1>5, <1>6, RunStep

LEMMA InvTakeRetry ==
    ASSUME IInv, NEW i \in Runs, TakeRetry(i)
    PROVE  IInv'
<1>1. TypeOK /\ TypeOK'
    BY TypeTakeRetry DEF IInv
<1>2. PICK r : run' = [run EXCEPT ![i] = [@ EXCEPT !.batch = run[i].batch \ {r}, !.chunk = {r}]]
    BY DEF TakeRetry
<1>3. run[i] \in RunState
    BY <1>1 DEF TypeOK
<1>4. /\ run'[i].pc = "retry" /\ run'[i].full = run[i].full
      /\ run'[i].pos = run[i].pos /\ run'[i].maxTs = run[i].maxTs
      /\ \A j \in Runs : j # i => run'[j] = run[j]
    <2> DEFINE s == [run[i] EXCEPT !.batch = run[i].batch \ {r}, !.chunk = {r}]
    <2>1. /\ s.pc = "retry" /\ s.full = run[i].full
          /\ s.pos = run[i].pos /\ s.maxTs = run[i].maxTs
        BY <1>3 DEF RunState, TakeRetry
    <2>2. run' = [run EXCEPT ![i] = s]
        BY <1>2
    <2> HIDE DEF s
    <2>3. QED
        BY <1>1, <2>1, <2>2, RunAt
<1>5. FilterInv(i)' /\ SweepInv(i)'
    BY <1>4 DEF FilterInv, SweepInv, Active, TakeRetry, IInv
<1>6. Active(i) /\ running' = running /\ seen' = seen /\ UNCHANGED vendorVars /\ cursor' = cursor
    BY DEF TakeRetry, storeVars, Active
<1>7. running
    BY <1>6 DEF IInv, LockInv
<1>8. \A k \in Key : seen'[k] >= seen[k]
    BY <1>1, <1>6, CurType
<1>9. QED
    BY <1>1, <1>4, <1>5, <1>6, <1>7, <1>8, RunStep

\* The cursor just read already covers every change behind it.
LEMMA InvRetryDone ==
    ASSUME IInv, NEW i \in Runs, RetryDone(i)
    PROVE  IInv'
<1>1. TypeOK /\ TypeOK'
    BY TypeRetryDone DEF IInv
<1>2. run[i] \in RunState /\ run[i].pc = "retry"
    BY <1>1 DEF TypeOK, RetryDone
<1>3. /\ run'[i].pc = "fetch" /\ run'[i].full = run[i].full
      /\ run'[i].since = Since(run[i].full)
      /\ run'[i].pos = run[i].pos /\ run'[i].maxTs = run[i].maxTs
      /\ \A j \in Runs : j # i => run'[j] = run[j]
    <2> DEFINE since == Since(run[i].full)
               s == [run[i] EXCEPT !.pc = "fetch", !.more = TRUE, !.since = since]
    <2>1. /\ s.pc = "fetch" /\ s.full = run[i].full /\ s.since = since
          /\ s.pos = run[i].pos /\ s.maxTs = run[i].maxTs
        <3> HIDE DEF since
        <3> QED
            BY <1>2 DEF RunState
    <2>2. run' = [run EXCEPT ![i] = s]
        BY DEF RetryDone
    <2> HIDE DEF s
    <2>3. QED
        BY <1>1, <2>1, <2>2, RunAt
<1>4. Active(i) /\ running' = running /\ seen' = seen /\ UNCHANGED vendorVars /\ cursor' = cursor
    BY <1>2 DEF RetryDone, storeVars, Active
<1>5. running /\ FilterInv(i) /\ run[i].pos = 0 /\ run[i].maxTs = 0
    BY <1>2, <1>4 DEF IInv, LockInv, FilterInv
<1>6. Len(log) \in Nat
    BY <1>1 DEF TypeOK
<1>7. FilterInv(i)'
    <2>1. run'[i].since = Since(run[i].full)'
        BY <1>3, <1>4 DEF Since
    <2>2. run'[i].pos = 0 /\ run'[i].maxTs = 0 /\ 0 <= Len(log')
        BY <1>3, <1>4, <1>5, <1>6 DEF vendorVars
    <2>3. run'[i].full => AllowFull
        BY <1>3, <1>4, <1>5 DEF FilterInv
    <2>4. QED
        BY <1>3, <2>1, <2>2, <2>3 DEF FilterInv
<1>8. SweepInv(i)'
    <2>1. run'[i].pos = 0
        BY <1>3, <1>5
    <2>2. \A k \in Key : cur'[k] \in Nat
        BY <1>1 DEF TypeOK
    <2>3. QED
        BY <2>1, <2>2 DEF SweepInv
<1>9. \A k \in Key : seen'[k] >= seen[k]
    BY <1>1, <1>4, CurType
<1>10. QED
    BY <1>1, <1>3, <1>4, <1>5, <1>7, <1>8, <1>9, RunStep

\* A page takes the oldest changes the request still has to serve: what it
\* leaves behind is further down the feed.
LEMMA InvFetchPage ==
    ASSUME IInv, NEW i \in Runs, FetchPage(i)
    PROVE  IInv'
<1>1. TypeOK /\ TypeOK'
    BY TypeFetchPage DEF IInv
<1>2. run[i] \in RunState /\ run[i].pc = "fetch"
    BY <1>1 DEF TypeOK, FetchPage
<1>3. Active(i) /\ running' = running /\ seen' = seen /\ UNCHANGED vendorVars /\ cursor' = cursor
    BY <1>2 DEF FetchPage, storeVars, Active
<1>4. running /\ FilterInv(i) /\ SweepInv(i)
    BY <1>3 DEF IInv, LockInv
<1>5. \A k \in Key : seen'[k] >= seen[k]
    BY <1>1, <1>3, CurType
<1>6. CASE run' = [run EXCEPT ![i] = [@ EXCEPT !.more = FALSE]]
    <2> DEFINE s == [run[i] EXCEPT !.more = FALSE]
    <2>1. /\ s.pc = "fetch" /\ s.full = run[i].full /\ s.since = run[i].since
          /\ s.pos = run[i].pos /\ s.maxTs = run[i].maxTs
        BY <1>2 DEF RunState
    <2>2. run' = [run EXCEPT ![i] = s]
        BY <1>6
    <2> HIDE DEF s
    <2>3. run'[i] = s /\ \A j \in Runs : j # i => run'[j] = run[j]
        BY <1>1, <2>2, RunAt
    <2>4. FilterInv(i)'
        BY <1>2, <1>3, <1>4, <2>1, <2>3 DEF FilterInv, Active, Since, vendorVars
    <2>5. SweepInv(i)'
        BY <1>2, <1>3, <1>4, <2>1, <2>3 DEF SweepInv, Handled, FullSees, vendorVars
    <2>6. QED
        BY <1>1, <1>3, <1>4, <1>5, <2>3, <2>4, <2>5, RunStep
<1>7. ASSUME NEW last \in Match(run[i]), NEW P,
             P = {r \in Match(run[i]) : r <= last},
             run' = [run EXCEPT ![i] = [@ EXCEPT
                !.pc = "work", !.page = P, !.pos = last,
                !.maxTs = IF log[last].ts > run[i].maxTs
                             THEN log[last].ts ELSE run[i].maxTs,
                !.more = (Cardinality(P) = PageSize)]]
      PROVE  IInv'
    <2> DEFINE top == IF log[last].ts > run[i].maxTs THEN log[last].ts ELSE run[i].maxTs
               more == Cardinality(P) = PageSize
               s == [run[i] EXCEPT !.pc = "work", !.page = P, !.pos = last,
                                   !.maxTs = top, !.more = more]
    <2>1. /\ s.pc = "work" /\ s.full = run[i].full /\ s.since = run[i].since
          /\ s.pos = last /\ s.maxTs = top /\ s.page = P
        <3> HIDE DEF top, more
        <3> QED
            BY <1>2 DEF RunState
    <2>2. run' = [run EXCEPT ![i] = s]
        BY <1>7
    <2> HIDE DEF s
    <2>3. run'[i] = s /\ \A j \in Runs : j # i => run'[j] = run[j]
        BY <1>1, <2>2, RunAt
    <2>4. last \in Revs /\ Len(log) \in Nat /\ last <= Len(log) /\ last > run[i].pos
        BY <1>1, <1>7, MatchRevs, LogType DEF Match
    <2>5. top = log[last].ts
        <3>1. run[i].pos \in Nat /\ run[i].maxTs \in Nat
            BY <1>2 DEF RunState
        <3>2. log[last].ts \in Nat
            BY <1>1, <2>4, LogType
        <3>3. CASE run[i].pos = 0
            <4>1. run[i].maxTs = 0
                BY <1>2, <1>4, <3>3 DEF FilterInv
            <4>2. QED
                BY <3>2, <4>1
        <3>4. CASE run[i].pos # 0
            <4>1. run[i].maxTs = log[run[i].pos].ts /\ run[i].pos <= Len(log)
                BY <1>2, <1>4, <3>4 DEF FilterInv
            <4>2. run[i].pos \in Revs /\ run[i].pos <= last
                BY <2>4, <3>1, <3>4, <4>1 DEF Revs
            <4>3. log[run[i].pos].ts <= log[last].ts
                BY <2>4, <4>2 DEF IInv, LogInv
            <4>4. QED
                BY <3>1, <3>2, <4>1, <4>3
        <3>5. QED
            BY <3>3, <3>4
    <2> HIDE DEF top, more
    <2>6. FilterInv(i)'
        <3>1. last # 0
            BY <2>4 DEF Revs
        <3>2. run'[i].full => AllowFull
            BY <1>3, <1>4, <2>1, <2>3 DEF FilterInv
        <3>3. run'[i].since = Since(run[i].full)'
            BY <1>2, <1>3, <1>4, <2>1, <2>3 DEF FilterInv, Since
        <3>4. QED
            BY <1>3, <2>1, <2>3, <2>4, <2>5, <3>1, <3>2, <3>3 DEF FilterInv, vendorVars
    <2>7. SweepInv(i)'
        <3>1. SUFFICES ASSUME NEW k \in Key, cur[k] # 0, FullSees(k), ~Handled(k)
                       PROVE  cur[k] \in P \/ cur[k] > last
            BY <1>3, <2>1, <2>3 DEF SweepInv, InFlight, Handled, FullSees, vendorVars
        <3>2. cur[k] \in Revs /\ cur[k] \in Nat
            BY <1>1, <3>1, CurType
        <3>3. cur[k] > run[i].pos
            BY <1>2, <1>4, <3>1 DEF SweepInv
        <3>4. log[cur[k]].ts > run[i].since
            <4>1. log[cur[k]].ts > cursor - Overlap
                BY <3>1 DEF IInv, NoChangeSkipped, InWindow, Since
            <4>2. log[cur[k]].ts > -Overlap
                <5>1. log[cur[k]].ts \in Nat
                    BY <1>1, <3>2, LogType
                <5>2. QED
                    BY <5>1, OverlapAssumption
            <4>3. QED
                BY <1>2, <1>4, <4>1, <4>2 DEF FilterInv, Since
        <3>5. run[i].full => log[cur[k]].view
            BY <1>3, <1>4, <3>1 DEF FilterInv, FullSees
        <3>6. cur[k] \in Match(run[i])
            BY <3>1, <3>3, <3>4, <3>5 DEF Match
        <3>7. QED
            <4>1. last \in Nat
                BY <2>4 DEF Revs
            <4>2. QED
                BY <1>7, <3>2, <3>6, <4>1
    <2>8. QED
        BY <1>1, <1>3, <1>4, <1>5, <2>3, <2>6, <2>7, RunStep
<1>8. QED
    BY <1>6, <1>7 DEF FetchPage

LEMMA InvStartChunk ==
    ASSUME IInv, NEW i \in Runs, StartChunk(i)
    PROVE  IInv'
<1>1. TypeOK /\ TypeOK'
    BY TypeStartChunk DEF IInv
<1>2. run[i] \in RunState /\ run[i].pc = "work"
    BY <1>1 DEF TypeOK, StartChunk
<1>3. Active(i) /\ running' = running /\ seen' = seen /\ UNCHANGED vendorVars /\ cursor' = cursor
    BY <1>2 DEF StartChunk, storeVars, Active
<1>4. running /\ FilterInv(i) /\ SweepInv(i)
    BY <1>3 DEF IInv, LockInv
<1>5. PICK C : run' = [run EXCEPT ![i] = [@ EXCEPT !.page = run[i].page \ C, !.chunk = C]]
    BY DEF StartChunk
<1> DEFINE s == [run[i] EXCEPT !.page = run[i].page \ C, !.chunk = C]
<1>6. /\ s.pc = "work" /\ s.full = run[i].full /\ s.since = run[i].since
      /\ s.pos = run[i].pos /\ s.maxTs = run[i].maxTs
      /\ s.page = run[i].page \ C /\ s.chunk = C /\ s.tail = run[i].tail
    BY <1>2 DEF RunState
<1>7. run' = [run EXCEPT ![i] = s]
    BY <1>5
<1> HIDE DEF s
<1>8. run'[i] = s /\ \A j \in Runs : j # i => run'[j] = run[j]
    BY <1>1, <1>7, RunAt
<1>9. FilterInv(i)'
    BY <1>2, <1>3, <1>4, <1>6, <1>8 DEF FilterInv, Active, Since, vendorVars
<1>10. SweepInv(i)'
    <2>1. InFlight(i) \subseteq InFlight(i)'
        BY <1>6, <1>8 DEF InFlight, StartChunk
    <2>2. QED
        BY <1>2, <1>3, <1>4, <1>6, <1>8, <2>1 DEF SweepInv, Handled, FullSees, vendorVars
<1>11. \A k \in Key : seen'[k] >= seen[k]
    BY <1>1, <1>3, CurType
<1>12. QED
    BY <1>1, <1>3, <1>4, <1>8, <1>9, <1>10, <1>11, RunStep

LEMMA InvPageDone ==
    ASSUME IInv, NEW i \in Runs, PageDone(i)
    PROVE  IInv'
<1>1. TypeOK /\ TypeOK'
    BY TypePageDone DEF IInv
<1>2. run[i] \in RunState /\ run[i].pc = "work"
    BY <1>1 DEF TypeOK, PageDone
<1>3. Active(i) /\ running' = running /\ seen' = seen /\ UNCHANGED vendorVars /\ cursor' = cursor
    BY <1>2 DEF PageDone, storeVars, Active
<1>4. running /\ FilterInv(i) /\ SweepInv(i)
    BY <1>3 DEF IInv, LockInv
<1> DEFINE s == [run[i] EXCEPT !.pc = "fetch"]
<1>5. /\ s.pc = "fetch" /\ s.full = run[i].full /\ s.since = run[i].since
      /\ s.pos = run[i].pos /\ s.maxTs = run[i].maxTs
    BY <1>2 DEF RunState
<1>6. run' = [run EXCEPT ![i] = s]
    BY DEF PageDone
<1> HIDE DEF s
<1>7. run'[i] = s /\ \A j \in Runs : j # i => run'[j] = run[j]
    BY <1>1, <1>6, RunAt
<1>8. FilterInv(i)'
    BY <1>2, <1>3, <1>4, <1>5, <1>7 DEF FilterInv, Active, Since, vendorVars
<1>9. SweepInv(i)'
    <2>1. InFlight(i) = {}
        BY DEF InFlight, PageDone
    <2>2. QED
        BY <1>2, <1>3, <1>4, <1>5, <1>7, <2>1 DEF SweepInv, Handled, FullSees, vendorVars
<1>10. \A k \in Key : seen'[k] >= seen[k]
    BY <1>1, <1>3, CurType
<1>11. QED
    BY <1>1, <1>3, <1>4, <1>7, <1>8, <1>9, <1>10, RunStep

\* The watermark moves to the last timestamp served: what is not handled lies
\* further down the feed, so no earlier than the watermark.
LEMMA InvFinish ==
    ASSUME IInv, NEW i \in Runs, Finish(i)
    PROVE  IInv'
<1>1. TypeOK /\ TypeOK'
    BY TypeFinish DEF IInv
<1>2. run[i] \in RunState /\ run[i].pc = "fetch" /\ Active(i)
    BY <1>1 DEF TypeOK, Finish, Active
<1>3. /\ UNCHANGED <<log, cur, clock, seen>>
      /\ cursor' = IF run[i].maxTs > 0 THEN run[i].maxTs ELSE cursor
      /\ run' = [run EXCEPT ![i] = Idle]
    BY DEF Finish, vendorVars
<1>4. FilterInv(i) /\ SweepInv(i)
    BY DEF IInv
<1>5. run'[i] = Idle /\ \A j \in Runs : j # i => run'[j] = run[j]
    BY <1>1, <1>3, RunAt
<1>6. \A j \in Runs : ~Active(j)'
    <2>1. ~Active(i)'
        BY <1>5 DEF Active, Idle
    <2>2. \A j \in Runs : j # i => ~Active(j)
        BY <1>2 DEF IInv, LockInv
    <2>3. QED
        BY <1>5, <2>1, <2>2 DEF Active
<1>7. run[i].pos \in Nat /\ run[i].maxTs \in Nat /\ Len(log) \in Nat /\ clock \in Nat
    BY <1>1, <1>2 DEF RunState, TypeOK
<1>8. run[i].pos # 0 => run[i].pos \in Revs /\ run[i].maxTs = log[run[i].pos].ts
    BY <1>2, <1>4, <1>7 DEF FilterInv, Revs
<1>9. clock' >= 1 /\ cursor' <= clock'
    <2>1. run[i].pos # 0 => run[i].maxTs <= clock
        BY <1>7, <1>8 DEF IInv, LogInv
    <2>2. run[i].pos = 0 => run[i].maxTs = 0
        BY <1>2, <1>4 DEF FilterInv
    <2>3. cursor <= clock /\ clock >= 1
        BY DEF IInv
    <2>4. QED
        BY <1>3, <1>7, <2>1, <2>2, <2>3
<1>10. NoChangeSkipped'
    <2>1. SUFFICES ASSUME NEW k \in Key, cur[k] # 0, FullSees(k), ~Handled(k)
                   PROVE  log[cur[k]].ts > cursor' - Overlap
        BY <1>3 DEF NoChangeSkipped, Handled, FullSees, InWindow, Since
    <2>2. cur[k] \in Revs /\ cur[k] \in Nat /\ cur[k] > run[i].pos
        BY <1>1, <1>2, <1>4, <2>1, CurType DEF SweepInv
    <2>3. CASE run[i].pos = 0
        <3>1. cursor' = cursor
            BY <1>2, <1>3, <1>4, <2>3 DEF FilterInv
        <3>2. log[cur[k]].ts > cursor - Overlap
            BY <2>1 DEF IInv, NoChangeSkipped, InWindow, Since
        <3>3. QED
            BY <3>1, <3>2
    <2>4. CASE run[i].pos # 0
        <3>1. log[run[i].pos].ts <= log[cur[k]].ts
            BY <1>7, <1>8, <2>2, <2>4 DEF IInv, LogInv
        <3>2. log[cur[k]].ts \in Nat /\ log[run[i].pos].ts \in 1..clock
            BY <1>1, <1>8, <2>2, <2>4, LogType DEF IInv, LogInv
        <3>3. cursor' = log[run[i].pos].ts
            BY <1>3, <1>7, <1>8, <2>4, <3>2
        <3>4. QED
            BY <1>7, <3>1, <3>2, <3>3, OverlapAssumption
    <2>5. QED
        BY <2>3, <2>4
<1>11. LogInv'
    BY <1>3 DEF IInv, LogInv, Revs
<1>12. LockInv'
    BY <1>6 DEF LockInv
<1>13. \A j \in Runs : FilterInv(j)' /\ SweepInv(j)'
    BY <1>6 DEF FilterInv, SweepInv, Active
<1>14. QED
    BY <1>1, <1>9, <1>10, <1>11, <1>12, <1>13 DEF IInv

LEMMA InvCommit ==
    ASSUME IInv, NEW i \in Runs, NEW r, Commit(i, r)
    PROVE  IInv'
<1>1. TypeOK /\ TypeOK'
    BY TypeCommit DEF IInv
<1>2. run[i] \in RunState /\ r \in run[i].chunk
    BY <1>1 DEF TypeOK, Commit
<1>3. running' = running /\ seen' = seen /\ UNCHANGED vendorVars /\ cursor' = cursor
    BY DEF Commit
<1>4. FilterInv(i) /\ SweepInv(i)
    BY DEF IInv
<1> DEFINE s == [run[i] EXCEPT !.chunk = run[i].chunk \ {r}, !.tail = run[i].tail \cup {r}]
<1>5. /\ s.pc = run[i].pc /\ s.full = run[i].full /\ s.since = run[i].since
      /\ s.pos = run[i].pos /\ s.maxTs = run[i].maxTs
      /\ s.page = run[i].page
      /\ s.chunk = run[i].chunk \ {r} /\ s.tail = run[i].tail \cup {r}
    BY <1>2 DEF RunState
<1>6. run' = [run EXCEPT ![i] = s]
    BY DEF Commit
<1> HIDE DEF s
<1>7. run'[i] = s /\ \A j \in Runs : j # i => run'[j] = run[j]
    BY <1>1, <1>6, RunAt
<1>8. FilterInv(i)'
    BY <1>3, <1>4, <1>5, <1>7 DEF FilterInv, Active, Since, vendorVars
<1>9. SweepInv(i)'
    <2>1. InFlight(i)' = InFlight(i)
        BY <1>2, <1>5, <1>7 DEF InFlight
    <2>2. QED
        BY <1>3, <1>4, <1>5, <1>7, <2>1 DEF SweepInv, Handled, FullSees, vendorVars
<1>10. \A k \in Key : seen'[k] >= seen[k]
    BY <1>1, <1>3, CurType
<1>11. Active(i)' => running' /\ (Active(i) \/ ~running)
    BY <1>3, <1>5, <1>7 DEF Active, IInv, LockInv
<1>12. QED
    BY <1>1, <1>3, <1>7, <1>8, <1>9, <1>10, <1>11, RunStep

\* A handler is over: its revision leaves the flight and is handled.
LEMMA SettleStep ==
    ASSUME IInv, TypeOK', NEW i \in Runs, NEW r \in run[i].chunk \cup run[i].tail,
           run' = [run EXCEPT ![i] = Settled(run[i], r)], seen' = Noted(r),
           running' = running, UNCHANGED vendorVars, cursor' = cursor
    PROVE  IInv'
<1>1. TypeOK /\ FilterInv(i) /\ SweepInv(i)
    BY DEF IInv
<1>2. run[i] \in RunState
    BY <1>1 DEF TypeOK
<1>3. r \in Revs
    BY <1>2 DEF RunState
<1>4. run'[i] = Settled(run[i], r) /\ \A j \in Runs : j # i => run'[j] = run[j]
    BY <1>1, RunAt
<1>5. \A k \in Key : seen'[k] >= seen[k]
    BY <1>1, <1>3, NotedGrows
<1>6. Active(i)' => run'[i].pc = run[i].pc
    BY <1>2, <1>4, SettledFields DEF Active
<1>7. Active(i)' => running' /\ (Active(i) \/ ~running)
    BY <1>6 DEF Active, IInv, LockInv
<1>8. FilterInv(i)'
    <2>1. SUFFICES ASSUME Active(i)' PROVE FilterInv(i)'
        BY DEF FilterInv, Active
    <2>2. /\ run'[i].pc = run[i].pc /\ run'[i].full = run[i].full
          /\ run'[i].since = run[i].since /\ run'[i].pos = run[i].pos
          /\ run'[i].maxTs = run[i].maxTs
        BY <1>2, <1>4, <2>1, SettledFields DEF Active
    <2>3. QED
        BY <1>1, <2>1, <2>2 DEF FilterInv, Active, Since, vendorVars
<1>9. SweepInv(i)'
    <2>1. SUFFICES ASSUME run'[i].pc \in {"fetch", "work"},
                          NEW k \in Key, cur[k] # 0, FullSees(k)
                   PROVE  \/ seen'[k] >= cur[k]
                          \/ run'[i].pc = "work" /\ cur[k] \in InFlight(i)'
                          \/ cur[k] > run'[i].pos
        BY DEF SweepInv, Handled, FullSees, vendorVars
    <2>2. /\ run'[i].pc = run[i].pc /\ run'[i].pos = run[i].pos
          /\ run'[i].page = run[i].page
          /\ run'[i].chunk = run[i].chunk \ {r} /\ run'[i].tail = run[i].tail \ {r}
        BY <1>2, <1>4, <2>1, SettledFields
    <2>3. cur[k] \in Nat /\ seen[k] \in Nat /\ seen'[k] \in Nat /\ r \in Nat
        BY <1>1, <1>3, CurType, LogType DEF TypeOK
    <2>4. CASE Handled(k)
        BY <1>5, <2>3, <2>4 DEF Handled
    <2>5. CASE cur[k] = r
        <3>1. log[r].key = k
            BY <2>1, <2>5 DEF IInv, LogInv
        <3>2. seen'[k] >= r
            BY <1>1, <1>3, <3>1, NotedGrows
        <3>3. QED
            BY <2>5, <3>2
    <2>6. CASE cur[k] # r /\ ~Handled(k)
        <3>1. (run[i].pc = "work" /\ cur[k] \in InFlight(i)) \/ cur[k] > run[i].pos
            BY <1>1, <2>1, <2>2, <2>6 DEF SweepInv
        <3>2. cur[k] \in InFlight(i) => cur[k] \in InFlight(i)'
            BY <2>2, <2>6 DEF InFlight
        <3>3. QED
            BY <2>2, <3>1, <3>2
    <2>7. QED
        BY <2>4, <2>5, <2>6
<1>10. QED
    BY <1>1, <1>4, <1>5, <1>7, <1>8, <1>9, RunStep

LEMMA InvSucceed ==
    ASSUME IInv, NEW i \in Runs, NEW r, Succeed(i, r)
    PROVE  IInv'
<1>1. TypeOK /\ TypeOK'
    BY TypeSucceed DEF IInv
<1>2. run[i] \in RunState /\ r \in run[i].chunk \cup run[i].tail
    BY <1>1 DEF TypeOK, Succeed
<1>3. run' = [run EXCEPT ![i] = Settled(run[i], r)] /\ seen' = Noted(r)
    BY DEF Succeed
<1>4. running' = running /\ UNCHANGED vendorVars /\ cursor' = cursor
    BY DEF Succeed
<1>5. QED
    BY <1>1, <1>2, <1>3, <1>4, SettleStep

LEMMA InvFail ==
    ASSUME IInv, NEW i \in Runs, NEW r, Fail(i, r)
    PROVE  IInv'
<1>1. TypeOK /\ TypeOK'
    BY TypeFail DEF IInv
<1>2. run[i] \in RunState /\ r \in run[i].chunk \cup run[i].tail
    BY <1>1 DEF TypeOK, Fail
<1>3. run' = [run EXCEPT ![i] = Settled(run[i], r)] /\ seen' = Noted(r)
    BY DEF Fail
<1>4. running' = running /\ UNCHANGED vendorVars /\ cursor' = cursor
    BY DEF Fail
<1>5. QED
    BY <1>1, <1>2, <1>3, <1>4, SettleStep

\* A run that throws gives up its claim on the changes it was sweeping.
LEMMA InvFailUnrecorded ==
    ASSUME IInv, NEW i \in Runs, NEW r, FailUnrecorded(i, r)
    PROVE  IInv'
<1>1. TypeOK /\ TypeOK'
    BY TypeFailUnrecorded DEF IInv
<1>2. run[i] \in RunState
    BY <1>1 DEF TypeOK
<1> DEFINE s == [run[i] EXCEPT !.pc = "aborted", !.batch = {}, !.page = {}]
<1>3. s \in RunState /\ s.pc = "aborted"
    BY <1>2 DEF RunState, Phase
<1>4. run' = [run EXCEPT ![i] = Settled(s, r)]
    BY DEF FailUnrecorded
<1> HIDE DEF s
<1>5. run'[i] = Settled(s, r) /\ \A j \in Runs : j # i => run'[j] = run[j]
    BY <1>1, <1>4, RunAt
<1>6. ~Active(i)'
    BY <1>3, <1>5, SettledFields DEF Active
<1>7. FilterInv(i)' /\ SweepInv(i)'
    BY <1>6 DEF FilterInv, SweepInv, Active
<1>8. /\ running' = (running /\ ~Active(i)) /\ seen' = seen
      /\ UNCHANGED vendorVars /\ cursor' = cursor
    BY DEF FailUnrecorded, storeVars
<1>9. \A k \in Key : seen'[k] >= seen[k]
    BY <1>1, <1>8, CurType
<1>10. QED
    BY <1>1, <1>5, <1>6, <1>7, <1>8, <1>9, RunStep

LEMMA InvFetchError ==
    ASSUME IInv, NEW i \in Runs, FetchError(i)
    PROVE  IInv'
<1>1. TypeOK /\ TypeOK'
    BY TypeFetchError DEF IInv
<1>2. run' = [run EXCEPT ![i] = Idle] /\ Active(i)
    BY DEF FetchError, Active
<1>3. run'[i] = Idle /\ \A j \in Runs : j # i => run'[j] = run[j]
    BY <1>1, <1>2, RunAt
<1>4. ~Active(i)'
    BY <1>3 DEF Active, Idle
<1>5. FilterInv(i)' /\ SweepInv(i)'
    BY <1>4 DEF FilterInv, SweepInv, Active
<1>6. running' = FALSE /\ seen' = seen /\ UNCHANGED vendorVars /\ cursor' = cursor
    BY DEF FetchError, storeVars
<1>7. \A k \in Key : seen'[k] >= seen[k]
    BY <1>1, <1>6, CurType
<1>8. QED
    BY <1>1, <1>2, <1>3, <1>4, <1>5, <1>6, <1>7, RunStep

LEMMA InvCrash ==
    ASSUME IInv, Crash
    PROVE  IInv'
<1>1. TypeOK'
    BY TypeCrash DEF IInv
<1>2. UNCHANGED <<log, cur, clock, cursor, seen>> /\ run' = [i \in Runs |-> Idle]
    BY DEF Crash, vendorVars, storeVars
<1>3. \A i \in Runs : ~Active(i)'
    BY <1>2 DEF Active, Idle
<1>4. LockInv'
    BY <1>3 DEF LockInv
<1>5. \A i \in Runs : FilterInv(i)' /\ SweepInv(i)'
    BY <1>3 DEF FilterInv, SweepInv, Active
<1>6. LogInv'
    BY <1>2 DEF IInv, LogInv, Revs
<1>7. NoChangeSkipped'
    BY <1>2 DEF IInv, NoChangeSkipped, Handled, FullSees, InWindow, Since
<1>8. clock' >= 1 /\ cursor' <= clock'
    BY <1>2 DEF IInv
<1>9. QED
    BY <1>1, <1>4, <1>5, <1>6, <1>7, <1>8 DEF IInv

LEMMA InvStutter ==
    ASSUME IInv, UNCHANGED vars
    PROVE  IInv'
<1>1. TypeOK'
    BY TypeStutter DEF IInv
<1>2. LogInv' /\ LockInv' /\ NoChangeSkipped'
    BY DEF IInv, LogInv, LockInv, NoChangeSkipped, Revs, Active, Handled, FullSees,
           InWindow, Since, vars
<1>3. \A i \in Runs : FilterInv(i)' /\ SweepInv(i)'
    BY DEF IInv, FilterInv, SweepInv, Active, Since, InFlight, Handled, FullSees, vars
<1>4. clock' >= 1 /\ cursor' <= clock'
    BY DEF IInv, vars
<1>5. QED
    BY <1>1, <1>2, <1>3, <1>4 DEF IInv

LEMMA InvInit == Init => IInv
<1> SUFFICES ASSUME Init PROVE IInv
    OBVIOUS
<1>1. TypeOK
    BY TypeInit
<1>2. Revs = {}
    BY DEF Init, Revs
<1>3. \A i \in Runs : ~Active(i) /\ run[i].pc = "idle"
    BY DEF Init, Active, Idle
<1>4. LogInv
    BY <1>2 DEF Init, LogInv
<1>5. LockInv /\ \A i \in Runs : FilterInv(i) /\ SweepInv(i)
    BY <1>3 DEF LockInv, FilterInv, SweepInv
<1>6. NoChangeSkipped
    BY DEF Init, NoChangeSkipped
<1>7. clock >= 1 /\ cursor <= clock
    BY DEF Init
<1>8. QED
    BY <1>1, <1>4, <1>5, <1>6, <1>7 DEF IInv

LEMMA InvNext == IInv /\ [Next]_vars => IInv'
<1> SUFFICES ASSUME IInv, [Next]_vars PROVE IInv'
    OBVIOUS
<1>1. ASSUME NEW k \in Key, Publish(k) PROVE IInv'
    BY <1>1, InvPublish
<1>2. CASE Tick
    BY <1>2, InvTick
<1>3. ASSUME NEW i \in Runs, NEW full \in BOOLEAN, Start(i, full) PROVE IInv'
    BY <1>3, InvStart
<1>4. ASSUME NEW i \in Runs, Work(i) PROVE IInv'
    BY <1>4, InvTakeRetry, InvRetryDone, InvFetchPage, InvStartChunk, InvPageDone,
       InvFinish, InvCommit, InvSucceed, InvFail DEF Work, Handle
<1>5. ASSUME NEW i \in Runs, FetchError(i) PROVE IInv'
    BY <1>5, InvFetchError
<1>6. ASSUME NEW i \in Runs, NEW r, FailUnrecorded(i, r) PROVE IInv'
    BY <1>6, InvFailUnrecorded
<1>7. CASE Crash
    BY <1>7, InvCrash
<1>8. CASE UNCHANGED vars
    BY <1>8, InvStutter
<1>9. QED
    BY <1>1, <1>2, <1>3, <1>4, <1>5, <1>6, <1>7, <1>8 DEF Next

\* For any page size, concurrency, retry limit, overlap of at least one tick and
\* number of crashes, the watermark passes no change that is neither applied nor
\* dead-lettered nor asked for again.
THEOREM WatermarkSafe == Spec => []NoChangeSkipped
<1>1. IInv => NoChangeSkipped
    BY DEF IInv
<1>2. QED
    BY <1>1, InvInit, InvNext, PTL DEF Spec

\* Two invocations of runSync never hold the lock's resource at the same time.
THEOREM LockSafe == Spec => []LockInv
<1>1. IInv => LockInv
    BY DEF IInv
<1>2. QED
    BY <1>1, InvInit, InvNext, PTL DEF Spec

-----------------------------------------------------------------------------
(* PagesNeverRegress.  While a run works on a page nothing newer than its   *)
(* records can come in, for only it takes records up.                       *)

\* A step that takes no record up.
LEMMA NarrowStep ==
    ASSUME PageInv, IInv', UNCHANGED <<log, cur, db>>,
           \A j \in Runs : /\ Ahead(j)' \subseteq Ahead(j) /\ WaitInv(j)'
                           /\ run'[j].pc = "work" => run[j].pc = "work"
    PROVE  PageInv'
<1>1. LatestInv'
    BY DEF PageInv, LatestInv, Revs
<1>2. ASSUME NEW i \in Runs PROVE FreshInv(i)'
    BY DEF PageInv, FreshInv
<1> QED
    BY <1>1, <1>2 DEF PageInv

\* The same of a step of one run.
LEMMA NarrowRun ==
    ASSUME PageInv, IInv', UNCHANGED <<log, cur, db>>, NEW i \in Runs,
           \A j \in Runs : j # i => run'[j] = run[j],
           Ahead(i)' \subseteq Ahead(i), WaitInv(i)',
           run'[i].pc = "work" => run[i].pc = "work"
    PROVE  PageInv'
<1> SUFFICES ASSUME NEW j \in Runs
             PROVE  /\ Ahead(j)' \subseteq Ahead(j) /\ WaitInv(j)'
                    /\ run'[j].pc = "work" => run[j].pc = "work"
    BY NarrowStep
<1> QED
    BY DEF PageInv, Ahead, WaitInv

\* A step after which no run works on a page.
LEMMA QuietStep ==
    ASSUME PageInv, IInv', UNCHANGED <<log, cur, db>>, NEW i \in Runs,
           Active(i)', run'[i].pc # "work",
           \A j \in Runs : j # i => run'[j] = run[j], WaitInv(i)'
    PROVE  PageInv'
<1>1. ASSUME NEW j \in Runs PROVE run'[j].pc # "work"
    BY DEF IInv, LockInv, Active
<1>2. LatestInv'
    BY DEF PageInv, LatestInv, Revs
<1>3. ASSUME NEW j \in Runs PROVE WaitInv(j)' /\ FreshInv(j)'
    BY <1>1 DEF PageInv, WaitInv, FreshInv
<1> QED
    BY <1>2, <1>3 DEF PageInv

\* The records of a run are revisions of the feed.
LEMMA AheadRevs ==
    ASSUME TypeOK, NEW i \in Runs
    PROVE  Ahead(i) \subseteq Revs /\ Revs \subseteq Nat
BY DEF TypeOK, RunState, Ahead, Revs

LEMMA PagePublish ==
    ASSUME PageInv, NEW k \in Key, Publish(k)
    PROVE  PageInv'
<1> DEFINE n == Len(log)
<1>1. TypeOK /\ TypeOK' /\ IInv'
    BY InvPublish DEF PageInv, IInv
<1>2. PICK v \in BOOLEAN : log' = Append(log, [key |-> k, ts |-> clock, view |-> v])
    BY DEF Publish
<1>3. n \in Nat /\ Len(log') = n + 1 /\ log'[n + 1].key = k /\ \A m \in Revs : log'[m] = log[m]
    BY <1>1, <1>2 DEF TypeOK, Revs
<1>4. cur' = [cur EXCEPT ![k] = n + 1] /\ cur \in [Key -> 0..n] /\ UNCHANGED <<db, run>>
    BY <1>1 DEF TypeOK, Publish, storeVars
<1>5. \A l \in Key : cur[l] <= cur'[l]
    BY <1>3, <1>4
<1>6. \A m \in Revs : log[m].key \in Key /\ m \in 1..n
    BY <1>1, LogType
<1>7. LatestInv'
  <2>1. ASSUME NEW m \in Revs' PROVE m <= cur'[log'[m].key]
    <3>1. m \in 1..(n + 1)
        BY <1>3 DEF Revs
    <3>2. CASE m = n + 1
        BY <1>3, <1>4, <3>2
    <3>3. CASE m \in Revs
        BY <1>3, <1>4, <1>5, <1>6, <3>3 DEF PageInv, LatestInv
    <3> QED
        BY <1>3, <3>1, <3>2, <3>3 DEF Revs
  <2>2. ASSUME NEW l \in Key PROVE db'[l].rev <= cur'[l]
    <3>1. db[l].rev \in Nat /\ cur[l] \in Nat /\ cur'[l] \in Nat
        BY <1>1, <1>3, <1>4 DEF TypeOK, Listing
    <3> QED
        BY <1>4, <1>5, <3>1 DEF PageInv, LatestInv
  <2> QED
      BY <2>1, <2>2 DEF LatestInv
<1>8. ASSUME NEW i \in Runs PROVE WaitInv(i)' /\ FreshInv(i)'
  <2>1. \A j \in Runs : Ahead(j)' = Ahead(j) /\ Ahead(j) \subseteq Revs
      BY <1>1, <1>4, AheadRevs DEF Ahead
  <2> QED
      BY <1>3, <1>4, <2>1 DEF PageInv, WaitInv, FreshInv
<1> QED
    BY <1>1, <1>7, <1>8 DEF PageInv

LEMMA PageStart ==
    ASSUME PageInv, NEW i \in Runs, NEW full \in BOOLEAN, Start(i, full)
    PROVE  PageInv'
<1>1. TypeOK /\ IInv'
    BY InvStart DEF PageInv, IInv
<1>2. PICK B \in SUBSET Pending :
          run' = [run EXCEPT ![i] = [Idle EXCEPT !.pc = "retry", !.full = full,
                                                 !.batch = {dl[k].rev : k \in B}]]
    BY DEF Start
<1>3. run'[i].pc = "retry" /\ run'[i].page = {}
    BY <1>1, <1>2 DEF TypeOK, Idle
<1>4. \A j \in Runs : j # i => run'[j] = run[j]
    BY <1>1, <1>2, RunAt
<1> QED
    BY <1>1, <1>3, <1>4, QuietStep DEF Active, WaitInv, Start, vendorVars, storeVars

LEMMA PageTakeRetry ==
    ASSUME PageInv, NEW i \in Runs, TakeRetry(i)
    PROVE  PageInv'
<1>1. TypeOK /\ IInv'
    BY InvTakeRetry DEF PageInv, IInv
<1>2. PICK r \in run[i].batch :
          run' = [run EXCEPT ![i] = [@ EXCEPT !.batch = run[i].batch \ {r}, !.chunk = {r}]]
    BY DEF TakeRetry
<1>3. run[i].pc = "retry" /\ run[i].page = {}
    BY DEF TakeRetry, PageInv, WaitInv
<1>4. run'[i].pc = "retry" /\ run'[i].page = {}
    BY <1>1, <1>2, <1>3 DEF TypeOK, RunState
<1>5. \A j \in Runs : j # i => run'[j] = run[j]
    BY <1>1, <1>2, RunAt
<1> QED
    BY <1>1, <1>4, <1>5, QuietStep DEF Active, WaitInv, TakeRetry, vendorVars, storeVars

LEMMA PageRetryDone ==
    ASSUME PageInv, NEW i \in Runs, RetryDone(i)
    PROVE  PageInv'
<1>1. TypeOK /\ IInv'
    BY InvRetryDone DEF PageInv, IInv
<1>2. run[i] \in RunState /\ run[i].page = {} /\ run[i].chunk = {}
    BY <1>1 DEF TypeOK, RetryDone, PageInv, WaitInv
<1>3. run'[i].pc = "fetch" /\ run'[i].page = {} /\ run'[i].chunk = {}
    BY <1>1, <1>2 DEF TypeOK, RetryDone, RunState
<1>4. \A j \in Runs : j # i => run'[j] = run[j]
    BY <1>1 DEF TypeOK, RetryDone
<1> QED
    BY <1>1, <1>3, <1>4, NarrowRun DEF Ahead, WaitInv, RetryDone, vendorVars, storeVars

\* The page holds the latest revision of each of its keys.
LEMMA PageFetchPage ==
    ASSUME PageInv, NEW i \in Runs, FetchPage(i)
    PROVE  PageInv'
<1>1. TypeOK /\ IInv'
    BY InvFetchPage DEF PageInv, IInv
<1>2. run[i] \in RunState /\ run[i].page = {} /\ run[i].chunk = {} /\ run[i].pc = "fetch"
    BY <1>1 DEF TypeOK, FetchPage, PageInv, WaitInv
<1>3. UNCHANGED <<log, cur, db>>
    BY DEF FetchPage, vendorVars, storeVars
<1>4. CASE run' = [run EXCEPT ![i] = [@ EXCEPT !.more = FALSE]]
  <2>1. run'[i].pc = "fetch" /\ run'[i].page = {} /\ run'[i].chunk = {}
      BY <1>1, <1>2, <1>4 DEF TypeOK, RunState
  <2>2. \A j \in Runs : j # i => run'[j] = run[j]
      BY <1>1, <1>4 DEF TypeOK
  <2> QED
      BY <1>1, <1>3, <2>1, <2>2, NarrowRun DEF Ahead, WaitInv
<1>5. CASE \E last \in Match(run[i]) :
              LET P == {r \in Match(run[i]) : r <= last}
              IN  run' = [run EXCEPT ![i] = [@ EXCEPT
                    !.pc = "work", !.page = P, !.pos = last,
                    !.maxTs = IF log[last].ts > run[i].maxTs
                             THEN log[last].ts ELSE run[i].maxTs,
                    !.more = (Cardinality(P) = PageSize)]]
  <2>1. PICK last \in Match(run[i]) :
              LET P == {r \in Match(run[i]) : r <= last}
              IN  run' = [run EXCEPT ![i] = [@ EXCEPT
                    !.pc = "work", !.page = P, !.pos = last,
                    !.maxTs = IF log[last].ts > run[i].maxTs
                             THEN log[last].ts ELSE run[i].maxTs,
                    !.more = (Cardinality(P) = PageSize)]]
      BY <1>5
  <2> DEFINE P == {r \in Match(run[i]) : r <= last}
  <2>2. run'[i].pc = "work" /\ run'[i].page = P /\ run'[i].chunk = {}
      BY <1>1, <1>2, <2>1 DEF TypeOK, RunState
  <2>3. \A j \in Runs : j # i => run'[j] = run[j]
      BY <1>1, <2>1 DEF TypeOK
  <2>4. \A r \in P : r \in Revs /\ log[r].key \in Key /\ cur[log[r].key] = r
    <3>1. \A r \in P : \E k \in Key : r = cur[k] /\ r # 0
        BY DEF Match
    <3>2. \A k \in Key : cur[k] # 0 => log[cur[k]].key = k
        BY DEF PageInv, IInv, LogInv
    <3> HIDE DEF P
    <3> QED
        BY <1>1, <3>1, <3>2, CurType
  <2> HIDE DEF P
  <2>5. Ahead(i)' = P /\ \A j \in Runs : j # i => Ahead(j)' = Ahead(j)
      BY <2>2, <2>3 DEF Ahead
  <2>6. FreshInv(i)'
    <3>1. SUFFICES ASSUME NEW r \in P
                   PROVE  /\ db[log[r].key].rev <= r
                          /\ \A j \in Runs : \A q \in Ahead(j)' : log[q].key = log[r].key => q <= r
        BY <1>3, <2>5 DEF FreshInv
    <3>2. \A j \in Runs : \A q \in Ahead(j)' : q \in Revs
        BY <1>1, <2>4, <2>5, AheadRevs
    <3> QED
        BY <2>4, <3>1, <3>2 DEF PageInv, LatestInv
  <2>7. \A j \in Runs : run'[j].pc = "work" => j = i
      BY <1>1, <2>2 DEF IInv, LockInv, Active
  <2>8. \A j \in Runs : WaitInv(j)' /\ FreshInv(j)'
      BY <2>2, <2>3, <2>6, <2>7 DEF PageInv, WaitInv, FreshInv
  <2>9. LatestInv'
      BY <1>3 DEF PageInv, LatestInv, Revs
  <2> QED
      BY <1>1, <2>8, <2>9 DEF PageInv
<1> QED
    BY <1>4, <1>5 DEF FetchPage

LEMMA PageStartChunk ==
    ASSUME PageInv, NEW i \in Runs, StartChunk(i)
    PROVE  PageInv'
<1>1. TypeOK /\ IInv'
    BY InvStartChunk DEF PageInv, IInv
<1>2. PICK last \in run[i].page :
          LET C == {r \in run[i].page : r <= last}
          IN  run' = [run EXCEPT ![i] = [@ EXCEPT !.page = run[i].page \ C, !.chunk = C]]
    BY DEF StartChunk
<1> DEFINE C == {r \in run[i].page : r <= last}
<1>3. run[i] \in RunState /\ run[i].pc = "work" /\ C \subseteq run[i].page
    BY <1>1 DEF TypeOK, StartChunk
<1>4. run'[i].pc = "work" /\ run'[i].page = run[i].page \ C /\ run'[i].chunk = C
    BY <1>1, <1>2, <1>3 DEF TypeOK, RunState
<1> HIDE DEF C
<1>5. \A j \in Runs : j # i => run'[j] = run[j]
    BY <1>1, <1>2, RunAt
<1> QED
    BY <1>1, <1>3, <1>4, <1>5, NarrowRun DEF Ahead, WaitInv, StartChunk, vendorVars, storeVars

LEMMA PagePageDone ==
    ASSUME PageInv, NEW i \in Runs, PageDone(i)
    PROVE  PageInv'
<1>1. TypeOK /\ IInv'
    BY InvPageDone DEF PageInv, IInv
<1>2. run[i] \in RunState /\ run[i].page = {} /\ run[i].chunk = {}
    BY <1>1 DEF TypeOK, PageDone
<1>3. run'[i].pc = "fetch" /\ run'[i].page = {} /\ run'[i].chunk = {}
    BY <1>1, <1>2 DEF TypeOK, PageDone, RunState
<1>4. \A j \in Runs : j # i => run'[j] = run[j]
    BY <1>1 DEF TypeOK, PageDone
<1> QED
    BY <1>1, <1>3, <1>4, NarrowRun DEF Ahead, WaitInv, PageDone, vendorVars, storeVars

\* A run that becomes idle has nothing ahead of it.
LEMMA PageIdle ==
    ASSUME PageInv, IInv', UNCHANGED <<log, cur, db>>, NEW i \in Runs,
           run' = [run EXCEPT ![i] = Idle]
    PROVE  PageInv'
<1>1. run'[i] = Idle /\ \A j \in Runs : j # i => run'[j] = run[j]
    BY RunAt DEF PageInv, IInv
<1> QED
    BY <1>1, NarrowRun DEF Idle, Ahead, WaitInv

\* The handler of a record ends.
LEMMA PageSettle ==
    ASSUME PageInv, IInv', UNCHANGED <<log, cur, db>>, NEW i \in Runs, NEW r, NEW s \in RunState,
           run' = [run EXCEPT ![i] = Settled(s, r)],
           s.page \subseteq run[i].page, s.chunk = run[i].chunk,
           s.pc = run[i].pc \/ (s.pc = "aborted" /\ s.page = {})
    PROVE  PageInv'
<1>1. run'[i] = Settled(s, r) /\ \A j \in Runs : j # i => run'[j] = run[j]
    BY RunAt DEF PageInv, IInv
<1>2. \/ run'[i] = Idle
      \/ run'[i].pc = s.pc /\ run'[i].page = s.page /\ run'[i].chunk = s.chunk \ {r}
  <2> DEFINE rest == [s EXCEPT !.chunk = @ \ {r}, !.tail = @ \ {r}]
  <2>1. rest.pc = s.pc /\ rest.page = s.page /\ rest.chunk = s.chunk \ {r}
      BY DEF RunState
  <2>2. Settled(s, r) = Idle \/ Settled(s, r) = rest
      BY DEF Settled
  <2> HIDE DEF rest
  <2> QED
      BY <1>1, <2>1, <2>2
<1>3. WaitInv(i)' /\ Ahead(i)' \subseteq Ahead(i) /\ (run'[i].pc = "work" => run[i].pc = "work")
  <2>1. CASE run'[i] = Idle
      BY <2>1 DEF Idle, WaitInv, Ahead
  <2>2. CASE run'[i].pc = s.pc /\ run'[i].page = s.page /\ run'[i].chunk = s.chunk \ {r}
      BY <2>2 DEF WaitInv, Ahead, PageInv
  <2> QED
      BY <1>2, <2>1, <2>2
<1> QED
    BY <1>1, <1>3, NarrowRun

\* What is written is, in a page, not older than what is stored; in all cases it is
\* a revision of the feed.
LEMMA PageCommit ==
    ASSUME PageInv, NEW i \in Runs, NEW r, Commit(i, r)
    PROVE  PageInv'
<1>1. TypeOK /\ TypeOK' /\ IInv'
    BY InvCommit DEF PageInv, IInv
<1> DEFINE k == log[r].key
<1>2. run[i] \in RunState /\ r \in run[i].chunk /\ r \in Ahead(i)
    BY <1>1 DEF TypeOK, Commit, Ahead
<1>3. r \in Revs /\ r \in Nat /\ k \in Key /\ r <= cur[k]
    BY <1>1, <1>2, AheadRevs, LogType DEF PageInv, LatestInv
<1>4. \A l \in Key : db'[l].rev = db[l].rev \/ (l = k /\ db'[l].rev = r)
    BY <1>1, <1>3 DEF Commit, Applied, TypeOK, Listing
<1>5. UNCHANGED <<log, cur>>
    BY DEF Commit, vendorVars
<1>6. LatestInv'
    BY <1>3, <1>4, <1>5 DEF PageInv, LatestInv, Revs
<1>7. /\ run'[i].pc = run[i].pc /\ run'[i].page = run[i].page /\ run'[i].chunk = run[i].chunk \ {r}
      /\ \A j \in Runs : j # i => run'[j] = run[j]
    BY <1>1, <1>2 DEF TypeOK, Commit, RunState
<1>8. \A j \in Runs : Ahead(j)' \subseteq Ahead(j) /\ run'[j].pc = run[j].pc
    BY <1>7 DEF Ahead
<1>9. ASSUME NEW j \in Runs PROVE FreshInv(j)'
  <2>1. SUFFICES ASSUME run[j].pc = "work", NEW q \in Ahead(j)
                 PROVE  db'[log[q].key].rev <= q
      BY <1>5, <1>8 DEF PageInv, FreshInv
  <2>2. log[q].key \in Key /\ db[log[q].key].rev <= q /\ (k = log[q].key => r <= q)
      BY <1>1, <1>2, <2>1, AheadRevs, LogType DEF PageInv, FreshInv
  <2> QED
      BY <1>4, <2>2
<1>10. ASSUME NEW j \in Runs PROVE WaitInv(j)'
    BY <1>7 DEF PageInv, WaitInv
<1> QED
    BY <1>1, <1>6, <1>9, <1>10 DEF PageInv

LEMMA PageNext == PageInv /\ [Next]_vars => PageInv'
<1> SUFFICES ASSUME PageInv, [Next]_vars PROVE PageInv'
    OBVIOUS
<1>1. IInv' /\ TypeOK
    BY InvNext DEF PageInv, IInv
<1>2. ASSUME NEW k \in Key, Publish(k) PROVE PageInv'
    BY <1>2, PagePublish
<1>3. ASSUME UNCHANGED <<log, cur, db, run>> PROVE PageInv'
    BY <1>1, <1>3, NarrowStep DEF PageInv, Ahead, WaitInv
<1>4. ASSUME NEW i \in Runs, Work(i) PROVE PageInv'
  <2>1. CASE Finish(i)
      BY <1>1, <2>1, PageIdle DEF Finish, vendorVars
  <2>2. ASSUME NEW r, Succeed(i, r) \/ Fail(i, r) PROVE PageInv'
    <3>1. /\ run[i] \in RunState /\ run' = [run EXCEPT ![i] = Settled(run[i], r)]
          /\ UNCHANGED <<log, cur, db>>
        BY <1>1, <2>2 DEF TypeOK, Succeed, Fail, vendorVars
    <3> DEFINE s == run[i]
    <3>2. /\ s \in RunState /\ s.page \subseteq run[i].page /\ s.chunk = run[i].chunk
          /\ s.pc = run[i].pc /\ run' = [run EXCEPT ![i] = Settled(s, r)]
        BY <3>1
    <3> HIDE DEF s
    <3> QED
        BY <1>1, <3>1, <3>2, PageSettle
  <2> QED
      BY <1>4, <2>1, <2>2, PageTakeRetry, PageRetryDone, PageFetchPage, PageStartChunk,
         PagePageDone, PageCommit DEF Work, Handle
<1>5. ASSUME NEW i \in Runs, FetchError(i) PROVE PageInv'
    BY <1>1, <1>5, PageIdle DEF FetchError, vendorVars, storeVars
<1>6. ASSUME NEW i \in Runs, NEW r, FailUnrecorded(i, r) PROVE PageInv'
  <2> DEFINE s == [run[i] EXCEPT !.pc = "aborted", !.batch = {}, !.page = {}]
  <2>1. run[i] \in RunState /\ run' = [run EXCEPT ![i] = Settled(s, r)]
      BY <1>1, <1>6 DEF TypeOK, FailUnrecorded
  <2>2. s \in RunState /\ s.pc = "aborted" /\ s.page = {} /\ s.chunk = run[i].chunk
      BY <2>1 DEF RunState, Phase
  <2> HIDE DEF s
  <2> QED
      BY <1>1, <1>6, <2>1, <2>2, PageSettle DEF FailUnrecorded, vendorVars, storeVars
<1>7. CASE Crash
  <2>1. \A j \in Runs : run'[j] = Idle
      BY <1>7 DEF Crash
  <2> QED
      BY <1>1, <1>7, <2>1, NarrowStep DEF Crash, vendorVars, storeVars, Idle, Ahead, WaitInv
<1> QED
    BY <1>2, <1>3, <1>4, <1>5, <1>6, <1>7, PageStart DEF Next, Tick, storeVars, vars

LEMMA PageInit == Init => PageInv
<1> SUFFICES ASSUME Init PROVE PageInv
    OBVIOUS
<1>1. IInv
    BY InvInit
<1>2. Revs = {} /\ \A i \in Runs : run[i] = Idle
    BY DEF Init, Revs
<1>3. LatestInv
    BY <1>2 DEF Init, LatestInv
<1> QED
    BY <1>1, <1>2, <1>3 DEF PageInv, WaitInv, FreshInv, Idle

\* For any page size and concurrency, a run that goes through its pages never puts
\* an older revision over a newer one; only a replay or a handler that outlived an
\* aborted run can (runSync's lock and the order of the feed).
THEOREM PagesHold == Spec => PagesNeverRegress
<1>1. PageInv /\ [Next]_vars =>
        [\A k \in Key : db'[k].rev < db[k].rev =>
             \E i \in Runs : run[i].pc \in {"retry", "aborted"}
                             /\ run'[i].chunk # run[i].chunk]_vars
  <2> SUFFICES ASSUME PageInv, Next, NEW k \in Key, db'[k].rev < db[k].rev
               PROVE  \E i \in Runs : run[i].pc \in {"retry", "aborted"}
                                      /\ run'[i].chunk # run[i].chunk
      OBVIOUS
  <2>1. TypeOK
      BY DEF PageInv, IInv
  <2>2. db[k].rev \in Nat
      BY <2>1 DEF TypeOK, Listing
  <2>3. PICK i \in Runs : \E r : Commit(i, r)
    <3>1. db' # db
        BY <2>2
    <3>2. ASSUME NEW i \in Runs, Work(i) PROVE \E r : Commit(i, r)
        BY <3>1, <3>2 DEF Work, Handle, TakeRetry, RetryDone, FetchPage, StartChunk, PageDone,
                          Finish, Succeed, Fail, storeVars
    <3> QED
        BY <3>1, <3>2 DEF Next, Publish, Tick, Start, FetchError, FailUnrecorded, Crash, storeVars
  <2>4. PICK r : Commit(i, r)
      BY <2>3
  <2>5. run[i] \in RunState /\ r \in run[i].chunk /\ r \in Ahead(i) /\ r \in Revs
      BY <2>1, <2>4, AheadRevs DEF TypeOK, Commit, Ahead
  <2>6. run'[i].chunk # run[i].chunk
      BY <2>1, <2>4, <2>5 DEF TypeOK, Commit, RunState
  <2>7. k = log[r].key /\ db'[k].rev = r
      BY <2>1, <2>2, <2>4, <2>5, LogType DEF Commit, Applied, TypeOK, Listing
  <2>8. run[i].pc # "work"
      BY <2>2, <2>5, <2>7 DEF PageInv, FreshInv, Revs
  <2>9. run[i].pc \notin {"idle", "fetch"}
      BY <2>5 DEF PageInv, WaitInv
  <2> QED
      BY <2>5, <2>6, <2>8, <2>9 DEF RunState, Phase
<1> QED
    BY PageInit, PageNext, <1>1, PTL DEF Spec, PagesNeverRegress
=============================================================================
