--------------------------- MODULE Classification ---------------------------
(***************************************************************************)
(* The tags of an account's properties (packages/db/classification.ts).    *)
(* The MLS worker classifies a property it has written; an operator's run  *)
(* walks over all properties page by page, from the last id it recorded,   *)
(* and classifies each from the row its page held.  The tags of a property *)
(* are one value here: the attributes and the configuration they are of.   *)
(* One walk runs at a time: nothing in the code keeps operators from       *)
(* starting two, and what two leave is not said here.                      *)
(***************************************************************************)
EXTENDS Naturals, FiniteSets, FiniteSetsExt

CONSTANTS
    Property,    \* ids, positive integers
    Manual,      \* properties whose tags are marked as an owner's own
    PageSize,
    MaxVersion,  \* bound on the versions of attributes
    MaxConfig    \* bound on the configurations deployed

VARIABLES
    row,         \* property -> version of its attributes, 0 when it is gone
    tags,        \* property -> [of, config], zeros when it was never classified
    config,      \* the configuration deployed
    ingest,      \* property -> version its ingestion is to classify, or 0
    run,         \* the operator's run
    record,      \* its row: [status, cursor]
    chain,       \* history: properties there ever since a walk that applies began
    missed,      \* history: the row at the cursor was deleted during the walk
    raced        \* history: properties deployed or ingested over since a page read them

vars == <<row, tags, config, ingest, run, record, chain, missed, raced>>

None == [of |-> 0, config |-> 0]
NoRun == [step |-> "idle", apply |-> FALSE, config |-> 0, cursor |-> 0, page |-> {},
          read |-> [p \in Property |-> 0]]

There == {p \in Property : row[p] # 0}

TypeOK ==
    /\ row \in [Property -> 0..MaxVersion]
    /\ tags \in [Property -> [of : 0..MaxVersion, config : 0..MaxConfig]]
    /\ config \in 1..MaxConfig
    /\ ingest \in [Property -> 0..MaxVersion]
    /\ run.step \in {"idle", "page", "rows"} /\ run.cursor \in Property \cup {0}
    /\ run.page \subseteq Property
    /\ record \in [status : {"none", "RUNNING", "COMPLETED", "FAILED"}, cursor : Property \cup {0}]
    /\ chain \subseteq Property /\ raced \subseteq Property /\ missed \in BOOLEAN

Init ==
    /\ row \in [Property -> {0, 1}]
    /\ tags = [p \in Property |-> None]
    /\ config = 1
    /\ ingest = [p \in Property |-> 0]
    /\ run = NoRun
    /\ record = [status |-> "none", cursor |-> 0]
    /\ chain = {} /\ missed = FALSE /\ raced = {}

-----------------------------------------------------------------------------

\* classifyForAccount: the tags are written from what was read, unless they are
\* marked as the owner's.
Classified(p, version, c) ==
    IF p \in Manual THEN tags ELSE [tags EXCEPT ![p] = [of |-> version, config |-> c]]

\* The worker has stored the attributes and is about to classify.
Ingest(p) ==
    /\ row[p] # 0 /\ row[p] < MaxVersion /\ ingest[p] = 0
    /\ row' = [row EXCEPT ![p] = @ + 1]
    /\ ingest' = [ingest EXCEPT ![p] = row[p] + 1]
    /\ raced' = raced \cup {p}
    /\ UNCHANGED <<tags, config, run, record, chain, missed>>

\* classifyIngestedProperty ends; a failure is logged and the tags stay.
EndIngest(p, ok) ==
    /\ ingest[p] # 0
    /\ tags' = IF ok /\ row[p] # 0 THEN Classified(p, ingest[p], config) ELSE tags
    /\ ingest' = [ingest EXCEPT ![p] = 0]
    /\ UNCHANGED <<row, config, run, record, chain, missed, raced>>

\* A property is made by hand, or is deleted with its tags.
Add(p) ==
    /\ row[p] = 0 /\ ingest[p] = 0 /\ tags[p] = None
    /\ p \notin chain
    /\ row' = [row EXCEPT ![p] = 1]
    /\ UNCHANGED <<tags, config, ingest, run, record, chain, missed, raced>>

DeleteProperty(p) ==
    /\ row[p] # 0
    /\ row' = [row EXCEPT ![p] = 0]
    /\ tags' = [tags EXCEPT ![p] = None]
    /\ chain' = chain \ {p}
    /\ missed' = (missed \/ p = run.cursor \/ p = record.cursor)
    /\ UNCHANGED <<config, ingest, run, record, raced>>

\* A new configuration is deployed; the worker is started with it.
Deploy ==
    /\ config < MaxConfig
    /\ config' = config + 1
    /\ raced' = Property
    /\ UNCHANGED <<row, tags, ingest, run, record, chain, missed>>

-----------------------------------------------------------------------------

\* runClassification from the beginning, or from the cursor of a run that ended
\* early under the same configuration.
Start(apply, cursor) ==
    /\ run.step = "idle"
    /\ cursor # 0 => record.status \in {"FAILED", "RUNNING"} /\ cursor = record.cursor
    /\ run' = [step |-> "page", apply |-> apply, config |-> config, cursor |-> cursor,
               page |-> {}, read |-> NoRun.read]
    /\ record' = [status |-> "RUNNING", cursor |-> cursor]
    /\ chain' = IF ~apply THEN {} ELSE IF cursor = 0 THEN There ELSE chain
    /\ missed' = IF cursor = 0 THEN FALSE ELSE missed \/ row[cursor] = 0
    /\ raced' = IF cursor = 0 THEN {p \in Property : ingest[p] # 0} ELSE raced
    /\ UNCHANGED <<row, tags, config, ingest>>

\* The ids after the cursor; none when the row at the cursor is gone.
After(cursor) == IF cursor # 0 /\ row[cursor] = 0 THEN {} ELSE {p \in There : p > cursor}

FirstOf(ids) == {p \in ids : Cardinality({q \in ids : q < p}) < PageSize}

\* The next page; without rows the run is complete.
Page ==
    /\ run.step = "page"
    /\ LET ids == FirstOf(After(run.cursor)) IN
       IF ids = {}
       THEN /\ record' = [status |-> "COMPLETED", cursor |-> run.cursor]
            /\ run' = [NoRun EXCEPT !.apply = run.apply, !.config = run.config]
       ELSE /\ run' = [step |-> "rows", apply |-> run.apply, config |-> run.config,
                       cursor |-> run.cursor, page |-> ids, read |-> row]
            /\ UNCHANGED record
    /\ UNCHANGED <<row, tags, config, ingest, chain, missed, raced>>

\* One property of the page; a deleted one fails the run.
Row ==
    /\ run.step = "rows" /\ run.page # {}
    /\ LET p == Min(run.page) IN
       /\ run.apply => row[p] # 0
       /\ tags' = IF run.apply THEN Classified(p, run.read[p], run.config) ELSE tags
       /\ run' = [run EXCEPT !.page = @ \ {p}, !.cursor = p]
    /\ UNCHANGED <<row, config, ingest, record, chain, missed, raced>>

\* The run's row is brought up to date after every page.
RecordPage ==
    /\ run.step = "rows" /\ run.page = {}
    /\ record' = [record EXCEPT !.cursor = run.cursor]
    /\ run' = [run EXCEPT !.step = "page"]
    /\ UNCHANGED <<row, tags, config, ingest, chain, missed, raced>>

\* Mutant: the cursor is moved before the property is classified.
Fail_OneAhead ==
    /\ run.step # "idle"
    /\ record' = [status |-> "FAILED",
                  cursor |-> IF run.page = {} THEN run.cursor ELSE Min(run.page)]
    /\ run' = NoRun
    /\ UNCHANGED <<row, tags, config, ingest, chain, missed, raced>>

\* A query fails: the row says so, with the last property that was classified.
Fail ==
    /\ run.step # "idle"
    /\ record' = [status |-> "FAILED", cursor |-> run.cursor]
    /\ run' = NoRun
    /\ UNCHANGED <<row, tags, config, ingest, chain, missed, raced>>

\* The process stops and leaves the row as it was.
Stop ==
    /\ run.step # "idle"
    /\ run' = NoRun
    /\ UNCHANGED <<row, tags, config, ingest, record, chain, missed, raced>>

Next ==
    \/ \E p \in Property :
          Ingest(p) \/ Add(p) \/ DeleteProperty(p) \/ \E ok \in BOOLEAN : EndIngest(p, ok)
    \/ Deploy
    \/ \E apply \in BOOLEAN, cursor \in Property \cup {0} : Start(apply, cursor)
    \/ Page \/ Row \/ RecordPage \/ Fail \/ Stop

Spec == Init /\ [][Next]_vars

-----------------------------------------------------------------------------

\* However often a walk failed and was taken up where it had recorded to be, and
\* whatever was added meanwhile, once it is completed the properties that were there
\* all the time have the tags of their attributes under its configuration, unless they
\* were ingested or a configuration was deployed meanwhile, whose tags the walk
\* overwrites.  When the property at the cursor was deleted, the next page is empty and
\* the walk is completed all the same: then only those up to its cursor have them.
CompletedCoversAll ==
    (record.status = "COMPLETED" /\ run.step = "idle" /\ run.apply)
        => \A p \in chain \ (raced \cup Manual) :
              p <= record.cursor \/ ~missed => tags[p] = [of |-> row[p], config |-> run.config]

-----------------------------------------------------------------------------

Runs == [step : {"idle", "page", "rows"}, apply : BOOLEAN, config : 0..MaxConfig,
         cursor : Property \cup {0}, page : SUBSET Property,
         read : [Property -> 0..MaxVersion]]

\* What a walk answers for: there all the time, and not ingested over.
Owed == chain \ (raced \cup Manual)

Covered(p) == tags[p] = [of |-> row[p], config |-> config]
CoveredTo(id) == \A p \in Owed : p <= id => Covered(p)

\* The inductive invariant: what a walk has passed, or its row says it has passed, has
\* the tags of its attributes, and the next page has no gap before it.
IInv ==
    /\ TypeOK /\ run \in Runs
    /\ \A p \in chain : row[p] # 0
    /\ \A p \in Property : ingest[p] # 0 => p \in raced
    /\ run.step # "idle" =>
          /\ record.status = "RUNNING"
          /\ run.config = config \/ raced = Property
          /\ CoveredTo(run.cursor)
          /\ run.apply \/ chain = {}
          /\ run.apply /\ ~missed /\ run.cursor # 0 => row[run.cursor] # 0
    /\ run.step = "rows" =>
          /\ \A p \in chain \ raced : run.read[p] = row[p]
          /\ \A p \in run.page : /\ run.cursor < p
                                 /\ \A q \in chain : q < p => q <= run.cursor \/ q \in run.page
    /\ record.status \in {"RUNNING", "FAILED"} => CoveredTo(record.cursor)
    /\ record.status = "COMPLETED" =>
          /\ run.config = config \/ raced = Property
          /\ CoveredTo(record.cursor)
          /\ missed \/ \A p \in Owed : Covered(p)

\* What the constants have to be.
Bounds ==
    /\ Property \subseteq Nat \ {0} /\ IsFiniteSet(Property)
    /\ PageSize \in Nat \ {0} /\ MaxVersion \in Nat \ {0} /\ MaxConfig \in Nat \ {0}
=============================================================================
