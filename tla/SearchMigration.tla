--------------------------- MODULE SearchMigration ---------------------------
(***************************************************************************)
(* The collections of the search engine: created when a server starts      *)
(* (ensureCollections) and brought up to a new schema by a script that     *)
(* runs before the new code is deployed (typesense-migrate.ts).  The       *)
(* holder of an advisory lock of the database migrates; the lock belongs   *)
(* to a connection of the pool and goes with it, which the script does not *)
(* notice.                                                                 *)
(*                                                                         *)
(* A field that is dropped loses its values in the documents, which come   *)
(* back when the documents are imported again; a field that is added has   *)
(* none yet.                                                               *)
(***************************************************************************)
EXTENDS Naturals, FiniteSets

CONSTANTS
    Collection,   \* those of SCHEMAS
    Reimported,   \* those reindexCollection knows: contacts, transactions, tasks
    Added,        \* collection -> optional fields the new schema adds
    Faceted,      \* collection -> fields whose facet it changes
    Required,     \* collection -> those of them that are not optional
    Run,          \* runs of the script, overlapping
    Server,       \* servers that start
    MaxFaults     \* bound on errors of the engine and on runs that are cut off

VARIABLES
    exists,   \* collections there are
    field,    \* collection -> field -> "none", "old" facet, or "new"
    filled,   \* collection -> fields with values in the documents
    holder,   \* the run that has the lock, 0 for none
    run,      \* run -> [step, todo, at, missing, changed, loose]
    server,   \* server -> [step, todo, at]
    cut,      \* history: collections a run dropped fields of and did not import
    born,     \* history: collections created by a server
    faults

vars == <<exists, field, filled, holder, run, server, cut, born, faults>>

Fields(c) == Added[c] \cup Faceted[c]
NewRun == [step |-> "new", todo |-> Collection, at |-> "none", missing |-> {}, changed |-> {},
           loose |-> FALSE]

Init ==
    /\ exists \in SUBSET Collection
    /\ field = [c \in Collection |-> [f \in Fields(c) |-> IF f \in Faceted[c] THEN "old" ELSE "none"]]
    /\ filled = Faceted
    /\ holder = 0
    /\ run = [r \in Run |-> NewRun]
    /\ server = [s \in Server |-> [step |-> "boot", todo |-> Collection, at |-> "none"]]
    /\ cut = {} /\ born = {} /\ faults = 0

Goes(r, state) == run' = [run EXCEPT ![r] = state]

-----------------------------------------------------------------------------
\* A run of the script.

\* pg_try_advisory_lock; without the lock the run ends with 0.
Acquire(r) ==
    /\ run[r].step = "new"
    /\ IF holder = 0
       THEN holder' = r /\ Goes(r, [run[r] EXCEPT !.step = "next"])
       ELSE Goes(r, [run[r] EXCEPT !.step = "left"]) /\ UNCHANGED holder
    /\ UNCHANGED <<exists, field, filled, server, cut, born, faults>>

\* The script unlocks and disconnects, or its end disconnects it: either way the lock
\* it has goes.
Release(r) == holder' = IF holder = r THEN 0 ELSE holder

\* The connection that has the lock is closed, by the database or by the pool that
\* finds it idle; the run goes on, and another may acquire the lock.
LoseLock(r) ==
    /\ holder = r /\ faults < MaxFaults
    /\ holder' = 0 /\ faults' = faults + 1
    /\ Goes(r, [run[r] EXCEPT !.loose = TRUE])
    /\ UNCHANGED <<exists, field, filled, server, cut, born>>

\* History: some run has gone on without the lock.
Astray == \E r \in Run : run[r].loose

\* retrieve() of the next collection: what is missing, and whose facet differs.
\* There may be nothing to do, or a field that may not be added.
Inspect(r, c) ==
    LET missing == {f \in Fields(c) : field[c][f] = "none"}
        changed == {f \in Fields(c) : field[c][f] = "old"}
        rest == [run[r] EXCEPT !.todo = @ \ {c}]
    IN  /\ run[r].step = "next" /\ c \in run[r].todo
        /\ IF c \notin exists \/ missing \cup changed = {} THEN Goes(r, rest) /\ UNCHANGED holder
           ELSE IF missing \cap Required[c] # {}
           THEN Goes(r, [rest EXCEPT !.step = "error"]) /\ Release(r)
           ELSE /\ Goes(r, [step |-> "add", todo |-> rest.todo, at |-> c,
                            missing |-> missing, changed |-> changed, loose |-> run[r].loose])
                /\ UNCHANGED holder
        /\ UNCHANGED <<exists, field, filled, server, cut, born, faults>>

SetFields(c, fields, state) ==
    field' = [field EXCEPT ![c] = [f \in Fields(c) |-> IF f \in fields THEN state ELSE @[f]]]

\* The missing fields are added.
AddMissing(r) ==
    LET c == run[r].at IN
    /\ run[r].step = "add"
    /\ SetFields(c, run[r].missing, "new")
    /\ Goes(r, [run[r] EXCEPT !.step = IF run[r].changed = {} THEN "next" ELSE "drop"])
    /\ UNCHANGED <<exists, filled, holder, server, cut, born, faults>>

\* A facet cannot be changed in place: the field is dropped,
DropChanged(r) ==
    LET c == run[r].at IN
    /\ run[r].step = "drop"
    /\ SetFields(c, run[r].changed, "none")
    /\ filled' = [filled EXCEPT ![c] = @ \ run[r].changed]
    /\ Goes(r, [run[r] EXCEPT !.step = "readd"])
    /\ UNCHANGED <<exists, holder, server, cut, born, faults>>

\* added anew,
AddChanged(r) ==
    LET c == run[r].at IN
    /\ run[r].step = "readd"
    /\ SetFields(c, run[r].changed, "new")
    /\ Goes(r, [run[r] EXCEPT !.step = "reindex"])
    /\ UNCHANGED <<exists, filled, holder, server, cut, born, faults>>

\* and the documents are imported again, of the collections the script knows.
Reindex(r) ==
    LET c == run[r].at IN
    /\ run[r].step = "reindex"
    /\ filled' = IF c \in Reimported THEN [filled EXCEPT ![c] = Fields(c)] ELSE filled
    /\ Goes(r, [run[r] EXCEPT !.step = "next"])
    /\ UNCHANGED <<exists, field, holder, server, cut, born, faults>>

\* All collections are done: exit 0.
Exit(r) ==
    /\ run[r].step = "next" /\ run[r].todo = {}
    /\ Release(r)
    /\ Goes(r, [run[r] EXCEPT !.step = "done"])
    /\ UNCHANGED <<exists, field, filled, server, cut, born, faults>>

\* The engine fails (exit 1), or refuses what another run has done already, or the
\* process stops; what was changed stays.
Fail(r) ==
    /\ run[r].step \in {"next", "add", "drop", "readd", "reindex"}
    /\ Astray \/ faults < MaxFaults
    /\ faults' = IF Astray THEN faults ELSE faults + 1
    /\ Release(r)
    /\ Goes(r, [run[r] EXCEPT !.step = "error"])
    /\ cut' = IF run[r].step \in {"readd", "reindex"} THEN cut \cup {run[r].at} ELSE cut
    /\ UNCHANGED <<exists, field, filled, server, born>>

-----------------------------------------------------------------------------
\* ensureCollections, when a server starts with the new code.

Stands(s, state) == server' = [server EXCEPT ![s] = state]

\* retrieve() finds the collection, or fails in any way and it is to be created.
Retrieve(s, c, found) ==
    /\ server[s].step = "boot" /\ c \in server[s].todo
    /\ c \in exists \/ ~found
    /\ c \in exists /\ ~found => faults < MaxFaults
    /\ faults' = IF c \in exists /\ ~found THEN faults + 1 ELSE faults
    /\ Stands(s, [step |-> IF found THEN "boot" ELSE "create",
                  todo |-> server[s].todo \ {c}, at |-> c])
    /\ UNCHANGED <<exists, field, filled, holder, run, cut, born>>

\* create() refuses a collection that another server has made meanwhile; the
\* rejection ends the loop, and is logged.
Create(s) ==
    LET c == server[s].at IN
    /\ server[s].step = "create"
    /\ IF c \in exists
       THEN /\ Stands(s, [server[s] EXCEPT !.step = "failed"])
            /\ UNCHANGED <<exists, field, filled, born>>
       ELSE /\ exists' = exists \cup {c} /\ born' = born \cup {c}
            /\ SetFields(c, Fields(c), "new")
            /\ filled' = [filled EXCEPT ![c] = Fields(c)]
            /\ Stands(s, [server[s] EXCEPT !.step = "boot"])
    /\ UNCHANGED <<holder, run, cut, faults>>

Next ==
    \/ \E r \in Run :
          \/ Acquire(r) \/ AddMissing(r) \/ DropChanged(r) \/ AddChanged(r) \/ Reindex(r)
          \/ Exit(r) \/ Fail(r) \/ LoseLock(r) \/ \E c \in Collection : Inspect(r, c)
    \/ \E s \in Server :
          Create(s) \/ \E c \in Collection, found \in BOOLEAN : Retrieve(s, c, found)

Spec == Init /\ [][Next]_vars

-----------------------------------------------------------------------------

Migrating == {r \in Run : run[r].step \in {"next", "add", "drop", "readd", "reindex"}}

TypeOK ==
    /\ exists \subseteq Collection /\ born \subseteq exists
    /\ \A c \in Collection : filled[c] \subseteq Fields(c)
    /\ \A c \in Collection : \A f \in Fields(c) : field[c][f] \in {"none", "old", "new"}
    /\ holder \in Run \cup {0}
    /\ \A s \in Server : server[s].step \in {"boot", "create", "failed"}
    /\ cut \subseteq Collection \cup {"none"} /\ faults \in 0..MaxFaults

\* However many replicas start the script at once, only one changes the collections;
\* and once a run has ended with 0 and no run changes them any more, every collection
\* of before has the fields of its schema, with the values of those whose facet was
\* changed where the script imports the documents.  This is what the code does of
\* "only one process ever runs the alter" and "re-runs are no-ops" (lines 2 and 10): it
\* holds as long as no run outlives the connection of its lock, and a field that a run
\* dropped before it ended is given no values by any later run, which compares only
\* the schema.
MigratedOnce ==
    ~Astray =>
       /\ \A r \in Migrating : holder = r
       /\ (Migrating = {} /\ \E r \in Run : run[r].step = "done")
              => \A c \in exists :
                    /\ \A f \in Fields(c) : field[c][f] = "new"
                    /\ c \in Reimported \ cut => Faceted[c] \subseteq filled[c]

-----------------------------------------------------------------------------

AllNew(c) == \A f \in Fields(c) : field[c][f] = "new"

\* The values of the fields whose facet changes are in the documents.
Kept(c) == c \in Reimported \ cut => Faceted[c] \subseteq filled[c]

Steps == {"new", "left", "next", "add", "drop", "readd", "reindex", "error", "done"}

Runs == [step : Steps, todo : SUBSET Collection, at : Collection \cup {"none"},
         missing : SUBSET UNION {Fields(c) : c \in Collection},
         changed : SUBSET UNION {Fields(c) : c \in Collection}, loose : BOOLEAN]

\* A run that is at work on a collection knows which of its fields are not new yet.
Knows(q) ==
    /\ q.step = "new" => q.todo = Collection
    /\ q.step \in {"add", "drop", "readd", "reindex"} =>
          q.at \in exists /\ q.changed \subseteq Fields(q.at)
    /\ q.step = "add" => /\ q.missing = {f \in Fields(q.at) : field[q.at][f] = "none"}
                         /\ q.changed = {f \in Fields(q.at) : field[q.at][f] = "old"}
    /\ q.step = "drop" => /\ q.changed # {}
                          /\ \A f \in q.changed : field[q.at][f] = "old"
    /\ q.step \in {"drop", "readd"} =>
          \A f \in Fields(q.at) \ q.changed : field[q.at][f] = "new"
    /\ q.step = "reindex" => AllNew(q.at)

TypesAre ==
    /\ TypeOK
    /\ DOMAIN field = Collection /\ DOMAIN filled = Collection
    /\ run \in [Run -> Runs]
    /\ server \in [Server -> [step : {"boot", "create", "failed"}, todo : SUBSET Collection,
                              at : Collection \cup {"none"}]]
    /\ \A s \in Server : server[s].step = "create" => server[s].at \in Collection

\* As long as the lock is kept, the run that has it is the one that migrates; what it
\* has behind it is new and keeps its values, and once a run is done all is new.
Locked ==
    /\ TypesAre /\ ~Astray
    /\ \A r \in Run : r \in Migrating <=> holder = r
    /\ \A r \in Run : Knows(run[r])
    /\ \A c \in Collection :
          Kept(c) \/ \E r \in Run : run[r].step \in {"readd", "reindex"} /\ run[r].at = c
    /\ \A r \in Migrating : \A c \in exists \ run[r].todo :
          AllNew(c) \/ (run[r].step # "next" /\ run[r].at = c)
    /\ (\E r \in Run : run[r].step = "done") => \A c \in exists : AllNew(c)

\* The inductive invariant: a run that went astray stays so.
IInv == TypesAre /\ (Astray \/ Locked)

\* What the constants have to be.
Bounds == 0 \notin Run /\ DOMAIN Faceted = Collection /\ MaxFaults \in Nat
=============================================================================
