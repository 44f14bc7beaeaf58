-------------------------- MODULE Components_proofs -------------------------
(***************************************************************************)
(* Proofs about the other components of MCComponents, and what MCComponents *)
(* promises of several, for any constants its assumptions allow.  v1 to v9 *)
(* are the variables of a component as its instance names them.            *)
(***************************************************************************)
EXTENDS Crm_proofs

-----------------------------------------------------------------------------
(* The schema migration of the search service.                             *)
(* v1 exists, v2 field, v3 filled, v4 holder, v5 run, v6 server, v7 cut,   *)
(* v8 born, v9 faults.                                                     *)

MigrationBusy == {"next", "add", "drop", "readd", "reindex"}

LEMMA MigrationInitially == ASSUME Migration!Bounds PROVE Migration!Init => Migration!IInv
<1> SUFFICES ASSUME Migration!Init PROVE Migration!Locked
    BY DEF Migration!IInv, Migration!Locked
<1>1. /\ Migration!NewRun \in Migration!Runs /\ Migration!NewRun.step = "new"
      /\ ~Migration!NewRun.loose
    BY DEF Migration!NewRun, Migration!Runs, Migration!Steps
<1>2. /\ v5 \in [Migrator -> Migration!Runs] /\ \A r \in Migrator : v5[r].step = "new" /\ ~v5[r].loose
      /\ v6 \in [Replica -> [step : {"boot", "create", "failed"}, todo : SUBSET Collection,
                                at : Collection \cup {"none"}]]
      /\ \A s \in Replica : v6[s].step = "boot"
    BY <1>1 DEF Migration!Init
<1>3. Migration!TypeOK
  <2>1. \A c \in Collection : v3[c] \subseteq Migration!Fields(c)
      BY DEF Migration!Init, Migration!Fields
  <2>2. \A c \in Collection : \A f \in Migration!Fields(c) : v2[c][f] \in {"none", "old", "new"}
      BY DEF Migration!Init
  <2>3. \A s \in Replica : v6[s].step \in {"boot", "create", "failed"}
      BY <1>2
  <2>4. v7 = {} /\ v9 = 0 /\ 0 \in 0..MaxFaults
      BY DEF Migration!Init, Migration!Bounds
  <2>5. v7 \subseteq Collection \cup {"none"}
      BY <2>4
  <2>6. v1 \subseteq Collection /\ v8 \subseteq v1 /\ v4 \in Migrator \cup {0}
      BY DEF Migration!Init
  <2> QED
      BY <2>1, <2>2, <2>3, <2>4, <2>5, <2>6 DEF Migration!TypeOK
<1>4. \A c \in Collection : Migration!Kept(c)
    BY DEF Migration!Init, Migration!Kept
<1>5. \A r \in Migrator : v5[r].todo = Collection /\ v4 # r /\ v5[r].step \notin MigrationBusy
    BY <1>2 DEF Migration!Init, Migration!NewRun, MigrationBusy, Migration!Bounds
<1>6. \A r \in Migrator : r \notin Migration!Migrating /\ Migration!Knows(v5[r]) /\ v5[r].step # "done"
    BY <1>2, <1>5 DEF Migration!Migrating, Migration!Knows, MigrationBusy
<1>7. DOMAIN v2 = Collection /\ DOMAIN v3 = Collection
    BY DEF Migration!Init, Migration!Bounds
<1>8. Migration!Migrating = {} /\ \A r \in Migrator : r \in Migration!Migrating <=> v4 = r
    BY <1>5, <1>6 DEF Migration!Migrating
<1> QED
    BY <1>2, <1>3, <1>4, <1>6, <1>7, <1>8 DEF Migration!Locked, Migration!TypesAre, Migration!Astray

\* What a step leaves of the fields.
LEMMA MigrationFieldsAre ==
    ASSUME Migration!TypesAre, NEW c, NEW fields, NEW state \in {"none", "new"},
           Migration!SetFields(c, fields, state)
    PROVE  /\ DOMAIN v2' = Collection
           /\ \A d \in Collection : \A f \in Migration!Fields(d) :
                 /\ v2'[d][f] \in {"none", "old", "new"}
                 /\ d # c \/ f \notin fields => v2'[d][f] = v2[d][f]
                 /\ d = c /\ f \in fields => v2'[d][f] = state
    BY DEF Migration!SetFields, Migration!TypesAre, Migration!TypeOK

\* A run moves, and perhaps takes or gives back the lock; the fields of the collection
\* it is at may change.
LEMMA MigrationRunStep ==
    ASSUME Migration!Bounds, Migration!Locked, NEW r \in Migrator, NEW q \in Migration!Runs, ~q.loose,
           Migration!Goes(r, q),
           UNCHANGED <<v1, v6, v8>>, v7 \subseteq v7', v7' \subseteq Collection \cup {"none"}, v9' \in 0..MaxFaults,
           v4' \in Migrator \cup {0},
           \A p \in Migrator : (IF p = r THEN q.step \in MigrationBusy ELSE v5[p].step \in MigrationBusy) <=> v4' = p,
           DOMAIN v2' = Collection, DOMAIN v3' = Collection,
           \A c \in Collection : v3'[c] \subseteq Migration!Fields(c),
           \A c \in Collection : \A f \in Migration!Fields(c) : v2'[c][f] \in {"none", "old", "new"},
           \A p \in Migrator \ {r} : v5[p].step \in MigrationBusy => v2' = v2,
           Migration!Knows(q)',
           \A c \in Collection : Migration!Kept(c)' \/ (q.step \in {"readd", "reindex"} /\ q.at = c)
               \/ \E p \in Migrator \ {r} : v5[p].step \in {"readd", "reindex"} /\ v5[p].at = c,
           q.step \in MigrationBusy => \A c \in v1 \ q.todo :
               Migration!AllNew(c)' \/ (q.step # "next" /\ q.at = c),
           q.step = "done" \/ (\E p \in Migrator : v5[p].step = "done") => \A c \in v1 : Migration!AllNew(c)'
    PROVE  Migration!Locked'
<1>1. v5' \in [Migrator -> Migration!Runs] /\ v5'[r] = q /\ \A p \in Migrator \ {r} : v5'[p] = v5[p]
    BY DEF Migration!Goes, Migration!Locked, Migration!TypesAre, Migration!Astray
<1>2. Migration!TypeOK'
    BY DEF Migration!Locked, Migration!TypesAre, Migration!Astray, Migration!TypeOK
<1>3. \A p \in Migrator : p \in Migration!Migrating' <=> v4' = p
    BY <1>1 DEF Migration!Migrating, MigrationBusy
<1>4. \A p \in Migrator : Migration!Knows(v5[p])'
  <2> SUFFICES ASSUME NEW p \in Migrator PROVE Migration!Knows(v5[p])'
      OBVIOUS
  <2>1. CASE p = r
      BY <1>1, <2>1 DEF Migration!Knows, Migration!AllNew
  <2>2. CASE p # r
    <3>1. v5'[p] = v5[p] /\ Migration!Knows(v5[p])
        BY <1>1, <2>2 DEF Migration!Locked, Migration!TypesAre, Migration!Astray
    <3>2. CASE v5[p].step \in MigrationBusy
        BY <2>2, <3>1, <3>2 DEF Migration!Knows, MigrationBusy, Migration!AllNew
    <3>3. CASE v5[p].step \notin MigrationBusy
        BY <3>1, <3>3 DEF Migration!Knows, MigrationBusy
    <3> QED
        BY <3>2, <3>3
  <2> QED
      BY <2>1, <2>2
<1>5. \A c \in Collection :
        Migration!Kept(c)' \/ \E p \in Migrator : v5'[p].step \in {"readd", "reindex"} /\ v5'[p].at = c
    BY <1>1
<1>6. \A p \in Migration!Migrating' : \A c \in v1' \ v5'[p].todo :
        Migration!AllNew(c)' \/ (v5'[p].step # "next" /\ v5'[p].at = c)
  <2> SUFFICES ASSUME NEW p \in Migration!Migrating', NEW c \in v1' \ v5'[p].todo
               PROVE  Migration!AllNew(c)' \/ (v5'[p].step # "next" /\ v5'[p].at = c)
      OBVIOUS
  <2>1. CASE p = r
      BY <1>1, <2>1 DEF Migration!Migrating, MigrationBusy
  <2>2. CASE p # r
    <3>1. /\ p \in Migrator
          /\ v5'[p] = v5[p]
          /\ v5[p].step \in MigrationBusy
          /\ p \in Migration!Migrating
          /\ v2' = v2
        BY <1>1, <2>2 DEF Migration!Migrating, MigrationBusy
    <3> QED
        BY <3>1 DEF Migration!Locked, Migration!TypesAre, Migration!Astray, Migration!AllNew
  <2> QED
      BY <2>1, <2>2
<1>7. (\E p \in Migrator : v5'[p].step = "done") => \A c \in v1' : Migration!AllNew(c)'
    BY <1>1
<1> QED
    BY <1>1, <1>2, <1>3, <1>4, <1>5, <1>6, <1>7 DEF Migration!Locked, Migration!TypesAre, Migration!Astray

\* What the invariant says of a run.
LEMMA MigrationRunIs ==
    ASSUME Migration!Locked, NEW r \in Migrator
    PROVE  /\ v5[r] \in Migration!Runs /\ Migration!Knows(v5[r]) /\ (v5[r].step \in MigrationBusy <=> v4 = r)
           /\ \A p \in Migrator : (v5[p].step \in MigrationBusy <=> v4 = p) /\ ~v5[p].loose
           /\ DOMAIN v2 = Collection /\ DOMAIN v3 = Collection
           /\ v4 \in Migrator \cup {0} /\ v7 \subseteq Collection \cup {"none"} /\ v9 \in 0..MaxFaults
           /\ v1 \subseteq Collection
           /\ \A c \in Collection : v3[c] \subseteq Migration!Fields(c)
           /\ \A c \in Collection : \A f \in Migration!Fields(c) : v2[c][f] \in {"none", "old", "new"}
           /\ \A c \in Collection :
                 Migration!Kept(c) \/ \E p \in Migrator : v5[p].step \in {"readd", "reindex"} /\ v5[p].at = c
           /\ v5[r].step \in MigrationBusy => \A c \in v1 \ v5[r].todo :
                 Migration!AllNew(c) \/ (v5[r].step # "next" /\ v5[r].at = c)
           /\ (\E p \in Migrator : v5[p].step = "done") => \A c \in v1 : Migration!AllNew(c)
    BY DEF Migration!Locked, Migration!TypesAre, Migration!Astray, Migration!TypeOK, Migration!Migrating, MigrationBusy

\* A run moves and no field changes.
LEMMA MigrationMoveStep ==
    ASSUME Migration!Bounds, Migration!Locked, NEW r \in Migrator, NEW q \in Migration!Runs, ~q.loose,
           Migration!Goes(r, q),
           UNCHANGED <<v1, v2, v3, v6, v8>>, v7 \subseteq v7', v7' \subseteq Collection \cup {"none"},
           v9' \in 0..MaxFaults,
           v4' \in Migrator \cup {0},
           \A p \in Migrator : (IF p = r THEN q.step \in MigrationBusy ELSE v5[p].step \in MigrationBusy) <=> v4' = p,
           Migration!Knows(q), v5[r].at \in v7' \/ v5[r].step \notin {"readd", "reindex"},
           q.step \in MigrationBusy => \A c \in v1 \ q.todo :
               Migration!AllNew(c) \/ (q.step # "next" /\ q.at = c),
           q.step = "done" => \A c \in v1 : Migration!AllNew(c)
    PROVE  Migration!Locked'
<1>1. \A c : Migration!AllNew(c)' <=> Migration!AllNew(c)
    BY DEF Migration!AllNew
<1>2. Migration!Knows(q)'
    BY <1>1 DEF Migration!Knows
<1>3. \A c \in Collection : Migration!Kept(c)' \/ (q.step \in {"readd", "reindex"} /\ q.at = c)
          \/ \E p \in Migrator \ {r} : v5[p].step \in {"readd", "reindex"} /\ v5[p].at = c
  <2> SUFFICES ASSUME NEW c \in Collection, ~ Migration!Kept(c)'
               PROVE  \E p \in Migrator \ {r} : v5[p].step \in {"readd", "reindex"} /\ v5[p].at = c
      OBVIOUS
  <2>1. c \notin v7' /\ ~ Migration!Kept(c)
      BY MigrationRunIs DEF Migration!Kept
  <2> QED
      BY <2>1, MigrationRunIs
<1> QED
    BY <1>1, <1>2, <1>3, MigrationRunIs, MigrationRunStep

LEMMA MigrationAcquireStep ==
    ASSUME Migration!Bounds, Migration!Locked, NEW r \in Migrator, Migration!Acquire(r)
    PROVE  Migration!Locked'
<1>1. /\ v5[r] \in Migration!Runs /\ v5[r].todo = Collection /\ v5[r].step = "new" /\ r # 0
      /\ ~v5[r].loose
    BY MigrationRunIs DEF Migration!Acquire, Migration!Bounds, Migration!Knows
<1>2. CASE v4 = 0
  <2> DEFINE q == [v5[r] EXCEPT !.step = "next"]
  <2>1. q \in Migration!Runs /\ q.step = "next" /\ q.todo = Collection /\ ~q.loose
      BY <1>1 DEF Migration!Runs, Migration!Steps
  <2>2. /\ v4' = r /\ Migration!Goes(r, q) /\ \A p \in Migrator : v5[p].step \notin MigrationBusy
        /\ UNCHANGED <<v1, v2, v3, v6, v7, v8, v9>>
      BY <1>2, MigrationRunIs DEF Migration!Acquire, Migration!Bounds
  <2> HIDE DEF q
  <2>3. Migration!Knows(q) /\ v1 \ q.todo = {}
      BY <2>1, MigrationRunIs DEF Migration!Knows
  <2> QED
      BY <1>1, <2>1, <2>2, <2>3, MigrationRunIs, MigrationMoveStep DEF MigrationBusy
<1>3. CASE v4 # 0
  <2> DEFINE q == [v5[r] EXCEPT !.step = "left"]
  <2>1. q \in Migration!Runs /\ q.step = "left" /\ ~q.loose
      BY <1>1 DEF Migration!Runs, Migration!Steps
  <2>2. /\ v4' = v4 /\ Migration!Goes(r, q)
        /\ UNCHANGED <<v1, v2, v3, v6, v7, v8, v9>>
      BY <1>3, MigrationRunIs DEF Migration!Acquire, Migration!Bounds
  <2> HIDE DEF q
  <2>3. Migration!Knows(q)
      BY <2>1 DEF Migration!Knows
  <2> QED
      BY <1>1, <2>1, <2>2, <2>3, MigrationRunIs, MigrationMoveStep DEF MigrationBusy
<1> QED
    BY <1>2, <1>3

\* A run ends, well or badly, and gives the lock back.
LEMMA MigrationEndStep ==
    ASSUME Migration!Bounds, Migration!Locked, NEW r \in Migrator, NEW q \in Migration!Runs, ~q.loose,
           Migration!Goes(r, q), q.step \in {"error", "done"},
           UNCHANGED <<v1, v2, v3, v6, v8>>, Migration!Release(r),
           v5[r].step \in MigrationBusy, v7 \subseteq v7', v7' \subseteq Collection \cup {"none"}, v9' \in 0..MaxFaults,
           v5[r].at \in v7' \/ v5[r].step \notin {"readd", "reindex"},
           q.step = "done" => \A c \in v1 : Migration!AllNew(c)
    PROVE  Migration!Locked'
<1>1. v4 = r /\ v4' = 0 /\ r # 0 /\ \A p \in Migrator \ {r} : v5[p].step \notin MigrationBusy
    BY MigrationRunIs DEF Migration!Release, Migration!Bounds
<1>2. Migration!Knows(q)
    BY DEF Migration!Knows
<1> QED
    BY <1>1, <1>2, MigrationRunIs, MigrationMoveStep DEF MigrationBusy, Migration!Bounds

LEMMA MigrationFailStep ==
    ASSUME Migration!Bounds, Migration!Locked, NEW r \in Migrator, Migration!Fail(r)
    PROVE  Migration!Locked'
<1> DEFINE q == [v5[r] EXCEPT !.step = "error"]
<1>1. q \in Migration!Runs /\ q.step = "error" /\ ~q.loose
    BY MigrationRunIs DEF Migration!Runs, Migration!Steps
<1>2. /\ Migration!Goes(r, q) /\ UNCHANGED <<v1, v2, v3, v6, v8>> /\ Migration!Release(r)
      /\ v5[r].step \in MigrationBusy /\ v9' \in 0..MaxFaults
      /\ v7' = IF v5[r].step \in {"readd", "reindex"} THEN v7 \cup {v5[r].at} ELSE v7
    BY MigrationRunIs DEF Migration!Fail, Migration!Astray, MigrationBusy, Migration!Bounds
<1>3. /\ v7 \subseteq v7' /\ v7' \subseteq Collection \cup {"none"}
      /\ v5[r].at \in v7' \/ v5[r].step \notin {"readd", "reindex"}
    BY <1>2, MigrationRunIs DEF Migration!Runs
<1> HIDE DEF q
<1> QED
    BY <1>1, <1>2, <1>3, MigrationEndStep

LEMMA MigrationExitStep ==
    ASSUME Migration!Bounds, Migration!Locked, NEW r \in Migrator, Migration!Exit(r)
    PROVE  Migration!Locked'
<1> DEFINE q == [v5[r] EXCEPT !.step = "done"]
<1>1. q \in Migration!Runs /\ q.step = "done" /\ ~q.loose
    BY MigrationRunIs DEF Migration!Runs, Migration!Steps
<1>2. /\ Migration!Goes(r, q)
      /\ UNCHANGED <<v1, v2, v3, v6, v7, v8, v9>>
      /\ Migration!Release(r)
      /\ v5[r].step = "next" /\ v5[r].todo = {}
    BY DEF Migration!Exit
<1>3. \A c \in v1 : Migration!AllNew(c)
    BY <1>2, MigrationRunIs DEF MigrationBusy
<1> HIDE DEF q
<1> QED
    BY <1>1, <1>2, <1>3, MigrationRunIs, MigrationEndStep DEF MigrationBusy

LEMMA MigrationInspectStep ==
    ASSUME Migration!Bounds, Migration!Locked, NEW r \in Migrator, NEW c \in Collection,
           Migration!Inspect(r, c)
    PROVE  Migration!Locked'
<1> DEFINE missing == {f \in Migration!Fields(c) : v2[c][f] = "none"}
           changed == {f \in Migration!Fields(c) : v2[c][f] = "old"}
           rest == [v5[r] EXCEPT !.todo = @ \ {c}]
<1>1. /\ v5[r].step = "next" /\ UNCHANGED <<v1, v2, v3, v6, v7, v8, v9>>
      /\ v5[r] \in Migration!Runs /\ v4 = r /\ c \in v5[r].todo /\ ~v5[r].loose
    BY MigrationRunIs DEF Migration!Inspect, MigrationBusy
<1>2. /\ rest \in Migration!Runs
      /\ rest.step = "next" /\ ~rest.loose
      /\ rest.todo = v5[r].todo \ {c}
      /\ rest.todo \in SUBSET Collection
    BY <1>1 DEF Migration!Runs
<1>3. missing = {} /\ changed = {} => Migration!AllNew(c)
    BY MigrationRunIs DEF Migration!AllNew
<1>4. missing \in SUBSET Migration!Fields(c) /\ changed \in SUBSET Migration!Fields(c)
    OBVIOUS
<1>5. \/ (c \notin v1 \/ missing \cup changed = {}) /\ Migration!Goes(r, rest) /\ UNCHANGED v4
      \/ Migration!Goes(r, [rest EXCEPT !.step = "error"]) /\ Migration!Release(r)
      \/ /\ c \in v1
         /\ Migration!Goes(r, [step |-> "add", todo |-> rest.todo, at |-> c, missing |-> missing,
                               changed |-> changed, loose |-> v5[r].loose])
         /\ UNCHANGED v4
    BY DEF Migration!Inspect
<1> HIDE DEF rest
<1>6. \A d \in v1 \ rest.todo : d = c \/ Migration!AllNew(d)
    BY <1>1, <1>2, MigrationRunIs DEF MigrationBusy
<1>7. CASE /\ (c \notin v1 \/ missing \cup changed = {})
           /\ Migration!Goes(r, rest)
           /\ UNCHANGED v4
  <2>1. \A d \in v1 \ rest.todo : Migration!AllNew(d)
      BY <1>3, <1>6, <1>7
  <2>2. Migration!Knows(rest)
      BY <1>2 DEF Migration!Knows
  <2> QED
      BY <1>1, <1>2, <1>7, <2>1, <2>2, MigrationRunIs, MigrationMoveStep DEF MigrationBusy
<1>8. CASE Migration!Goes(r, [rest EXCEPT !.step = "error"]) /\ Migration!Release(r)
  <2> DEFINE q == [rest EXCEPT !.step = "error"]
  <2>1. q \in Migration!Runs /\ q.step = "error" /\ ~q.loose
      BY <1>2 DEF Migration!Runs, Migration!Steps
  <2> HIDE DEF q
  <2> QED
      BY <1>1, <1>8, <2>1, MigrationRunIs, MigrationEndStep DEF q, MigrationBusy
<1>9. CASE /\ c \in v1
           /\ Migration!Goes(r, [step |-> "add", todo |-> rest.todo, at |-> c, missing |-> missing,
                               changed |-> changed, loose |-> v5[r].loose])
           /\ UNCHANGED v4
  <2> DEFINE q == [step |-> "add", todo |-> rest.todo, at |-> c, missing |-> missing,
                               changed |-> changed, loose |-> v5[r].loose]
  <2>1. q \in Migration!Runs /\ ~q.loose
      BY <1>1, <1>2, <1>4 DEF Migration!Runs, Migration!Steps
  <2>2. Migration!Knows(q)
      BY <1>9 DEF Migration!Knows
  <2>3. q.step = "add" /\ q.at = c /\ \A d \in v1 \ q.todo : Migration!AllNew(d) \/ d = c
      BY <1>6
  <2>4. Migration!Goes(r, q)
      BY <1>9
  <2> HIDE DEF q
  <2> QED
      BY <1>1, <1>9, <2>1, <2>2, <2>3, <2>4, MigrationRunIs, MigrationMoveStep
         DEF MigrationBusy
<1> QED
    BY <1>5, <1>7, <1>8, <1>9

\* The run that has the lock changes fields of the collection it is at.
LEMMA MigrationChangeStep ==
    ASSUME Migration!Bounds, Migration!Locked, NEW r \in Migrator, NEW q \in Migration!Runs, ~q.loose,
           Migration!Goes(r, q),
           UNCHANGED <<v1, v4, v6, v7, v8, v9>>,
           v5[r].step \in {"add", "drop", "readd", "reindex"},
           q.step \in {"next", "drop", "readd", "reindex"},
           q.todo = v5[r].todo, q.at = v5[r].at,
           DOMAIN v2' = Collection, DOMAIN v3' = Collection,
           \A d \in Collection : v3'[d] \subseteq Migration!Fields(d),
           \A d \in Collection : \A f \in Migration!Fields(d) :
              /\ v2'[d][f] \in {"none", "old", "new"}
              /\ d # q.at => v2'[d][f] = v2[d][f],
           \A d \in Collection \ {q.at} : v3'[d] = v3[d],
           Migration!Knows(q)', q.step = "next" => Migration!AllNew(q.at)' /\ Migration!Kept(q.at)',
           q.step = "drop" => v3' = v3 /\ v5[r].step = "add",
           Migration!AllNew(q.at) => Migration!AllNew(q.at)'
    PROVE  Migration!Locked'
<1>1. /\ v4 = r /\ r # 0 /\ \A p \in Migrator \ {r} : v5[p].step \notin MigrationBusy
      /\ q.at \in v1 /\ q.at \in Collection
    BY MigrationRunIs DEF MigrationBusy, Migration!Bounds, Migration!Knows
<1>2. \A d \in Collection \ {q.at} : (Migration!AllNew(d)' <=> Migration!AllNew(d)) /\ (Migration!Kept(d)' <=> Migration!Kept(d))
    BY DEF Migration!AllNew, Migration!Kept
<1>3. \A d \in Collection : Migration!Kept(d)' \/ (q.step \in {"readd", "reindex"} /\ q.at = d)
          \/ \E p \in Migrator \ {r} : v5[p].step \in {"readd", "reindex"} /\ v5[p].at = d
  <2> SUFFICES ASSUME NEW d \in Collection, ~ Migration!Kept(d)'
               PROVE  \/ q.step \in {"readd", "reindex"} /\ q.at = d
                      \/ \E p \in Migrator \ {r} : v5[p].step \in {"readd", "reindex"} /\ v5[p].at = d
      OBVIOUS
  <2>1. CASE d # q.at
      BY <1>2, <2>1, MigrationRunIs
  <2>2. CASE d = q.at /\ q.step = "drop"
    <3>1. ~ Migration!Kept(d)
        BY <2>2 DEF Migration!Kept
    <3> QED
        BY <1>1, <2>2, <3>1, MigrationRunIs DEF MigrationBusy
  <2> QED
      BY <2>1, <2>2
<1>4. q.step \in MigrationBusy => \A d \in v1 \ q.todo : Migration!AllNew(d)' \/ (q.step # "next" /\ q.at = d)
    BY <1>1, <1>2, MigrationRunIs DEF MigrationBusy
<1>5. q.step = "done" \/ (\E p \in Migrator : v5[p].step = "done") => \A d \in v1 : Migration!AllNew(d)'
    BY <1>1, <1>2, MigrationRunIs
<1> QED
    BY <1>1, <1>3, <1>4, <1>5, MigrationRunIs, MigrationRunStep DEF MigrationBusy

LEMMA MigrationAddMissingStep ==
    ASSUME Migration!Bounds, Migration!Locked, NEW r \in Migrator, Migration!AddMissing(r)
    PROVE  Migration!Locked'
<1>0. PICK c, q :
           c = v5[r].at /\ q = [v5[r] EXCEPT !.step = IF v5[r].changed = {} THEN "next" ELSE "drop"]
    OBVIOUS
<1>1. /\ v5[r].step = "add"
      /\ Migration!SetFields(c, v5[r].missing, "new")
      /\ Migration!Goes(r, q)
      /\ UNCHANGED <<v1, v3, v4, v6, v7, v8, v9>>
    BY <1>0 DEF Migration!AddMissing
<1>2. /\ v5[r] \in Migration!Runs
      /\ c \in v1
      /\ c \in Collection
      /\ v5[r].changed \subseteq Migration!Fields(c)
      /\ v5[r].missing = {f \in Migration!Fields(c) : v2[c][f] = "none"}
      /\ v5[r].changed = {f \in Migration!Fields(c) : v2[c][f] = "old"}
    BY <1>0, <1>1, MigrationRunIs DEF Migration!Knows
<1>3. /\ q \in Migration!Runs /\ ~q.loose
      /\ q.step \in {"next", "drop"}
      /\ (q.step = "next" <=> v5[r].changed = {})
      /\ q.at = c /\ q.todo = v5[r].todo /\ q.changed = v5[r].changed
    BY <1>0, <1>2, MigrationRunIs DEF Migration!Runs, Migration!Steps
<1>4. /\ DOMAIN v2' = Collection
      /\ \A d \in Collection : \A f \in Migration!Fields(d) :
            /\ v2'[d][f] \in {"none", "old", "new"}
            /\ d # c => v2'[d][f] = v2[d][f]
      /\ \A f \in Migration!Fields(c) : v2'[c][f] = IF v2[c][f] = "none" THEN "new" ELSE v2[c][f]
    BY <1>1, <1>2, MigrationFieldsAre DEF Migration!Locked
<1>5. \A f \in Migration!Fields(c) : v2[c][f] \in {"none", "old", "new"}
    BY <1>2, MigrationRunIs
<1>6. Migration!Knows(q)'
    BY <1>1, <1>2, <1>3, <1>4, <1>5 DEF Migration!Knows
<1>7. Migration!Kept(c)'
  <2>1. Migration!Kept(c)
      BY <1>0, <1>1, <1>2, MigrationRunIs DEF MigrationBusy
  <2> QED
      BY <1>1, <2>1 DEF Migration!Kept
<1>8. q.step = "next" => Migration!AllNew(c)'
    BY <1>2, <1>3, <1>4, <1>5 DEF Migration!AllNew
<1>9. Migration!AllNew(c) => Migration!AllNew(c)'
    BY <1>4 DEF Migration!AllNew
<1>10. q.at = v5[r].at
    BY <1>0, <1>3
<1> QED
    BY <1>1, <1>3, <1>4, <1>6, <1>7, <1>8, <1>9, <1>10, MigrationRunIs, MigrationChangeStep

LEMMA MigrationDropChangedStep ==
    ASSUME Migration!Bounds, Migration!Locked, NEW r \in Migrator, Migration!DropChanged(r)
    PROVE  Migration!Locked'
<1>0. PICK c, q : c = v5[r].at /\ q = [v5[r] EXCEPT !.step = "readd"]
    OBVIOUS
<1>1. /\ v5[r].step = "drop"
      /\ Migration!SetFields(c, v5[r].changed, "none")
      /\ Migration!Goes(r, q)
      /\ v3' = [v3 EXCEPT ![c] = @ \ v5[r].changed]
      /\ UNCHANGED <<v1, v4, v6, v7, v8, v9>>
    BY <1>0 DEF Migration!DropChanged
<1>2. /\ v5[r] \in Migration!Runs
      /\ c \in v1
      /\ c \in Collection
      /\ v5[r].changed \subseteq Migration!Fields(c)
      /\ \A f \in Migration!Fields(c) : v2[c][f] = IF f \in v5[r].changed THEN "old" ELSE "new"
      /\ v5[r].changed # {}
    BY <1>0, <1>1, MigrationRunIs DEF Migration!Knows
<1>3. /\ q \in Migration!Runs /\ ~q.loose /\ q.step = "readd" /\ q.at = c /\ q.todo = v5[r].todo
      /\ q.changed = v5[r].changed
    BY <1>0, <1>2, MigrationRunIs DEF Migration!Runs, Migration!Steps
<1>4. /\ DOMAIN v2' = Collection
      /\ \A d \in Collection : \A f \in Migration!Fields(d) :
            /\ v2'[d][f] \in {"none", "old", "new"}
            /\ d # c => v2'[d][f] = v2[d][f]
      /\ \A f \in Migration!Fields(c) : v2'[c][f] = IF f \in v5[r].changed THEN "none" ELSE "new"
    BY <1>1, <1>2, MigrationFieldsAre DEF Migration!Locked
<1>5. ~ Migration!AllNew(c)
    BY <1>2 DEF Migration!AllNew
<1>6. /\ DOMAIN v3' = Collection /\ \A d \in Collection : v3'[d] \subseteq Migration!Fields(d)
      /\ \A d \in Collection \ {c} : v3'[d] = v3[d]
    BY <1>1, <1>2, MigrationRunIs
<1>7. Migration!Knows(q)'
    BY <1>1, <1>2, <1>3, <1>4 DEF Migration!Knows
<1>8. q.at = v5[r].at
    BY <1>0, <1>3
<1> QED
    BY <1>1, <1>3, <1>4, <1>5, <1>6, <1>7, <1>8, MigrationChangeStep

LEMMA MigrationAddChangedStep ==
    ASSUME Migration!Bounds, Migration!Locked, NEW r \in Migrator, Migration!AddChanged(r)
    PROVE  Migration!Locked'
<1>0. PICK c, q : c = v5[r].at /\ q = [v5[r] EXCEPT !.step = "reindex"]
    OBVIOUS
<1>1. /\ v5[r].step = "readd"
      /\ Migration!SetFields(c, v5[r].changed, "new")
      /\ Migration!Goes(r, q)
      /\ UNCHANGED <<v1, v3, v4, v6, v7, v8, v9>>
    BY <1>0 DEF Migration!AddChanged
<1>2. /\ v5[r] \in Migration!Runs
      /\ c \in v1
      /\ c \in Collection
      /\ v5[r].changed \subseteq Migration!Fields(c)
      /\ \A f \in Migration!Fields(c) \ v5[r].changed : v2[c][f] = "new"
    BY <1>0, <1>1, MigrationRunIs DEF Migration!Knows
<1>3. /\ q \in Migration!Runs /\ ~q.loose /\ q.step = "reindex" /\ q.at = c /\ q.todo = v5[r].todo
      /\ q.changed = v5[r].changed
    BY <1>0, <1>2, MigrationRunIs DEF Migration!Runs, Migration!Steps
<1>4. /\ DOMAIN v2' = Collection
      /\ \A d \in Collection : \A f \in Migration!Fields(d) :
            /\ v2'[d][f] \in {"none", "old", "new"}
            /\ d # c => v2'[d][f] = v2[d][f]
      /\ \A f \in Migration!Fields(c) : v2'[c][f] = "new"
    BY <1>1, <1>2, MigrationFieldsAre DEF Migration!Locked
<1>5. Migration!Knows(q)' /\ Migration!AllNew(c)'
    BY <1>1, <1>2, <1>3, <1>4 DEF Migration!Knows, Migration!AllNew
<1>6. q.at = v5[r].at
    BY <1>0, <1>3
<1> QED
    BY <1>1, <1>3, <1>4, <1>5, <1>6, MigrationRunIs, MigrationChangeStep

LEMMA MigrationReindexStep ==
    ASSUME Migration!Bounds, Migration!Locked, NEW r \in Migrator, Migration!Reindex(r)
    PROVE  Migration!Locked'
<1>0. PICK c, q : c = v5[r].at /\ q = [v5[r] EXCEPT !.step = "next"]
    OBVIOUS
<1>1. /\ v5[r].step = "reindex" /\ Migration!Goes(r, q)
      /\ v3' = IF c \in Reimported THEN [v3 EXCEPT ![c] = Migration!Fields(c)] ELSE v3
      /\ UNCHANGED <<v1, v2, v4, v6, v7, v8, v9>>
    BY <1>0 DEF Migration!Reindex
<1>2. v5[r] \in Migration!Runs /\ c \in v1 /\ c \in Collection /\ Migration!AllNew(c)
    BY <1>0, <1>1, MigrationRunIs DEF Migration!Knows
<1>3. /\ q \in Migration!Runs /\ ~q.loose /\ q.step = "next"
      /\ q.at = c /\ q.todo = v5[r].todo
    BY <1>0, <1>2, MigrationRunIs DEF Migration!Runs, Migration!Steps
<1>4. /\ DOMAIN v3' = Collection /\ \A d \in Collection : v3'[d] \subseteq Migration!Fields(d)
      /\ \A d \in Collection \ {c} : v3'[d] = v3[d]
      /\ c \in Reimported => v3'[c] = Migration!Fields(c)
    BY <1>1, <1>2, MigrationRunIs
<1>5. Migration!Knows(q)' /\ Migration!AllNew(c)' /\ Migration!Kept(c)'
    BY <1>1, <1>2, <1>3, <1>4 DEF Migration!Knows, Migration!AllNew, Migration!Kept,
       Migration!Fields
<1>6. q.at = v5[r].at
    BY <1>0, <1>3
<1> QED
    BY <1>1, <1>3, <1>4, <1>5, <1>6, MigrationRunIs, MigrationChangeStep

\* A server moves; a collection it creates has all fields, with their values.
LEMMA MigrationServerStep ==
    ASSUME Migration!Bounds, Migration!Locked, NEW s \in Replica,
           NEW q \in [step : {"boot", "create", "failed"}, todo : SUBSET Collection,
                      at : Collection \cup {"none"}],
           Migration!Stands(s, q), UNCHANGED <<v4, v5, v7>>, v9' \in 0..MaxFaults,
           q.step = "create" => q.at \in Collection,
           v1 \subseteq v1', v1' \subseteq Collection, v8' \subseteq v1',
           DOMAIN v2' = Collection, DOMAIN v3' = Collection,
           \A d \in Collection : v3'[d] \subseteq Migration!Fields(d),
           \A d \in Collection : \A f \in Migration!Fields(d) : v2'[d][f] \in {"none", "old", "new"},
           \A d \in v1 : \A f \in Migration!Fields(d) : v2'[d][f] = v2[d][f],
           \A d \in v1' \ v1 : \A f \in Migration!Fields(d) : v2'[d][f] = "new",
           \A d \in Collection : v3'[d] = v3[d] \/ v3'[d] = Migration!Fields(d)
    PROVE  Migration!Locked'
<1>1. /\ v6' \in [Replica -> [step : {"boot", "create", "failed"}, todo : SUBSET Collection,
                                 at : Collection \cup {"none"}]]
      /\ \A z \in Replica : v6'[z].step = "create" => v6'[z].at \in Collection
    BY DEF Migration!Stands, Migration!Locked, Migration!TypesAre, Migration!Astray
<1>2. Migration!TypeOK'
    BY <1>1 DEF Migration!Locked, Migration!TypesAre, Migration!Astray, Migration!TypeOK
<1>3. /\ \A d \in v1 : Migration!AllNew(d) => Migration!AllNew(d)'
      /\ \A d \in v1' \ v1 : Migration!AllNew(d)'
      /\ \A d \in Collection : Migration!Kept(d) => Migration!Kept(d)'
    BY DEF Migration!AllNew, Migration!Kept, Migration!Fields
<1>4. \A r \in Migrator : Migration!Knows(v5[r])'
  <2> SUFFICES ASSUME NEW r \in Migrator PROVE Migration!Knows(v5[r])'
      OBVIOUS
  <2>1. Migration!Knows(v5[r]) /\ v5' = v5
      BY MigrationRunIs
  <2>2. CASE v5[r].step \in {"add", "drop", "readd", "reindex"}
      BY <1>3, <2>1, <2>2 DEF Migration!Knows
  <2>3. CASE v5[r].step \notin {"add", "drop", "readd", "reindex"}
      BY <2>1, <2>3 DEF Migration!Knows
  <2> QED
      BY <2>2, <2>3
<1>5. Migration!Migrating' = Migration!Migrating
    BY DEF Migration!Migrating
<1> QED
    BY <1>1, <1>2, <1>3, <1>4, <1>5 DEF Migration!Locked, Migration!TypesAre, Migration!Astray

LEMMA MigrationRetrieveStep ==
    ASSUME Migration!Bounds, Migration!Locked, NEW s \in Replica, NEW c \in Collection,
           NEW found \in BOOLEAN,
           Migration!Retrieve(s, c, found)
    PROVE  Migration!Locked'
<1> DEFINE q == [step |-> IF found THEN "boot" ELSE "create", todo |-> v6[s].todo \ {c}, at |-> c]
<1>1. /\ q \in [step : {"boot", "create", "failed"}, todo : SUBSET Collection,
               at : Collection \cup {"none"}]
      /\ q.at \in Collection
    BY DEF Migration!Locked, Migration!TypesAre, Migration!Astray
<1>2. /\ Migration!Stands(s, q) /\ UNCHANGED <<v1, v2, v3, v4, v5, v7, v8>>
      /\ v9' \in 0..MaxFaults
    BY DEF Migration!Retrieve, Migration!Locked, Migration!TypesAre, Migration!Astray, Migration!TypeOK, Migration!Bounds
<1> HIDE DEF q
<1>3. /\ DOMAIN v2 = Collection /\ DOMAIN v3 = Collection
      /\ v1 \subseteq Collection /\ v8 \subseteq v1
      /\ \A d \in Collection : v3[d] \subseteq Migration!Fields(d)
      /\ \A d \in Collection : \A f \in Migration!Fields(d) : v2[d][f] \in {"none", "old", "new"}
    BY DEF Migration!Locked, Migration!TypesAre, Migration!Astray, Migration!TypeOK
<1> QED
    BY <1>1, <1>2, <1>3, MigrationServerStep

LEMMA MigrationCreateStep ==
    ASSUME Migration!Bounds, Migration!Locked, NEW s \in Replica, Migration!Create(s)
    PROVE  Migration!Locked'
<1> DEFINE c == v6[s].at
<1>1. /\ DOMAIN v2 = Collection /\ DOMAIN v3 = Collection
      /\ v1 \subseteq Collection /\ v8 \subseteq v1 /\ v9 \in 0..MaxFaults
      /\ \A d \in Collection : v3[d] \subseteq Migration!Fields(d)
      /\ \A d \in Collection : \A f \in Migration!Fields(d) : v2[d][f] \in {"none", "old", "new"}
      /\ c \in Collection /\ UNCHANGED <<v4, v5, v7, v9>>
      /\ v6[s] \in [step : {"boot", "create", "failed"}, todo : SUBSET Collection,
                        at : Collection \cup {"none"}]
    BY DEF Migration!Locked, Migration!TypesAre, Migration!Astray, Migration!TypeOK, Migration!Create
<1>2. CASE c \in v1
  <2> DEFINE q == [v6[s] EXCEPT !.step = "failed"]
  <2>1. /\ q \in [step : {"boot", "create", "failed"}, todo : SUBSET Collection,
                 at : Collection \cup {"none"}]
        /\ q.step = "failed"
      BY <1>1
  <2>2. Migration!Stands(s, q) /\ UNCHANGED <<v1, v2, v3, v8>>
      BY <1>2 DEF Migration!Create
  <2> HIDE DEF q
  <2> QED
      BY <1>1, <2>1, <2>2, MigrationServerStep
<1>3. CASE c \notin v1
  <2> DEFINE q == [v6[s] EXCEPT !.step = "boot"]
  <2>1. /\ q \in [step : {"boot", "create", "failed"}, todo : SUBSET Collection,
                 at : Collection \cup {"none"}]
        /\ q.step = "boot"
      BY <1>1
  <2>2. /\ Migration!Stands(s, q) /\ v1' = v1 \cup {c} /\ v8' = v8 \cup {c}
        /\ Migration!SetFields(c, Migration!Fields(c), "new")
        /\ v3' = [v3 EXCEPT ![c] = Migration!Fields(c)]
      BY <1>3 DEF Migration!Create
  <2> HIDE DEF q, c
  <2>3. /\ DOMAIN v2' = Collection
        /\ \A d \in Collection : \A f \in Migration!Fields(d) :
              /\ v2'[d][f] \in {"none", "old", "new"}
              /\ d # c => v2'[d][f] = v2[d][f]
              /\ d = c => v2'[d][f] = "new"
      BY <1>1, <2>2, MigrationFieldsAre DEF Migration!Locked
  <2>4. /\ v1 \subseteq v1' /\ v1' \subseteq Collection /\ v8' \subseteq v1'
        /\ v1' \ v1 = {c} /\ DOMAIN v3' = Collection
        /\ \A d \in Collection : v3'[d] = v3[d] \/ v3'[d] = Migration!Fields(d)
        /\ \A d \in Collection : v3'[d] \subseteq Migration!Fields(d)
        /\ \A d \in v1 : d # c
      BY <1>1, <1>3, <2>2 DEF c
  <2>5. /\ \A d \in Collection : \A f \in Migration!Fields(d) : v2'[d][f] \in {"none", "old", "new"}
        /\ \A d \in v1 : \A f \in Migration!Fields(d) : v2'[d][f] = v2[d][f]
        /\ \A d \in v1' \ v1 : \A f \in Migration!Fields(d) : v2'[d][f] = "new"
      BY <1>1, <2>3, <2>4
  <2> QED
      BY <1>1, <2>1, <2>2, <2>3, <2>4, <2>5, MigrationServerStep
<1> QED
    BY <1>2, <1>3

\* Types do not need the lock.
LEMMA MigrationRunTypes ==
    ASSUME Migration!TypesAre, NEW r \in Migrator, NEW q \in Migration!Runs,
           Migration!Goes(r, q), UNCHANGED <<v1, v6, v8>>,
           v4' \in Migrator \cup {0}, v7' \subseteq Collection \cup {"none"}, v9' \in 0..MaxFaults,
           DOMAIN v2' = Collection, DOMAIN v3' = Collection,
           \A c \in Collection : v3'[c] \subseteq Migration!Fields(c),
           \A c \in Collection : \A f \in Migration!Fields(c) : v2'[c][f] \in {"none", "old", "new"}
    PROVE  Migration!TypesAre'
<1>1. v5' \in [Migrator -> Migration!Runs]
    BY DEF Migration!Goes, Migration!TypesAre
<1>2. Migration!TypeOK'
    BY DEF Migration!TypesAre, Migration!TypeOK
<1> QED
    BY <1>1, <1>2 DEF Migration!TypesAre

\* What the types say, and that of a run whose step is another.
LEMMA MigrationTypesSay ==
    ASSUME Migration!TypesAre, NEW r \in Migrator
    PROVE  /\ v1 \subseteq Collection /\ DOMAIN v2 = Collection /\ DOMAIN v3 = Collection
           /\ \A c \in Collection : v3[c] \subseteq Migration!Fields(c)
           /\ \A c \in Collection : \A f \in Migration!Fields(c) : v2[c][f] \in {"none", "old", "new"}
           /\ v4 \in Migrator \cup {0} /\ v7 \subseteq Collection \cup {"none"} /\ v9 \in 0..MaxFaults
           /\ v5[r] \in Migration!Runs /\ v5[r].at \in Collection \cup {"none"}
           /\ \A step \in Migration!Steps : [v5[r] EXCEPT !.step = step] \in Migration!Runs
           /\ [v5[r] EXCEPT !.loose = TRUE] \in Migration!Runs
<1>1. v5[r] \in Migration!Runs
    BY DEF Migration!TypesAre
<1> QED
    BY <1>1 DEF Migration!TypesAre, Migration!TypeOK, Migration!Runs

LEMMA MigrationInspectTypes ==
    ASSUME Migration!Bounds, Migration!TypesAre, NEW r \in Migrator, NEW c \in Collection,
           Migration!Inspect(r, c)
    PROVE  Migration!TypesAre'
<1> DEFINE missing == {f \in Migration!Fields(c) : v2[c][f] = "none"}
           changed == {f \in Migration!Fields(c) : v2[c][f] = "old"}
           rest == [v5[r] EXCEPT !.todo = @ \ {c}]
           failed == [rest EXCEPT !.step = "error"]
           begun == [step |-> "add", todo |-> rest.todo, at |-> c, missing |-> missing,
                     changed |-> changed, loose |-> v5[r].loose]
<1>1. rest \in Migration!Runs /\ rest.todo \in SUBSET Collection
    BY MigrationTypesSay DEF Migration!Runs
<1>2. missing \in SUBSET Migration!Fields(c) /\ changed \in SUBSET Migration!Fields(c)
    OBVIOUS
<1>3. /\ v4' \in {v4, 0} /\ UNCHANGED <<v1, v2, v3, v6, v7, v8, v9>>
      /\ Migration!Goes(r, rest) \/ Migration!Goes(r, failed) \/ Migration!Goes(r, begun)
    BY DEF Migration!Inspect, Migration!Release
<1> HIDE DEF rest
<1>4. failed \in Migration!Runs
    BY <1>1 DEF Migration!Runs, Migration!Steps
<1> HIDE DEF missing, changed
<1>5. begun \in Migration!Runs
  <2>1. v5[r].loose \in BOOLEAN
      BY MigrationTypesSay DEF Migration!Runs
  <2>2. /\ missing \in SUBSET UNION {Migration!Fields(d) : d \in Collection}
        /\ changed \in SUBSET UNION {Migration!Fields(d) : d \in Collection}
      BY <1>2
  <2> QED
      BY <1>1, <2>1, <2>2 DEF Migration!Runs, Migration!Steps
<1> HIDE DEF failed, begun
<1> QED
    BY <1>1, <1>3, <1>4, <1>5, MigrationTypesSay, MigrationRunTypes

\* A step of a run keeps the types whoever has the lock, and a run that has gone on
\* without it is not forgotten.
LEMMA MigrationRunKeepsTypes ==
    ASSUME Migration!Bounds, Migration!TypesAre, NEW r \in Migrator,
           \/ Migration!Acquire(r) \/ Migration!AddMissing(r) \/ Migration!DropChanged(r)
           \/ Migration!AddChanged(r) \/ Migration!Reindex(r) \/ Migration!Exit(r)
           \/ Migration!Fail(r) \/ Migration!LoseLock(r)
    PROVE  Migration!TypesAre'
<1>1. /\ v1 \subseteq Collection /\ DOMAIN v2 = Collection /\ DOMAIN v3 = Collection
      /\ \A c \in Collection : v3[c] \subseteq Migration!Fields(c)
      /\ \A c \in Collection : \A f \in Migration!Fields(c) : v2[c][f] \in {"none", "old", "new"}
      /\ v4 \in Migrator \cup {0} /\ v7 \subseteq Collection \cup {"none"} /\ v9 \in 0..MaxFaults
      /\ v5[r].at \in Collection \cup {"none"}
    BY MigrationTypesSay
<1>2. PICK q \in Migration!Runs : Migration!Goes(r, q)
  <2>1. \A step \in Migration!Steps : [v5[r] EXCEPT !.step = step] \in Migration!Runs
      BY MigrationTypesSay
  <2>2. {"next", "left", "drop", "readd", "reindex", "done", "error"} \subseteq Migration!Steps
      BY DEF Migration!Steps
  <2>3. [v5[r] EXCEPT !.loose = TRUE] \in Migration!Runs
      BY MigrationTypesSay
  <2> QED
      BY <2>1, <2>2, <2>3 DEF Migration!Acquire, Migration!AddMissing, Migration!DropChanged,
         Migration!AddChanged, Migration!Reindex, Migration!Exit, Migration!Fail,
         Migration!LoseLock
<1>3. UNCHANGED <<v1, v6, v8>>
    BY DEF Migration!Acquire, Migration!AddMissing, Migration!DropChanged, Migration!AddChanged,
       Migration!Reindex, Migration!Exit, Migration!Fail, Migration!LoseLock
<1>4. v4' \in Migrator \cup {0} /\ v7' \subseteq Collection \cup {"none"} /\ v9' \in 0..MaxFaults
  <2>1. v4' \in Migrator \cup {0}
      BY <1>1 DEF Migration!Acquire, Migration!AddMissing, Migration!DropChanged,
         Migration!AddChanged, Migration!Reindex, Migration!Exit, Migration!Fail,
         Migration!LoseLock, Migration!Release
  <2>2. v7' \in {v7, v7 \cup {v5[r].at}}
      BY DEF Migration!Acquire, Migration!AddMissing, Migration!DropChanged,
         Migration!AddChanged, Migration!Reindex, Migration!Exit, Migration!Fail,
         Migration!LoseLock
  <2>3. v9' = v9 \/ (v9 < MaxFaults /\ v9' = v9 + 1)
      BY DEF Migration!Acquire, Migration!AddMissing, Migration!DropChanged,
         Migration!AddChanged, Migration!Reindex, Migration!Exit, Migration!Fail,
         Migration!LoseLock
  <2> QED
      BY <1>1, <2>1, <2>2, <2>3 DEF Migration!Bounds
<1>5. /\ DOMAIN v2' = Collection
      /\ \A c \in Collection : \A f \in Migration!Fields(c) : v2'[c][f] \in {"none", "old", "new"}
  <2>1. CASE UNCHANGED v2
      BY <1>1, <2>1
  <2>2. CASE \E c, fields : \E state \in {"none", "new"} : Migration!SetFields(c, fields, state)
      BY <2>2, MigrationFieldsAre
  <2> QED
      BY <2>1, <2>2 DEF Migration!Acquire, Migration!AddMissing, Migration!DropChanged,
         Migration!AddChanged, Migration!Reindex, Migration!Exit, Migration!Fail,
         Migration!LoseLock
<1>6. /\ DOMAIN v3' = Collection
      /\ \A c \in Collection : v3'[c] \subseteq Migration!Fields(c)
  <2>1. \/ UNCHANGED v3
        \/ v3' = [v3 EXCEPT ![v5[r].at] = @ \ v5[r].changed]
        \/ v3' = [v3 EXCEPT ![v5[r].at] = Migration!Fields(v5[r].at)]
      BY DEF Migration!Acquire, Migration!AddMissing, Migration!DropChanged,
         Migration!AddChanged, Migration!Reindex, Migration!Exit, Migration!Fail,
         Migration!LoseLock
  <2> QED
      BY <1>1, <2>1
<1> QED
    BY <1>2, <1>3, <1>4, <1>5, <1>6, MigrationRunTypes

\* The same of a server that starts.
LEMMA MigrationServerKeepsTypes ==
    ASSUME Migration!Bounds, Migration!TypesAre, NEW s \in Replica,
           \/ Migration!Create(s)
           \/ \E c \in Collection, found \in BOOLEAN : Migration!Retrieve(s, c, found)
    PROVE  Migration!TypesAre'
<1> DEFINE Servers == [step : {"boot", "create", "failed"}, todo : SUBSET Collection,
                       at : Collection \cup {"none"}]
<1>1. /\ v6 \in [Replica -> Servers] /\ v6[s] \in Servers
      /\ \A z \in Replica : v6[z].step = "create" => v6[z].at \in Collection
      /\ v1 \subseteq Collection /\ v8 \subseteq v1 /\ DOMAIN v3 = Collection
      /\ \A c \in Collection : v3[c] \subseteq Migration!Fields(c)
      /\ v9 \in 0..MaxFaults
    BY DEF Migration!TypesAre, Migration!TypeOK
<1>2. CASE Migration!Create(s)
  <2>1. UNCHANGED <<v4, v5, v7, v9>> /\ v6[s].at \in Collection
      BY <1>1, <1>2 DEF Migration!Create
  <2>2. /\ v6' \in [Replica -> Servers]
        /\ \A z \in Replica : v6'[z].step = "create" => v6'[z].at \in Collection
    <3>1. \A step \in {"boot", "failed"} :
             /\ [v6[s] EXCEPT !.step = step] \in Servers
             /\ [v6[s] EXCEPT !.step = step].step = step
        BY <1>1
    <3>2. PICK q \in Servers : q.step # "create" /\ v6' = [v6 EXCEPT ![s] = q]
        BY <1>2, <3>1 DEF Migration!Create, Migration!Stands
    <3> HIDE DEF Servers
    <3> QED
        BY <1>1, <3>2
  <2>3. \/ UNCHANGED <<v1, v2, v3, v8>>
        \/ /\ v1' = v1 \cup {v6[s].at} /\ v8' = v8 \cup {v6[s].at}
           /\ Migration!SetFields(v6[s].at, Migration!Fields(v6[s].at), "new")
           /\ v3' = [v3 EXCEPT ![v6[s].at] = Migration!Fields(v6[s].at)]
      BY <1>2 DEF Migration!Create
  <2>4. /\ DOMAIN v2' = Collection
        /\ \A c \in Collection : \A f \in Migration!Fields(c) : v2'[c][f] \in {"none", "old", "new"}
      BY <2>3, MigrationFieldsAre DEF Migration!TypesAre, Migration!TypeOK
  <2>5. /\ v1' \subseteq Collection /\ v8' \subseteq v1' /\ DOMAIN v3' = Collection
        /\ \A c \in Collection : v3'[c] \subseteq Migration!Fields(c)
      BY <1>1, <2>1, <2>3
  <2>6. Migration!TypeOK'
    <3>1. \A z \in Replica : v6'[z].step \in {"boot", "create", "failed"}
        BY <2>2
    <3> QED
        BY <2>1, <2>4, <2>5, <3>1 DEF Migration!TypesAre, Migration!TypeOK
  <2> QED
      BY <2>1, <2>2, <2>4, <2>5, <2>6 DEF Migration!TypesAre
<1>3. ASSUME NEW c \in Collection, NEW found \in BOOLEAN, Migration!Retrieve(s, c, found)
      PROVE  Migration!TypesAre'
  <2> DEFINE q == [step |-> IF found THEN "boot" ELSE "create", todo |-> v6[s].todo \ {c}, at |-> c]
  <2>1. q \in Servers /\ q.at \in Collection
      BY <1>1
  <2>2. /\ v6' = [v6 EXCEPT ![s] = q] /\ UNCHANGED <<v1, v2, v3, v4, v5, v7, v8>>
        /\ v9' = v9 \/ (v9 < MaxFaults /\ v9' = v9 + 1)
      BY <1>3 DEF Migration!Retrieve, Migration!Stands
  <2> HIDE DEF q
  <2>3. /\ v6' \in [Replica -> Servers]
        /\ \A z \in Replica : v6'[z].step = "create" => v6'[z].at \in Collection
        /\ \A z \in Replica : v6'[z].step \in {"boot", "create", "failed"}
    <3>1. v6' \in [Replica -> Servers] /\ \A z \in Replica : v6'[z] = v6[z] \/ v6'[z] = q
      <4> HIDE DEF Servers
      <4> QED
          BY <1>1, <2>1, <2>2
    <3> QED
        BY <1>1, <2>1, <3>1
  <2>4. v9' \in 0..MaxFaults
      BY <1>1, <2>2 DEF Migration!Bounds
  <2>5. Migration!TypeOK'
      BY <2>2, <2>3, <2>4 DEF Migration!TypesAre, Migration!TypeOK
  <2> QED
      BY <2>2, <2>3, <2>5 DEF Migration!TypesAre
<1> QED
    BY <1>2, <1>3

\* The lock is lost: the run that had it is astray.
LEMMA MigrationLoseLockStep ==
    ASSUME Migration!TypesAre, NEW r \in Migrator, Migration!LoseLock(r)
    PROVE  Migration!Astray'
<1>1. v5[r] \in Migration!Runs /\ v5' = [v5 EXCEPT ![r] = [v5[r] EXCEPT !.loose = TRUE]]
    BY MigrationTypesSay DEF Migration!LoseLock, Migration!Goes
<1>2. v5'[r].loose
    BY <1>1 DEF Migration!TypesAre, Migration!Runs
<1> QED
    BY <1>2 DEF Migration!Astray

\* No step forgets it.
LEMMA MigrationStaysAstray ==
    ASSUME Migration!TypesAre, Migration!Astray, Migration!Next PROVE Migration!Astray'
<1>1. PICK p \in Migrator : v5[p].loose
    BY DEF Migration!Astray
<1>2. v5 \in [Migrator -> Migration!Runs]
    BY DEF Migration!TypesAre
<1>3. CASE UNCHANGED v5
    BY <1>1, <1>3 DEF Migration!Astray
<1>4. ASSUME NEW r \in Migrator, NEW q, Migration!Goes(r, q), v5[r].loose => q.loose
      PROVE  Migration!Astray'
    BY <1>1, <1>2, <1>4 DEF Migration!Goes, Migration!Astray
<1>5. ASSUME NEW r \in Migrator
      PROVE  /\ v5[r] \in Migration!Runs
             /\ \A step : [v5[r] EXCEPT !.step = step].loose = v5[r].loose
             /\ [v5[r] EXCEPT !.loose = TRUE].loose = TRUE
             /\ \A c : [v5[r] EXCEPT !.todo = @ \ {c}].loose = v5[r].loose
             /\ \A c : [[v5[r] EXCEPT !.todo = @ \ {c}] EXCEPT !.step = "error"].loose = v5[r].loose
    BY <1>2 DEF Migration!Runs
<1>6. ASSUME NEW r \in Migrator,
             \/ Migration!Acquire(r) \/ Migration!AddMissing(r) \/ Migration!DropChanged(r)
             \/ Migration!AddChanged(r) \/ Migration!Reindex(r) \/ Migration!Exit(r)
             \/ Migration!Fail(r) \/ Migration!LoseLock(r)
      PROVE  Migration!Astray'
    BY <1>4, <1>5, <1>6 DEF Migration!Acquire, Migration!AddMissing, Migration!DropChanged,
       Migration!AddChanged, Migration!Reindex, Migration!Exit, Migration!Fail,
       Migration!LoseLock
<1>7. ASSUME NEW r \in Migrator, NEW c \in Collection, Migration!Inspect(r, c)
      PROVE  Migration!Astray'
    BY <1>4, <1>5, <1>7 DEF Migration!Inspect
<1>8. ASSUME NEW s \in Replica,
             \/ Migration!Create(s)
             \/ \E c \in Collection, found \in BOOLEAN : Migration!Retrieve(s, c, found)
      PROVE  UNCHANGED v5
    BY <1>8 DEF Migration!Create, Migration!Retrieve
<1> QED
    BY <1>3, <1>6, <1>7, <1>8 DEF Migration!Next

LEMMA MigrationTypesInductive ==
    ASSUME Migration!Bounds, Migration!TypesAre, Migration!Next PROVE Migration!TypesAre'
    BY MigrationRunKeepsTypes, MigrationInspectTypes, MigrationServerKeepsTypes
    DEF Migration!Next

LEMMA MigrationLockedStep ==
    ASSUME Migration!Bounds, Migration!Locked, Migration!Next
    PROVE  Migration!Locked' \/ Migration!Astray'
    BY MigrationAcquireStep, MigrationInspectStep, MigrationAddMissingStep,
       MigrationDropChangedStep, MigrationAddChangedStep, MigrationReindexStep,
       MigrationExitStep, MigrationFailStep, MigrationLoseLockStep,
       MigrationCreateStep, MigrationRetrieveStep DEF Migration!Next, Migration!Locked

LEMMA MigrationInductive ==
    ASSUME Migration!Bounds
    PROVE  Migration!IInv /\ [Migration!Next]_(Migration!vars) => Migration!IInv'
<1> SUFFICES ASSUME Migration!IInv, [Migration!Next]_(Migration!vars) PROVE Migration!IInv'
    OBVIOUS
<1>1. CASE UNCHANGED Migration!vars
  <2>1. UNCHANGED <<v1, v2, v3, v4, v5, v6, v7, v8, v9>>
      BY <1>1 DEF Migration!vars
  <2>2. Migration!TypesAre'
      BY <2>1 DEF Migration!IInv, Migration!TypesAre, Migration!TypeOK
  <2>3. Migration!Astray' \/ Migration!Locked'
      BY <2>1, <2>2 DEF Migration!IInv, Migration!Locked, Migration!Astray,
         Migration!Migrating, Migration!Knows, Migration!AllNew, Migration!Kept
  <2> QED
      BY <2>2, <2>3 DEF Migration!IInv
<1>2. CASE Migration!Next
    BY <1>2, MigrationTypesInductive, MigrationStaysAstray, MigrationLockedStep
    DEF Migration!IInv
<1> QED
    BY <1>1, <1>2

LEMMA MigrationProperties ==
    ASSUME Migration!Bounds
    PROVE  Migration!IInv => Migration!TypeOK /\ Migration!MigratedOnce
<1> SUFFICES ASSUME Migration!IInv, ~Migration!Astray PROVE Migration!MigratedOnce
    BY DEF Migration!IInv, Migration!TypesAre, Migration!MigratedOnce
<1> Migration!Locked
    BY DEF Migration!IInv
<1>1. \A r \in Migration!Migrating : v4 = r
    BY DEF Migration!Locked, Migration!Migrating
<1>2. ASSUME Migration!Migrating = {}, NEW r \in Migrator, v5[r].step = "done", NEW c \in v1
      PROVE  Migration!AllNew(c) /\ Migration!Kept(c)
  <2>1. \A p \in Migrator : v5[p].step \notin MigrationBusy
      BY <1>2 DEF Migration!Migrating, MigrationBusy
  <2> QED
      BY <1>2, <2>1, MigrationRunIs DEF MigrationBusy
<1> QED
    BY <1>1, <1>2 DEF Migration!MigratedOnce, Migration!AllNew, Migration!Kept

-----------------------------------------------------------------------------
(* The classification of the properties.                                   *)
(* v1 row, v2 tags, v3 config, v4 ingest, v5 run, v6 record, v7 chain, v8  *)
(* missed, v9 raced.                                                       *)

\* The finite sets of the instance are those of FiniteSets.
LEMMA TagsSets ==
    \A S : /\ Tags!IsFiniteSet(S) <=> IsFiniteSet(S)
          /\ Tags!Cardinality(S) = Cardinality(S)
    BY DEF Tags!IsFiniteSet, IsFiniteSet, Tags!Cardinality, Cardinality

TagsTags == [of : 0..TagVersions, config : 0..MaxConfig]
TagsRecords == [status : {"none", "RUNNING", "COMPLETED", "FAILED"}, cursor : Tagged \cup {0}]

LEMMA TagsNoRunIs == ASSUME Tags!Bounds PROVE
    /\ Tags!NoRun \in Tags!Runs
    /\ Tags!NoRun.step = "idle"
    /\ Tags!NoRun.config = 0
    /\ Tags!NoRun.cursor = 0
    /\ Tags!NoRun.page = {}
    /\ Tags!NoRun.read \in [Tagged -> 0..TagVersions]
<1>1. [p \in Tagged |-> 0] \in [Tagged -> 0..TagVersions] /\ 0 \in 0..MaxConfig
    BY TagsSets DEF Tags!Bounds
<1>2. FALSE \in BOOLEAN
    OBVIOUS
<1> QED
    BY <1>1, <1>2 DEF Tags!NoRun, Tags!Runs

LEMMA TagsInitially == ASSUME Tags!Bounds PROVE Tags!Init => Tags!IInv
<1> SUFFICES ASSUME Tags!Init PROVE Tags!IInv
    OBVIOUS
<1>1. /\ v1 \in [Tagged -> 0..TagVersions] /\ v4 \in [Tagged -> 0..TagVersions]
      /\ v2 \in [Tagged -> TagsTags] /\ v3 \in 1..MaxConfig
    BY TagsSets DEF Tags!Init, Tags!Bounds, TagsTags, Tags!None
<1>2. /\ v5 \in Tags!Runs /\ v5.step = "idle" /\ v5.cursor = 0 /\ v5.page = {}
      /\ v6 \in TagsRecords /\ v6.status = "none"
    BY TagsNoRunIs DEF Tags!Init, TagsRecords
<1>3. v8 = FALSE
    BY DEF Tags!Init
<1>4. v8 \in BOOLEAN
    BY <1>3
<1>5. Tags!TypeOK
    BY <1>1, <1>2, <1>4 DEF Tags!Init, Tags!TypeOK, TagsTags, TagsRecords
<1> QED
    BY <1>2, <1>5 DEF Tags!IInv, Tags!Init

\* What the invariant says of the types.
LEMMA TagsTypes ==
    ASSUME Tags!Bounds, Tags!IInv
    PROVE  /\ v1 \in [Tagged -> 0..TagVersions] /\ v4 \in [Tagged -> 0..TagVersions]
           /\ v2 \in [Tagged -> TagsTags] /\ v3 \in 1..MaxConfig /\ v5 \in Tags!Runs
           /\ v6 \in TagsRecords /\ v7 \subseteq Tagged /\ v9 \subseteq Tagged
           /\ v8 \in BOOLEAN /\ \A p \in Tagged : p \in Nat /\ p > 0
           /\ TagVersions \in Nat /\ MaxConfig \in Nat /\ 1 \in 0..TagVersions
    BY TagsSets DEF Tags!IInv, Tags!TypeOK, Tags!Bounds, TagsTags, TagsRecords

LEMMA TagsTypesHold ==
    ASSUME /\ v1 \in [Tagged -> 0..TagVersions] /\ v4 \in [Tagged -> 0..TagVersions]
           /\ v2 \in [Tagged -> TagsTags] /\ v3 \in 1..MaxConfig /\ v5 \in Tags!Runs
           /\ v6 \in TagsRecords /\ v7 \subseteq Tagged /\ v9 \subseteq Tagged
           /\ v8 \in BOOLEAN
    PROVE  Tags!TypeOK
    BY DEF Tags!TypeOK, Tags!Runs, TagsTags, TagsRecords

\* A step beside the walk: what is owed can only be less, and keeps its tags.
LEMMA TagsBesideStep ==
    ASSUME Tags!Bounds, Tags!IInv, UNCHANGED <<v5, v6>>,
           v1' \in [Tagged -> 0..TagVersions], v4' \in [Tagged -> 0..TagVersions],
           v2' \in [Tagged -> TagsTags], v3' \in 1..MaxConfig,
           v7' \subseteq v7, v9 \subseteq v9', v9' \subseteq Tagged,
           v8 => v8', v8' \in BOOLEAN,
           \A p \in v7' : v1'[p] # 0,
           \A p \in Tagged : v4'[p] # 0 => p \in v9',
           v3' = v3 \/ v9' = Tagged,
           \A p \in v7' \ v9' : v1'[p] = v1[p] /\ (p \notin Manual => v2'[p] = v2[p]),
           v5.step # "idle" /\ v5.cursor # 0 /\ ~ v8' /\ v1[v5.cursor] # 0
              => v1'[v5.cursor] # 0
    PROVE  Tags!IInv'
<1>1. Tags!TypeOK'
    BY TagsTypes, TagsTypesHold DEF Tags!TypeOK, Tags!Runs, TagsTags, TagsRecords
<1>2. Tags!Owed' \subseteq Tags!Owed /\ (v9' = Tagged => Tags!Owed' = {})
    BY TagsTypes DEF Tags!Owed
<1>3. \A p \in Tags!Owed' : Tags!Covered(p) => Tags!Covered(p)'
    BY <1>2, TagsTypes DEF Tags!Owed, Tags!Covered
<1>4. \A id : Tags!CoveredTo(id) => Tags!CoveredTo(id)'
    BY <1>2, <1>3 DEF Tags!CoveredTo
<1>5. v5' \in Tags!Runs /\ \A p \in v7' : v1'[p] # 0
    BY TagsTypes
<1>6. v5'.step # "idle" =>
          /\ v6'.status = "RUNNING"
          /\ v5'.config = v3' \/ v9' = Tagged
          /\ Tags!CoveredTo(v5.cursor)'
          /\ v5'.apply \/ v7' = {}
          /\ v5'.apply /\ ~v8' /\ v5'.cursor # 0 => v1'[v5'.cursor] # 0
    BY <1>4, TagsTypes DEF Tags!IInv
<1>7. v5'.step = "rows" =>
          /\ \A p \in v7' \ v9' : v5'.read[p] = v1'[p]
          /\ \A p \in v5'.page : /\ v5'.cursor < p
                                 /\ \A q \in v7' : q < p
                                      => q <= v5'.cursor \/ q \in v5'.page
    BY TagsTypes DEF Tags!IInv
<1>8. v6'.status \in {"RUNNING", "FAILED"} => Tags!CoveredTo(v6.cursor)'
    BY <1>4 DEF Tags!IInv
<1>9. v6'.status = "COMPLETED" =>
          /\ v5'.config = v3' \/ v9' = Tagged
          /\ Tags!CoveredTo(v6.cursor)'
          /\ v8' \/ \A p \in Tags!Owed' : Tags!Covered(p)'
    BY <1>2, <1>3, <1>4, TagsTypes DEF Tags!IInv
<1> QED
    BY <1>1, <1>5, <1>6, <1>7, <1>8, <1>9 DEF Tags!IInv

LEMMA TagsIngestStep ==
    ASSUME Tags!Bounds, Tags!IInv, NEW p \in Tagged, Tags!Ingest(p)
    PROVE  Tags!IInv'
<1>1. /\ v1[p] \in 0..TagVersions
      /\ v1[p] < TagVersions
      /\ v1' = [v1 EXCEPT ![p] = v1[p] + 1]
      /\ v4' = [v4 EXCEPT ![p] = v1[p] + 1] /\ v9' = v9 \cup {p}
      /\ UNCHANGED <<v2, v3, v5, v6, v7, v8>>
    BY TagsTypes DEF Tags!Ingest
<1>2. v1[p] + 1 \in 0..TagVersions /\ v1[p] + 1 # 0
    BY <1>1, TagsTypes
<1>3. /\ v1' \in [Tagged -> 0..TagVersions] /\ v4' \in [Tagged -> 0..TagVersions]
      /\ \A q \in Tagged : v1[q] # 0 => v1'[q] # 0
      /\ \A q \in Tagged \ {p} : v1'[q] = v1[q] /\ v4'[q] = v4[q]
    BY <1>1, <1>2, TagsTypes
<1>4. /\ \A q \in v7 : v1'[q] # 0
      /\ \A q \in Tagged : v4'[q] # 0 => q \in v9'
    BY <1>1, <1>3, TagsTypes DEF Tags!IInv
<1>5. v5.cursor \in Tagged \cup {0}
    BY TagsTypes DEF Tags!Runs
<1> QED
    BY <1>1, <1>3, <1>4, <1>5, TagsTypes, TagsBesideStep

LEMMA TagsEndIngestStep ==
    ASSUME Tags!Bounds, Tags!IInv, NEW p \in Tagged, NEW ok \in BOOLEAN,
           Tags!EndIngest(p, ok)
    PROVE  Tags!IInv'
<1>1. /\ v4[p] # 0 /\ v4' = [v4 EXCEPT ![p] = 0]
      /\ UNCHANGED <<v1, v3, v5, v6, v7, v8, v9>>
      /\ v2' = v2 \/ v2' = [v2 EXCEPT ![p] = [of |-> v4[p], config |-> v3]]
    BY DEF Tags!EndIngest, Tags!Classified
<1>2. p \in v9 /\ [of |-> v4[p], config |-> v3] \in TagsTags
    BY <1>1, TagsTypes DEF Tags!IInv, TagsTags
<1>3. /\ v2' \in [Tagged -> TagsTags] /\ \A q \in Tagged \ {p} : v2'[q] = v2[q]
      /\ v4' \in [Tagged -> 0..TagVersions]
      /\ \A q \in Tagged \ {p} : v4'[q] = v4[q]
    BY <1>1, <1>2, TagsTypes
<1>4. /\ \A q \in v7 : v1'[q] # 0
      /\ \A q \in Tagged : v4'[q] # 0 => q \in v9'
    BY <1>1, <1>2, <1>3, TagsTypes DEF Tags!IInv
<1> QED
    BY <1>1, <1>2, <1>3, <1>4, TagsTypes, TagsBesideStep

LEMMA TagsAddStep ==
    ASSUME Tags!Bounds, Tags!IInv, NEW p \in Tagged, Tags!Add(p)
    PROVE  Tags!IInv'
<1>1. /\ v1[p] = 0 /\ p \notin v7 /\ v1' = [v1 EXCEPT ![p] = 1]
      /\ UNCHANGED <<v2, v3, v4, v5, v6, v7, v8, v9>>
    BY DEF Tags!Add
<1>2. /\ v1' \in [Tagged -> 0..TagVersions] /\ \A q \in Tagged \ {p} : v1'[q] = v1[q]
      /\ \A q \in Tagged : v1[q] # 0 => v1'[q] # 0
    BY <1>1, TagsTypes
<1>3. /\ \A q \in v7 : v1'[q] # 0
      /\ \A q \in Tagged : v4'[q] # 0 => q \in v9'
    BY <1>1, <1>2, TagsTypes DEF Tags!IInv
<1>4. v5.cursor \in Tagged \cup {0}
    BY TagsTypes DEF Tags!Runs
<1> QED
    BY <1>1, <1>2, <1>3, <1>4, TagsTypes, TagsBesideStep

LEMMA TagsDeleteStep ==
    ASSUME Tags!Bounds, Tags!IInv, NEW p \in Tagged, Tags!DeleteProperty(p)
    PROVE  Tags!IInv'
<1>1. /\ v1' = [v1 EXCEPT ![p] = 0] /\ v2' = [v2 EXCEPT ![p] = Tags!None] /\ v7' = v7 \ {p}
      /\ v8' = (v8 \/ p = v5.cursor \/ p = v6.cursor)
      /\ UNCHANGED <<v3, v4, v5, v6, v9>>
    BY DEF Tags!DeleteProperty
<1>2. Tags!None \in TagsTags /\ 0 \in 0..TagVersions
    BY TagsTypes DEF Tags!None, TagsTags
<1>3. /\ v1' \in [Tagged -> 0..TagVersions] /\ v2' \in [Tagged -> TagsTags]
      /\ \A q \in Tagged \ {p} : v1'[q] = v1[q] /\ v2'[q] = v2[q]
    BY <1>1, <1>2, TagsTypes
<1>4. /\ \A q \in v7' : v1'[q] # 0
      /\ \A q \in Tagged : v4'[q] # 0 => q \in v9'
    BY <1>1, <1>3, TagsTypes DEF Tags!IInv
<1>5. v5.cursor \in Tagged \cup {0}
    BY TagsTypes DEF Tags!Runs
<1>6. v8' \in BOOLEAN /\ (v8 => v8') /\ (p = v5.cursor => v8')
    BY <1>1
<1> HIDE DEF Tags!None
<1> QED
    BY <1>1, <1>3, <1>4, <1>5, <1>6, TagsTypes, TagsBesideStep

LEMMA TagsDeployStep == ASSUME Tags!Bounds, Tags!IInv, Tags!Deploy PROVE Tags!IInv'
<1>1. /\ v3' \in 1..MaxConfig /\ v9' = Tagged
      /\ UNCHANGED <<v1, v2, v4, v5, v6, v7, v8>>
    BY TagsTypes DEF Tags!Deploy
<1>2. /\ \A q \in v7 : v1[q] # 0
      /\ \A q \in Tagged : v4[q] # 0 => q \in v9'
    BY <1>1 DEF Tags!IInv
<1> QED
    BY <1>1, <1>2, TagsTypes, TagsBesideStep

\* A step of the walk: the properties stay as they are, but for the tags of one that
\* it classifies.
LEMMA TagsWalkStep ==
    ASSUME Tags!Bounds, Tags!IInv, NEW q \in Tags!Runs, NEW e \in TagsRecords, v5' = q,
           v6' = e,
           UNCHANGED <<v1, v4, v3>>, v2' \in [Tagged -> TagsTags],
           v7' \subseteq v7 \/ (\A p \in v7' : v1[p] # 0),
           v7' \subseteq Tagged, v9' \subseteq Tagged, v8' \in BOOLEAN,
           \A p \in Tagged : v4[p] # 0 => p \in v9',
           q.step # "idle" =>
              /\ e.status = "RUNNING"
              /\ q.config = v3 \/ v9' = Tagged
              /\ Tags!CoveredTo(q.cursor)'
              /\ q.apply \/ v7' = {}
              /\ q.apply /\ ~ v8' /\ q.cursor # 0 => v1[q.cursor] # 0,
           q.step = "rows" =>
              /\ \A p \in v7' \ v9' : q.read[p] = v1[p]
              /\ \A p \in q.page : /\ q.cursor < p
                                   /\ \A z \in v7' : z < p => z <= q.cursor \/ z \in q.page,
           e.status \in {"RUNNING", "FAILED"} => Tags!CoveredTo(e.cursor)',
           e.status = "COMPLETED" => /\ q.config = v3 \/ v9' = Tagged
                                     /\ Tags!CoveredTo(e.cursor)'
                                     /\ v8' \/ \A p \in Tags!Owed' : Tags!Covered(p)'
    PROVE  Tags!IInv'
<1>1. Tags!TypeOK'
    BY TagsTypes, TagsTypesHold DEF Tags!TypeOK, Tags!Runs, TagsTags, TagsRecords
<1>2. \A p \in v7' : v1'[p] # 0
    BY DEF Tags!IInv
<1> QED
    BY <1>1, <1>2 DEF Tags!IInv

LEMMA TagsStartStep ==
    ASSUME Tags!Bounds, Tags!IInv, NEW apply \in BOOLEAN, NEW cursor \in Tagged \cup {0},
           Tags!Start(apply, cursor)
    PROVE  Tags!IInv'
<1>0. PICK q, e :
           /\ q = [step |-> "page", apply |-> apply, config |-> v3, cursor |-> cursor,
                          page |-> {}, read |-> Tags!NoRun.read]
                  /\ e = [status |-> "RUNNING", cursor |-> cursor]
    OBVIOUS
<1>1. /\ v5' = q /\ v6' = e /\ UNCHANGED <<v1, v2, v3, v4>>
      /\ v7' = IF ~apply THEN {} ELSE IF cursor = 0 THEN Tags!There ELSE v7
      /\ v8' = IF cursor = 0 THEN FALSE ELSE v8 \/ v1[cursor] = 0
      /\ v9' = IF cursor = 0 THEN {p \in Tagged : v4[p] # 0} ELSE v9
      /\ v5.step = "idle"
      /\ cursor # 0 => v6.status \in {"FAILED", "RUNNING"} /\ cursor = v6.cursor
    BY <1>0 DEF Tags!Start
<1>2. /\ q \in Tags!Runs
      /\ q.step = "page"
      /\ q.cursor = cursor
      /\ q.apply = apply
      /\ q.config = v3
      /\ e \in TagsRecords /\ e.status = "RUNNING" /\ e.cursor = cursor
    BY <1>0, TagsNoRunIs, TagsTypes DEF Tags!Runs, TagsRecords
<1>3. /\ v7' \subseteq Tagged /\ \A p \in v7' : v1[p] # 0
      /\ apply \/ v7' = {}
      /\ v9' \subseteq Tagged /\ \A p \in Tagged : v4[p] # 0 => p \in v9'
    BY <1>1, TagsTypes DEF Tags!There, Tags!IInv
<1>4. v8' \in BOOLEAN
    BY <1>1
<1>5. Tags!CoveredTo(cursor)'
  <2>1. CASE cursor = 0
      BY <2>1, <1>3, TagsTypes DEF Tags!CoveredTo, Tags!Owed
  <2>2. CASE cursor # 0
    <3>1. Tags!CoveredTo(cursor) /\ Tags!Owed' \subseteq Tags!Owed
        BY <1>1, <2>2 DEF Tags!IInv, Tags!Owed
    <3> QED
        BY <1>1, <3>1 DEF Tags!CoveredTo, Tags!Covered
  <2> QED
      BY <2>1, <2>2
<1>6. apply /\ ~ v8' /\ cursor # 0 => v1[cursor] # 0
    BY <1>1
<1> QED
    BY <1>1, <1>2, <1>3, <1>4, <1>5, <1>6, TagsTypes, TagsWalkStep

\* A step of the walk that classifies nothing.
LEMMA TagsGoesOn ==
    ASSUME Tags!Bounds, Tags!IInv, NEW q \in Tags!Runs, NEW e \in TagsRecords, v5' = q,
           v6' = e,
           UNCHANGED <<v1, v2, v3, v4, v7, v8, v9>>,
           q.step # "idle" => /\ v5.step # "idle" /\ q.apply = v5.apply
                              /\ q.config = v5.config /\ q.cursor = v5.cursor
                              /\ e.status = "RUNNING",
           q.step = "rows" =>
              /\ \A p \in v7 \ v9 : q.read[p] = v1[p]
              /\ \A p \in q.page : /\ q.cursor < p
                                   /\ \A z \in v7 : z < p => z <= q.cursor \/ z \in q.page,
           e.status \in {"RUNNING", "FAILED"} => Tags!CoveredTo(e.cursor),
           e.status = "COMPLETED" => /\ q.config = v3 \/ v9 = Tagged
                                     /\ Tags!CoveredTo(e.cursor)
                                     /\ v8 \/ \A p \in Tags!Owed : Tags!Covered(p)
    PROVE  Tags!IInv'
<1>1. /\ \A id : Tags!CoveredTo(id)' <=> Tags!CoveredTo(id)
      /\ Tags!Owed' = Tags!Owed /\ \A p : Tags!Covered(p)' <=> Tags!Covered(p)
    BY DEF Tags!CoveredTo, Tags!Covered, Tags!Owed
<1>2. q.step # "idle" =>
         /\ q.config = v3 \/ v9 = Tagged
         /\ Tags!CoveredTo(q.cursor)
         /\ q.apply \/ v7 = {}
         /\ q.apply /\ ~ v8 /\ q.cursor # 0 => v1[q.cursor] # 0
    BY DEF Tags!IInv
<1>3. \A p \in Tagged : v4[p] # 0 => p \in v9
    BY DEF Tags!IInv
<1> QED
    BY <1>1, <1>2, <1>3, TagsTypes, TagsWalkStep

LEMMA TagsFailStep == ASSUME Tags!Bounds, Tags!IInv, Tags!Fail PROVE Tags!IInv'
<1>0. PICK e : e = [status |-> "FAILED", cursor |-> v5.cursor]
    OBVIOUS
<1>1. /\ e \in TagsRecords /\ e.status = "FAILED" /\ Tags!CoveredTo(e.cursor)
      /\ v6' = e /\ v5' = Tags!NoRun
      /\ UNCHANGED <<v1, v2, v3, v4, v7, v8, v9>>
    BY <1>0, TagsTypes DEF Tags!Fail, Tags!IInv, TagsRecords, Tags!Runs
<1> QED
    BY <1>1, TagsNoRunIs, TagsGoesOn

LEMMA TagsStopStep == ASSUME Tags!Bounds, Tags!IInv, Tags!Stop PROVE Tags!IInv'
<1>0. PICK e : e = v6
    OBVIOUS
<1>1. /\ e \in TagsRecords /\ e.status = "RUNNING" /\ Tags!CoveredTo(e.cursor)
      /\ v6' = e /\ v5' = Tags!NoRun
      /\ UNCHANGED <<v1, v2, v3, v4, v7, v8, v9>>
    BY <1>0, TagsTypes DEF Tags!Stop, Tags!IInv
<1> QED
    BY <1>1, TagsNoRunIs, TagsGoesOn

LEMMA TagsRecordStep == ASSUME Tags!Bounds, Tags!IInv, Tags!RecordPage PROVE Tags!IInv'
<1>0. PICK q, e : q = [v5 EXCEPT !.step = "page"] /\ e = [v6 EXCEPT !.cursor = v5.cursor]
    OBVIOUS
<1>1. /\ q \in Tags!Runs /\ q.step = "page" /\ q.apply = v5.apply /\ q.config = v5.config
      /\ q.cursor = v5.cursor
    BY <1>0, TagsTypes DEF Tags!Runs
<1>2. v5.cursor \in Tagged \cup {0} /\ v6.status = "RUNNING" /\ Tags!CoveredTo(v5.cursor)
    BY TagsTypes DEF Tags!RecordPage, Tags!IInv, Tags!Runs
<1>3. e \in TagsRecords /\ e.status = "RUNNING" /\ e.cursor = v5.cursor
    BY <1>0, <1>2, TagsTypes DEF TagsRecords
<1>4. /\ v5' = q /\ v6' = e /\ v5.step # "idle"
      /\ UNCHANGED <<v1, v2, v3, v4, v7, v8, v9>>
    BY <1>0 DEF Tags!RecordPage
<1> QED
    BY <1>1, <1>2, <1>3, <1>4, TagsGoesOn

\* The first page of a set of ids has no gap.
LEMMA TagsFirstIs ==
    ASSUME Tags!Bounds, NEW ids \in SUBSET Tagged
    PROVE  /\ Tags!FirstOf(ids) \subseteq ids /\ (ids # {} => Tags!FirstOf(ids) # {})
           /\ \A p \in Tags!FirstOf(ids), z \in ids : z < p => z \in Tags!FirstOf(ids)
<1> DEFINE before(p) == {q \in ids : q < p}
<1>0. \A p \in ids : p \in Nat
    BY TagsSets DEF Tags!Bounds
<1>1. \A p \in ids : p \in Nat /\ IsFiniteSet(before(p)) /\ Cardinality(before(p)) \in Nat
    BY FS_Subset, FS_CardinalityType, TagsSets DEF Tags!Bounds
<1>2. ASSUME NEW p \in ids, NEW z \in ids, z < p
      PROVE  Cardinality(before(z)) <= Cardinality(before(p))
  <2>1. before(z) \in SUBSET before(p)
      BY <1>0, <1>2
  <2> HIDE DEF before
  <2> QED
      BY <1>1, <2>1, FS_Subset
<1>3. ASSUME ids # {} PROVE Tags!FirstOf(ids) # {}
  <2>1. PICK k \in ids : \A j \in ids : k <= j
      BY <1>3, Least, TagsSets DEF Tags!Bounds
  <2>2. before(k) = {}
      BY <1>0, <2>1
  <2>3. Cardinality(before(k)) < TagPage
      BY <2>2, FS_EmptySet, TagsSets DEF Tags!Bounds
  <2> QED
      BY <2>1, <2>3, TagsSets DEF Tags!FirstOf
<1>4. TagPage \in Nat
    BY TagsSets DEF Tags!Bounds
<1>5. Tags!FirstOf(ids) = {p \in ids : Cardinality(before(p)) < TagPage}
    BY TagsSets DEF Tags!FirstOf
<1> HIDE DEF before
<1> QED
    BY <1>1, <1>2, <1>3, <1>4, <1>5

LEMMA TagsPageStep == ASSUME Tags!Bounds, Tags!IInv, Tags!Page PROVE Tags!IInv'
<1>0. PICK ids : ids = Tags!FirstOf(Tags!After(v5.cursor))
    OBVIOUS
<1>1. /\ v5 \in Tags!Runs
      /\ v5.step = "page"
      /\ v5.cursor \in Tagged \cup {0}
      /\ v5.cursor \in Nat
      /\ v6 \in TagsRecords /\ v6.status = "RUNNING" /\ Tags!CoveredTo(v6.cursor)
      /\ Tags!CoveredTo(v5.cursor) /\ (v5.config = v3 \/ v9 = Tagged)
      /\ UNCHANGED <<v1, v2, v3, v4, v7, v8, v9>>
    BY TagsTypes DEF Tags!Page, Tags!IInv, Tags!Runs
<1>2. Tags!After(v5.cursor) \in SUBSET Tagged /\ \A p \in Tags!After(v5.cursor) : v5.cursor < p
    BY DEF Tags!After, Tags!There
<1>3. CASE ids = {}
  <2>0. PICK q, e : /\ q = [Tags!NoRun EXCEPT !.apply = v5.apply, !.config = v5.config]
                    /\ e = [status |-> "COMPLETED", cursor |-> v5.cursor]
      OBVIOUS
  <2>1. q \in Tags!Runs /\ q.step = "idle" /\ q.config = v5.config
      BY <1>1, <2>0, TagsNoRunIs DEF Tags!Runs
  <2>2. /\ e \in TagsRecords /\ e.status = "COMPLETED" /\ e.cursor = v5.cursor
        /\ v5' = q /\ v6' = e
      BY <1>0, <1>1, <1>3, <2>0 DEF Tags!Page, TagsRecords
  <2>3. Tags!After(v5.cursor) = {}
      BY <1>0, <1>2, <1>3, TagsFirstIs
  <2>4. ASSUME ~ v8, NEW p \in Tags!Owed PROVE Tags!Covered(p)
    <3>1. p \in Tags!There /\ p \in Nat /\ v5.apply
        BY <2>4, <1>1, TagsTypes DEF Tags!Owed, Tags!There, Tags!IInv
    <3>2. ~ (v5.cursor # 0 /\ v1[v5.cursor] = 0)
        BY <1>1, <2>4, <3>1 DEF Tags!IInv
    <3>3. ~ (p > v5.cursor)
        BY <2>3, <3>1, <3>2 DEF Tags!After
    <3> QED
        BY <1>1, <3>1, <3>3 DEF Tags!CoveredTo
  <2> QED
      BY <1>1, <2>1, <2>2, <2>4, TagsGoesOn
<1>4. CASE ids # {}
  <2>0. PICK q, e : /\ q = [step |-> "rows", apply |-> v5.apply, config |-> v5.config,
                            cursor |-> v5.cursor, page |-> ids, read |-> v1]
                    /\ e = v6
      OBVIOUS
  <2>1. ids \in SUBSET Tagged
      BY <1>0, <1>2, TagsFirstIs
  <2>2. /\ q \in Tags!Runs /\ q.step = "rows" /\ q.apply = v5.apply /\ q.config = v5.config
        /\ q.cursor = v5.cursor /\ q.page = ids /\ q.read = v1
      BY <1>1, <2>0, <2>1, TagsTypes DEF Tags!Runs
  <2>3. /\ v5' = q
        /\ v6' = e
        /\ e \in TagsRecords
        /\ e.status = "RUNNING"
        /\ Tags!CoveredTo(e.cursor)
      BY <1>0, <1>1, <1>4, <2>0 DEF Tags!Page
  <2>4. ASSUME NEW p \in ids
        PROVE  v5.cursor < p /\ \A z \in v7 : z < p => z <= v5.cursor \/ z \in ids
    <3>1. p \in Tags!After(v5.cursor) /\ ~ (v5.cursor # 0 /\ v1[v5.cursor] = 0)
        BY <1>0, <1>2, TagsFirstIs DEF Tags!After
    <3>2. \A z \in v7 : z \in Nat /\ (z > v5.cursor => z \in Tags!After(v5.cursor))
        BY <3>1, TagsTypes DEF Tags!After, Tags!There, Tags!IInv
    <3>3. p \in Nat
        BY <2>1, TagsTypes
    <3> QED
        BY <1>0, <1>1, <1>2, <3>1, <3>2, <3>3, TagsFirstIs
  <2> QED
      BY <1>1, <2>2, <2>3, <2>4, TagsGoesOn
<1> QED
    BY <1>3, <1>4

LEMMA TagsMinIs ==
    ASSUME NEW T \in SUBSET Nat, T # {}
    PROVE  Tags!Min(T) \in T /\ \A j \in T : Tags!Min(T) <= j
<1>1. \E k \in T : \A j \in T : k <= j
    BY Least
<1> QED
    BY <1>1 DEF Tags!Min

LEMMA TagsRowStep == ASSUME Tags!Bounds, Tags!IInv, Tags!Row PROVE Tags!IInv'
<1>0. PICK p, q, e : /\ p = Tags!Min(v5.page)
                     /\ q = [v5 EXCEPT !.page = @ \ {p}, !.cursor = p]
                     /\ e = v6
    OBVIOUS
<1>1. /\ v5 \in Tags!Runs
      /\ v5.step = "rows"
      /\ v5.cursor \in Tagged \cup {0}
      /\ v5.cursor \in Nat
      /\ v6 \in TagsRecords /\ v6.status = "RUNNING" /\ Tags!CoveredTo(v6.cursor)
      /\ Tags!CoveredTo(v5.cursor) /\ (v5.config = v3 \/ v9 = Tagged)
      /\ v5.page \in SUBSET Tagged /\ v5.page # {} /\ v5.read \in [Tagged -> 0..TagVersions]
      /\ v5.config \in 0..MaxConfig
      /\ UNCHANGED <<v1, v3, v4, v6, v7, v8, v9>>
    BY TagsTypes DEF Tags!Row, Tags!IInv, Tags!Runs
<1>2. p \in v5.page /\ p \in Nat /\ \A j \in v5.page : j \in Nat /\ p <= j
    BY <1>0, <1>1, TagsMinIs, TagsTypes
<1>3. /\ q \in Tags!Runs /\ q.step = "rows" /\ q.apply = v5.apply /\ q.config = v5.config
      /\ q.cursor = p /\ q.page = v5.page \ {p} /\ q.read = v5.read
    BY <1>0, <1>1, <1>2 DEF Tags!Runs
<1>4. v5' = q /\ v6' = e /\ (v5.apply => v1[p] # 0)
    BY <1>0, <1>1 DEF Tags!Row
<1>5. v2' = IF v5.apply THEN Tags!Classified(p, v5.read[p], v5.config) ELSE v2
    BY <1>0 DEF Tags!Row
<1>6. [of |-> v5.read[p], config |-> v5.config] \in TagsTags
    BY <1>1, <1>2 DEF TagsTags
<1>7. /\ v2' \in [Tagged -> TagsTags] /\ \A z \in Tagged \ {p} : v2'[z] = v2[z]
      /\ v5.apply /\ p \notin Manual => v2'[p] = [of |-> v5.read[p], config |-> v5.config]
    BY <1>1, <1>2, <1>5, <1>6, TagsTypes DEF Tags!Classified
<1>8. Tags!Owed' = Tags!Owed /\ Tags!Owed \subseteq v7 \ v9 /\ Tags!Owed \subseteq Tagged
    BY <1>1, TagsTypes DEF Tags!Owed
<1>9. p \in Tags!Owed => Tags!Covered(p)'
  <2> SUFFICES ASSUME p \in Tags!Owed PROVE Tags!Covered(p)'
      OBVIOUS
  <2>1. v5.apply /\ p \notin Manual /\ v5.read[p] = v1[p] /\ v5.config = v3
      BY <1>1, <1>8 DEF Tags!IInv, Tags!Owed
  <2> QED
      BY <1>1, <1>7, <2>1 DEF Tags!Covered
<1>10. \A z \in Tags!Owed : Tags!Covered(z) => Tags!Covered(z)'
    BY <1>1, <1>7, <1>8, <1>9 DEF Tags!Covered
<1>11. Tags!CoveredTo(p)'
  <2> SUFFICES ASSUME NEW z \in Tags!Owed, z <= p PROVE Tags!Covered(z)'
      BY <1>8 DEF Tags!CoveredTo
  <2>1. CASE z = p
      BY <1>9, <2>1
  <2>2. CASE z # p
    <3>1. z < p /\ z \in v7 /\ z \in Nat
        BY <1>2, <1>8, <2>2, TagsTypes
    <3>2. z <= v5.cursor
        BY <1>1, <1>2, <3>1 DEF Tags!IInv
    <3> QED
        BY <1>1, <1>10, <3>2 DEF Tags!CoveredTo
  <2> QED
      BY <2>1, <2>2
<1>12. e = v6 /\ Tags!CoveredTo(e.cursor)'
  <2>1. Tags!CoveredTo(e.cursor) /\ e = v6
      BY <1>0, <1>1
  <2> QED
      BY <1>8, <1>10, <2>1 DEF Tags!CoveredTo
<1>13. /\ \A z \in v7' \ v9' : q.read[z] = v1[z]
       /\ \A j \in q.page : /\ q.cursor < j
                            /\ \A z \in v7' : z < j => z <= q.cursor \/ z \in q.page
  <2>1. \A z \in v7 \ v9 : v5.read[z] = v1[z]
      BY <1>1 DEF Tags!IInv
  <2>2. \A j \in v5.page : /\ v5.cursor < j
                           /\ \A z \in v7 : z < j => z <= v5.cursor \/ z \in v5.page
      BY <1>1 DEF Tags!IInv
  <2>3. \A z \in v7 : z \in Nat
      BY TagsTypes
  <2> QED
      BY <1>1, <1>2, <1>3, <2>1, <2>2, <2>3
<1>14. v5.apply \/ v7 = {}
    BY <1>1 DEF Tags!IInv
<1>15. \A z \in Tagged : v4[z] # 0 => z \in v9
    BY DEF Tags!IInv
<1> QED
    BY <1>1, <1>3, <1>4, <1>7, <1>11, <1>12, <1>13, <1>14, <1>15, TagsTypes, TagsWalkStep

LEMMA TagsInductive ==
    ASSUME Tags!Bounds
    PROVE  Tags!IInv /\ [Tags!Next]_(Tags!vars) => Tags!IInv'
<1> SUFFICES ASSUME Tags!IInv, [Tags!Next]_(Tags!vars) PROVE Tags!IInv'
    OBVIOUS
<1>1. CASE UNCHANGED Tags!vars
    BY <1>1 DEF Tags!vars, Tags!IInv, Tags!TypeOK, Tags!Owed, Tags!CoveredTo, Tags!Covered
<1> QED
    BY <1>1, TagsIngestStep, TagsEndIngestStep, TagsAddStep, TagsDeleteStep, TagsDeployStep,
       TagsStartStep, TagsPageStep, TagsRowStep,
       TagsRecordStep, TagsFailStep, TagsStopStep DEF Tags!Next

LEMMA TagsProperties ==
    ASSUME Tags!Bounds
    PROVE  Tags!IInv => Tags!TypeOK /\ Tags!CompletedCoversAll
<1> SUFFICES ASSUME Tags!IInv PROVE Tags!CompletedCoversAll
    BY DEF Tags!IInv
<1> SUFFICES ASSUME v6.status = "COMPLETED", NEW p \in Tags!Owed, p <= v6.cursor \/ ~ v8
             PROVE  v2[p] = [of |-> v1[p], config |-> v5.config]
    BY DEF Tags!CompletedCoversAll, Tags!Owed
<1>1. v5.config = v3 /\ Tags!Covered(p)
    BY TagsTypes DEF Tags!IInv, Tags!Owed, Tags!CoveredTo
<1> QED
    BY <1>1 DEF Tags!Covered

-----------------------------------------------------------------------------
(* The photos of a property.                                               *)
(* v1 time, v2 photos, v3 object, v4 media, v5 stamp, v6 image, v7 work,   *)
(* v8 partial, v9 raced.                                                   *)

PhotosActive == {"fetch", "replace", "image"}

LEMMA PhotosInitially == ASSUME Photos!Bounds PROVE Photos!Init => Photos!IInv
<1> SUFFICES ASSUME Photos!Init PROVE Photos!IInv
    OBVIOUS
<1>1. (CHOOSE l \in Album : TRUE) \in Album /\ 0 \in 0..PhotoTime
    BY DEF Photos!Bounds
<1>2. TRUE \in BOOLEAN
    OBVIOUS
<1>3. Photos!New \in Photos!Works /\ Photos!New.step = "new" /\ Photos!New.seen = {}
    BY <1>1, <1>2 DEF Photos!New, Photos!Works
<1>4. v7 \in [PhotoWork -> Photos!Works] /\ \A w \in PhotoWork : v7[w].step = "new" /\ v7[w].seen = {}
    BY <1>3 DEF Photos!Init
<1>5. v9 = FALSE
    BY DEF Photos!Init
<1>6. v9 \in BOOLEAN
    BY <1>5
<1>7. Photos!TypeOK
    BY <1>1, <1>4, <1>6 DEF Photos!Init, Photos!TypeOK
<1>8. Photos!PhotosAreOneSet
    BY DEF Photos!Init, Photos!PhotosAreOneSet
<1>9. v4 = {} /\ \A w \in PhotoWork : Photos!Handles(w, v7[w])
    BY <1>4 DEF Photos!Init, Photos!Handles
<1> QED
    BY <1>4, <1>7, <1>8, <1>9 DEF Photos!IInv

LEMMA PhotosTypes ==
    ASSUME Photos!Bounds, Photos!IInv
    PROVE  /\ v1 \in 0..PhotoTime /\ v5 \in 0..PhotoTime /\ PhotoTime \in Nat
           /\ v2 \in [Album -> 0..PhotoTime]
           /\ v3 \in [Album -> [Order -> 0..PhotoTime]]
           /\ v6 \in [Album -> Order \cup {Photos!NoImage}]
           /\ v4 \subseteq Photos!Photos /\ v7 \in [PhotoWork -> Photos!Works]
           /\ v8 \subseteq PhotoWork /\ v9 \in BOOLEAN
           /\ Order \subseteq Nat
    BY DEF Photos!IInv, Photos!TypeOK, Photos!Bounds

LEMMA PhotosTypesHold ==
    ASSUME /\ v1 \in 0..PhotoTime /\ v5 \in 0..PhotoTime
           /\ v2 \in [Album -> 0..PhotoTime]
           /\ v3 \in [Album -> [Order -> 0..PhotoTime]]
           /\ v6 \in [Album -> Order \cup {Photos!NoImage}]
           /\ v4 \subseteq Photos!Photos /\ v7 \in [PhotoWork -> Photos!Works]
           /\ v8 \subseteq PhotoWork /\ v9 \in BOOLEAN
    PROVE  Photos!TypeOK
    BY DEF Photos!TypeOK, Photos!Photos, Photos!Works

\* A handler moves and the rows stay.
LEMMA PhotosMoveStep ==
    ASSUME Photos!Bounds, Photos!IInv, NEW w \in PhotoWork, NEW k \in Photos!Works,
           Photos!Becomes(w, k),
           UNCHANGED <<v1, v2, v4, v5>>,
           v3' \in [Album -> [Order -> 0..PhotoTime]],
           v6' \in [Album -> Order \cup {Photos!NoImage}],
           \A l \in Album, o \in Order : v3[l][o] # 0 => v3'[l][o] # 0,
           \A l \in Album : v6'[l] # Photos!NoImage => v3'[l][v6'[l]] # 0,
           v8 \subseteq v8', v8' \subseteq PhotoWork,
           v9 => v9', v9' \in BOOLEAN,
           k.step \in PhotosActive => /\ k.version # 0 /\ \A o \in k.got : v3'[k.listing][o] # 0
                                      /\ (w \in v8' \/ k.got = k.tried),
           k.step \in {"replace", "image"} => k.tried = Order /\ k.got # {},
           k.step \in {"new", "fetch", "replace"} => v7[w].step \in {"new", "fetch", "replace"},
           k.seen = {} \/ k.seen = v4 \/ k.seen = v7[w].seen,
           k.step = "replace" =>
              /\ k.seen = v4
              /\ ~ v9' => \A v \in PhotoWork \ {w} : v7[v].step # "replace"
    PROVE  Photos!IInv'
<1>1. v7' \in [PhotoWork -> Photos!Works] /\ v7'[w] = k /\ \A v \in PhotoWork \ {w} : v7'[v] = v7[v]
    BY PhotosTypes DEF Photos!Becomes
<1>2. Photos!TypeOK'
    BY <1>1, PhotosTypes, PhotosTypesHold DEF Photos!TypeOK, Photos!Photos, Photos!Works
<1>3. Photos!PhotosAreOneSet'
  <2>1. \A x \in v4 : x.listing \in Album /\ x.order \in Order
      BY PhotosTypes DEF Photos!Photos
  <2> QED
      BY <2>1 DEF Photos!IInv, Photos!PhotosAreOneSet
<1>4. \A v \in PhotoWork : v7[v].step \in {"new", "fetch", "replace"} =>
         /\ \A x \in v4 : x.by # v
         /\ \A z \in PhotoWork : \A x \in v7[z].seen : x.by # v
    BY DEF Photos!IInv, Photos!Handles
<1>5. \A v \in PhotoWork : v7'[v].step \in {"new", "fetch", "replace"} =>
         \A x \in v4' \cup UNION {v7'[z].seen : z \in PhotoWork} : x.by # v
  <2> SUFFICES ASSUME NEW v \in PhotoWork, v7'[v].step \in {"new", "fetch", "replace"}
               PROVE  /\ \A x \in v4 : x.by # v
                      /\ \A z \in PhotoWork : \A x \in v7'[z].seen : x.by # v
      OBVIOUS
  <2>1. v7[v].step \in {"new", "fetch", "replace"}
      BY <1>1
  <2> QED
      BY <1>1, <1>4, <2>1
<1>6. ASSUME NEW v \in PhotoWork PROVE Photos!Handles(v, v7[v])'
  <2>1. CASE v = w
    <3>1. v7'[v] = k
        BY <1>1, <2>1
    <3> QED
        BY <1>1, <1>5, <2>1, <3>1 DEF Photos!Handles, PhotosActive
  <2>2. CASE v # w
    <3>1. v7'[v] = v7[v] /\ Photos!Handles(v, v7[v]) /\ v7[v] \in Photos!Works
        BY <1>1, <2>2, PhotosTypes DEF Photos!IInv
    <3>2. v7[v].listing \in Album /\ v7[v].got \subseteq Order
        BY <3>1 DEF Photos!Works
    <3>3. v7'[v].step = "replace" /\ ~ v9' =>
             v7'[v].seen = v4' /\ \A z \in PhotoWork \ {v} : v7'[z].step # "replace"
        BY <1>1, <2>2, <3>1 DEF Photos!Handles
    <3> QED
        BY <1>5, <3>1, <3>2, <3>3 DEF Photos!Handles
  <2> QED
      BY <2>1, <2>2
<1> QED
    BY <1>1, <1>2, <1>3, <1>6, PhotosTypes DEF Photos!IInv

\* What a handler that is at work is.
LEMMA PhotosWorkIs ==
    ASSUME Photos!Bounds, Photos!IInv, NEW w \in PhotoWork
    PROVE  /\ v7[w] \in Photos!Works /\ v7[w].listing \in Album /\ v7[w].version \in 0..PhotoTime
           /\ v7[w].dated \in BOOLEAN
           /\ v7[w].got \subseteq Order
           /\ v7[w].tried \subseteq Order
           /\ v7[w].seen \subseteq Photos!Photos
           /\ v7[w].step \in PhotosActive =>
                 /\ v7[w].version # 0 /\ \A o \in v7[w].got : v3[v7[w].listing][o] # 0
                 /\ (w \in v8 \/ v7[w].got = v7[w].tried)
           /\ v7[w].step \in {"replace", "image"} => v7[w].tried = Order /\ v7[w].got # {}
           /\ \A l \in Album : v6[l] # Photos!NoImage => v3[l][v6[l]] # 0
<1>1. v7[w] \in Photos!Works /\ Photos!Handles(w, v7[w])
    BY PhotosTypes DEF Photos!IInv
<1> QED
    BY <1>1 DEF Photos!Handles, Photos!Works, PhotosActive, Photos!IInv,
       Photos!PhotosAreOneSet

\* A handler ends.
LEMMA PhotosFinishStep ==
    ASSUME Photos!Bounds, Photos!IInv, NEW w \in PhotoWork, Photos!Finished(w),
           UNCHANGED <<v1, v2, v4, v5, v3, v8, v9>>,
           v6' \in [Album -> Order \cup {Photos!NoImage}],
           \A l \in Album : v6'[l] # Photos!NoImage => v3[l][v6'[l]] # 0
    PROVE  Photos!IInv'
<1>0. PICK k : k = [Photos!New EXCEPT !.step = "done"]
    OBVIOUS
<1>1. (CHOOSE l \in Album : TRUE) \in Album /\ 0 \in 0..PhotoTime
    BY DEF Photos!Bounds
<1>2. TRUE \in BOOLEAN
    OBVIOUS
<1>3. k \in Photos!Works /\ k.step = "done" /\ k.seen = {}
    BY <1>0, <1>1, <1>2 DEF Photos!New, Photos!Works
<1>4. Photos!Becomes(w, k)
    BY <1>0 DEF Photos!Finished
<1> QED
    BY <1>3, <1>4, PhotosTypes, PhotosMoveStep DEF PhotosActive

LEMMA PhotosChangeStep ==
    ASSUME Photos!Bounds, Photos!IInv, NEW l \in Album, Photos!Change(l)
    PROVE  Photos!IInv'
<1>1. /\ v1' \in 0..PhotoTime /\ v2' \in [Album -> 0..PhotoTime]
      /\ UNCHANGED <<v3, v4, v5, v6, v7, v8, v9>>
    BY PhotosTypes DEF Photos!Change
<1>2. Photos!TypeOK'
    BY <1>1, PhotosTypes, PhotosTypesHold DEF Photos!TypeOK, Photos!Photos, Photos!Works
<1>3. Photos!PhotosAreOneSet'
    BY <1>1 DEF Photos!IInv, Photos!PhotosAreOneSet
<1>4. \A w \in PhotoWork : Photos!Handles(w, v7[w])'
    BY <1>1 DEF Photos!IInv, Photos!Handles
<1> QED
    BY <1>1, <1>2, <1>3, <1>4 DEF Photos!IInv

LEMMA PhotosStartStep ==
    ASSUME Photos!Bounds, Photos!IInv, NEW w \in PhotoWork, NEW l \in Album,
           NEW dated \in BOOLEAN, Photos!Start(w, l, dated)
    PROVE  Photos!IInv'
<1>0. PICK k : k = [step |-> "fetch", listing |-> l, version |-> v2[l], dated |-> dated,
                    tried |-> {}, got |-> {}, seen |-> {}]
    OBVIOUS
<1>1. /\ k \in Photos!Works
      /\ k.step = "fetch"
      /\ k.version # 0
      /\ k.got = {}
      /\ k.tried = {}
      /\ k.seen = {}
      /\ k.listing = l
    BY <1>0, PhotosTypes DEF Photos!Works, Photos!Start
<1>2. /\ Photos!Becomes(w, k) /\ v7[w].step = "new"
      /\ UNCHANGED <<v1, v2, v3, v4, v5, v6, v8, v9>>
    BY <1>0 DEF Photos!Start
<1> QED
    BY <1>1, <1>2, PhotosTypes, PhotosWorkIs, PhotosMoveStep DEF PhotosActive

LEMMA PhotosLoseStep ==
    ASSUME Photos!Bounds, Photos!IInv, NEW w \in PhotoWork, NEW o \in Order,
           Photos!Lose(w, o)
    PROVE  Photos!IInv'
<1>0. PICK k : k = [v7[w] EXCEPT !.tried = @ \cup {o}]
    OBVIOUS
<1>1. /\ k \in Photos!Works
      /\ k.step = v7[w].step
      /\ k.version = v7[w].version
      /\ k.got = v7[w].got
      /\ k.seen = v7[w].seen /\ k.listing = v7[w].listing
    BY <1>0, PhotosWorkIs DEF Photos!Works
<1>2. /\ Photos!Becomes(w, k) /\ v7[w].step = "fetch" /\ v8' = v8 \cup {w}
      /\ UNCHANGED <<v1, v2, v3, v4, v5, v6, v9>>
    BY <1>0 DEF Photos!Lose
<1>3. v8 \subseteq v8' /\ v8' \subseteq PhotoWork /\ w \in v8' /\ v9 \in BOOLEAN
    BY <1>2, PhotosTypes
<1>4. /\ k.version # 0 /\ \A p \in k.got : v3[k.listing][p] # 0
      /\ \A l \in Album : v6[l] # Photos!NoImage => v3[l][v6[l]] # 0
    BY <1>1, <1>2, PhotosWorkIs DEF PhotosActive
<1> QED
    BY <1>1, <1>2, <1>3, <1>4, PhotosTypes, PhotosMoveStep

LEMMA PhotosFetchStep ==
    ASSUME Photos!Bounds, Photos!IInv, NEW w \in PhotoWork, NEW o \in Order,
           Photos!Fetch(w, o)
    PROVE  Photos!IInv'
<1>0. PICK k, l, n : /\ k = [v7[w] EXCEPT !.tried = @ \cup {o}, !.got = @ \cup {o}]
                     /\ l = v7[w].listing /\ n = v7[w].version
    OBVIOUS
<1>1. /\ k \in Photos!Works /\ k.step = v7[w].step /\ k.version = n
      /\ k.got = v7[w].got \cup {o} /\ k.tried = v7[w].tried \cup {o}
      /\ k.seen = v7[w].seen /\ k.listing = l
  <2>1. PICK j : j = [v7[w] EXCEPT !.tried = @ \cup {o}]
      OBVIOUS
  <2>2. /\ j \in Photos!Works /\ j.step = v7[w].step /\ j.version = n /\ j.got = v7[w].got
        /\ j.tried = v7[w].tried \cup {o} /\ j.seen = v7[w].seen /\ j.listing = l
      BY <1>0, <2>1, PhotosWorkIs DEF Photos!Works
  <2>3. k = [j EXCEPT !.got = j.got \cup {o}]
      BY <1>0, <2>1, <2>2, PhotosWorkIs DEF Photos!Works
  <2> QED
      BY <2>2, <2>3 DEF Photos!Works
<1>2. /\ Photos!Becomes(w, k) /\ v7[w].step = "fetch" /\ v3' = [v3 EXCEPT ![l][o] = n]
      /\ UNCHANGED <<v1, v2, v4, v5, v6, v8, v9>>
    BY <1>0 DEF Photos!Fetch
<1>3. n \in 0..PhotoTime /\ n # 0 /\ l \in Album
    BY <1>0, <1>2, PhotosWorkIs DEF PhotosActive
<1>4. /\ v3' \in [Album -> [Order -> 0..PhotoTime]] /\ v3'[l][o] = n
      /\ \A m \in Album, p \in Order : v3[m][p] # 0 => v3'[m][p] # 0
    BY <1>2, <1>3, PhotosTypes
<1>5. \A p \in k.got : v3'[k.listing][p] # 0
    BY <1>0, <1>1, <1>2, <1>3, <1>4, PhotosWorkIs DEF PhotosActive
<1>6. \A m \in Album : v6'[m] # Photos!NoImage => v3'[m][v6'[m]] # 0
    BY <1>2, <1>4, PhotosTypes, PhotosWorkIs
<1>7. w \in v8' \/ k.got = k.tried
    BY <1>1, <1>2, PhotosWorkIs DEF PhotosActive
<1> QED
    BY <1>1, <1>2, <1>3, <1>4, <1>5, <1>6, <1>7, PhotosTypes, PhotosMoveStep
       DEF PhotosActive

LEMMA PhotosReplaceStep ==
    ASSUME Photos!Bounds, Photos!IInv, NEW w \in PhotoWork, Photos!Replace(w)
    PROVE  Photos!IInv'
<1>1. /\ v7[w].step = "fetch" /\ v7[w].tried = Order
      /\ UNCHANGED <<v1, v2, v3, v4, v5, v6, v8>>
    BY DEF Photos!Replace
<1>2. CASE v7[w].got = {}
    BY <1>1, <1>2, PhotosTypes, PhotosWorkIs, PhotosFinishStep DEF Photos!Replace
<1>3. CASE v7[w].got # {}
  <2>0. PICK k : k = [v7[w] EXCEPT !.step = "replace", !.seen = v4]
      OBVIOUS
  <2>1. /\ k \in Photos!Works /\ k.step = "replace" /\ k.version = v7[w].version
        /\ k.got = v7[w].got /\ k.tried = v7[w].tried
        /\ k.seen = v4 /\ k.listing = v7[w].listing
      BY <2>0, PhotosWorkIs, PhotosTypes DEF Photos!Works
  <2>2. /\ Photos!Becomes(w, k)
        /\ v9' = (v9 \/ \E v \in PhotoWork \ {w} : v7[v].step = "replace")
      BY <1>3, <2>0 DEF Photos!Replace
  <2>3. v9' \in BOOLEAN
      BY <2>2
  <2> QED
      BY <1>1, <1>3, <2>1, <2>2, <2>3, PhotosTypes, PhotosWorkIs, PhotosMoveStep
         DEF PhotosActive
<1> QED
    BY <1>2, <1>3

LEMMA PhotosImageStep ==
    ASSUME Photos!Bounds, Photos!IInv, NEW w \in PhotoWork, Photos!SetImage(w)
    PROVE  Photos!IInv'
<1>0. PICK l, o : l = v7[w].listing /\ o = Photos!Min(v7[w].got)
    OBVIOUS
<1>1. /\ v7[w].step = "image" /\ v6' = [v6 EXCEPT ![l] = o] /\ Photos!Finished(w)
      /\ UNCHANGED <<v1, v2, v3, v4, v5, v8, v9>>
    BY <1>0 DEF Photos!SetImage
<1>2. l \in Album /\ v7[w].got \in SUBSET Nat /\ v7[w].got # {} /\ v7[w].got \subseteq Order
    BY <1>0, <1>1, PhotosWorkIs, PhotosTypes
<1>3. \E k \in v7[w].got : \A j \in v7[w].got : k <= j
    BY <1>2, Least
<1>4. o \in v7[w].got
    BY <1>0, <1>3 DEF Photos!Min
<1>5. o \in Order /\ v3[l][o] # 0
    BY <1>0, <1>1, <1>2, <1>4, PhotosWorkIs DEF PhotosActive
<1>6. /\ v6' \in [Album -> Order \cup {Photos!NoImage}]
      /\ \A m \in Album : v6'[m] # Photos!NoImage => v3[m][v6'[m]] # 0
    BY <1>1, <1>2, <1>5, PhotosTypes, PhotosWorkIs
<1> QED
    BY <1>1, <1>6, PhotosFinishStep

LEMMA PhotosFailStep ==
    ASSUME Photos!Bounds, Photos!IInv, NEW w \in PhotoWork, Photos!Fail(w)
    PROVE  Photos!IInv'
    BY PhotosTypes, PhotosWorkIs, PhotosFinishStep DEF Photos!Fail

\* The rows come to be those of one more handler; of each other one they all stay or go.
LEMMA PhotosCommitStep ==
    ASSUME Photos!Bounds, Photos!IInv, NEW w \in PhotoWork, Photos!Commit(w)
    PROVE  Photos!IInv'
<1>0. PICK k, q, new : /\ k = v7[w] /\ q = [v7[w] EXCEPT !.step = "image"]
                       /\ new = Photos!Rows(w, v7[w])
    OBVIOUS
<1>1. /\ k.step = "replace" /\ v4' = (v4 \ k.seen) \cup new
      /\ v5' = (IF k.dated THEN k.version ELSE v1) /\ Photos!Becomes(w, q)
      /\ UNCHANGED <<v1, v2, v3, v6, v8, v9>>
    BY <1>0 DEF Photos!Commit
<1>2. /\ k \in Photos!Works
      /\ k.listing \in Album
      /\ k.version \in 0..PhotoTime
      /\ k.got \subseteq Order
      /\ k.tried = Order /\ k.got # {} /\ k.seen \subseteq Photos!Photos /\ k.version # 0
      /\ \A o \in k.got : v3[k.listing][o] # 0
      /\ w \in v8 \/ k.got = Order
    BY <1>0, <1>1, PhotosWorkIs DEF PhotosActive
<1>3. /\ \A x \in v4 : x.by # w
      /\ \A z \in PhotoWork : \A x \in v7[z].seen : x.by # w
      /\ \A x, y \in v4 : x.by = y.by => (x \in k.seen <=> y \in k.seen)
      /\ ~ v9 => k.seen = v4 /\ \A v \in PhotoWork \ {w} : v7[v].step # "replace"
    BY <1>0, <1>1 DEF Photos!IInv, Photos!Handles
<1>4. /\ new = {[listing |-> k.listing, version |-> k.version, order |-> o, by |-> w] : o \in k.got}
      /\ \A x \in new : x \in Photos!Photos /\ x.by = w /\ x.listing = k.listing /\ x.order \in k.got
      /\ \A o \in k.got : \E x \in new : x.order = o
  <2>1. new = {[listing |-> k.listing, version |-> k.version, order |-> o, by |-> w] : o \in k.got}
      BY <1>0 DEF Photos!Rows
  <2>2. ASSUME NEW x \in new
        PROVE  x \in Photos!Photos /\ x.by = w /\ x.listing = k.listing /\ x.order \in k.got
    <3>1. PICK o \in k.got :
               x = [listing |-> k.listing, version |-> k.version, order |-> o, by |-> w]
        BY <2>1
    <3> QED
        BY <1>2, <3>1 DEF Photos!Photos
  <2>3. ASSUME NEW o \in k.got PROVE \E x \in new : x.order = o
    <3>1. [listing |-> k.listing, version |-> k.version, order |-> o, by |-> w] \in new
        BY <2>1
    <3> QED
        BY <3>1
  <2> QED
      BY <2>1, <2>2, <2>3
<1>5. /\ q \in Photos!Works
      /\ q.step = "image"
      /\ q.version = k.version
      /\ q.got = k.got
      /\ q.tried = k.tried
      /\ q.seen = k.seen /\ q.listing = k.listing
    BY <1>0, <1>2 DEF Photos!Works
<1>6. v7' \in [PhotoWork -> Photos!Works] /\ v7'[w] = q /\ \A v \in PhotoWork \ {w} : v7'[v] = v7[v]
    BY <1>1, <1>5, PhotosTypes DEF Photos!Becomes
<1>7. v4' \subseteq Photos!Photos /\ v5' \in 0..PhotoTime
    BY <1>1, <1>2, <1>4, PhotosTypes
<1>8. Photos!TypeOK'
    BY <1>1, <1>6, <1>7, PhotosTypes, PhotosTypesHold DEF Photos!TypeOK, Photos!Photos,
       Photos!Works
<1>9. \A x \in v4' : v3[x.listing][x.order] # 0
    BY <1>1, <1>2, <1>4 DEF Photos!IInv, Photos!PhotosAreOneSet
<1>10. ~ v9 => v4' = new
    BY <1>1, <1>3
<1>11. ASSUME NEW x \in v4', x.by \notin v8
       PROVE  {y.order : y \in {z \in v4' : z.by = x.by}} = Order
  <2>1. CASE x.by = w
    <3>1. {z \in v4' : z.by = x.by} = new
        BY <1>1, <1>3, <1>4, <2>1
    <3>2. k.got = Order
        BY <1>2, <1>11, <2>1
    <3> QED
        BY <1>4, <3>1, <3>2
  <2>2. CASE x.by # w
    <3>1. x \in v4 /\ x \notin k.seen
        BY <1>1, <1>4, <2>2
    <3>2. \A z \in v4 : z.by = x.by => z \in v4'
        BY <1>1, <1>3, <3>1
    <3>3. \A z \in v4' : z.by = x.by => z \in v4
        BY <1>1, <1>4, <2>2
    <3>4. {z \in v4' : z.by = x.by} = {z \in v4 : z.by = x.by}
        BY <3>2, <3>3
    <3>5. {y.order : y \in {z \in v4 : z.by = x.by}} = Order
        BY <1>11, <3>1 DEF Photos!IInv, Photos!PhotosAreOneSet
    <3> QED
        BY <3>4, <3>5
  <2> QED
      BY <2>1, <2>2
<1>12. Photos!PhotosAreOneSet'
  <2>1. ~ v9' => \A x, y \in v4' : x.by = y.by
      BY <1>1, <1>4, <1>10
  <2>2. \A l \in Album : v6'[l] # Photos!NoImage => v3'[l][v6'[l]] # 0
      BY <1>1, PhotosWorkIs
  <2>3. /\ \A x \in v4' : v3'[x.listing][x.order] # 0
        /\ \A x \in v4' : x.by \notin v8' =>
              {y.order : y \in {z \in v4' : z.by = x.by}} = Order
      BY <1>1, <1>9, <1>11
  <2> QED
      BY <2>1, <2>2, <2>3 DEF Photos!PhotosAreOneSet
<1>13. ASSUME NEW v \in PhotoWork PROVE Photos!Handles(v, v7[v])'
  <2>1. CASE v = w
    <3>1. v7'[v] = q
        BY <1>6, <2>1
    <3> QED
        BY <1>1, <1>2, <1>5, <2>1, <3>1 DEF Photos!Handles
  <2>2. CASE v # w
    <3>1. v7'[v] = v7[v] /\ Photos!Handles(v, v7[v])
        BY <1>6, <2>2 DEF Photos!IInv
    <3>2. \A z \in PhotoWork : v7'[z].seen = v7[z].seen
        BY <1>0, <1>5, <1>6
    <3>3. ASSUME v7[v].step \in {"new", "fetch", "replace"},
                 NEW x \in v4' \cup UNION {v7'[z].seen : z \in PhotoWork}
          PROVE  x.by # v
      <4>1. CASE x \in new
          BY <1>4, <2>2, <4>1
      <4>2. CASE x \in v4
          BY <3>1, <3>3, <4>2 DEF Photos!Handles
      <4>3. CASE \E z \in PhotoWork : x \in v7'[z].seen
          BY <3>1, <3>2, <3>3, <4>3 DEF Photos!Handles
      <4> QED
          BY <1>1, <3>3, <4>1, <4>2, <4>3
    <3>4. ASSUME v7[v].step = "replace", NEW x \in v4', NEW y \in v4', x.by = y.by
          PROVE  x \in v7[v].seen <=> y \in v7[v].seen
      <4>1. CASE x.by = w
          BY <1>3, <3>4, <4>1
      <4>2. CASE x.by # w
        <5>1. x \in v4 /\ y \in v4
            BY <1>1, <1>4, <3>4, <4>2
        <5> QED
            BY <3>1, <3>4, <5>1 DEF Photos!Handles
      <4> QED
          BY <4>1, <4>2
    <3>5. v7[v].step = "replace" => v9
        BY <1>3, <2>2
    <3> QED
        BY <1>1, <3>1, <3>3, <3>4, <3>5 DEF Photos!Handles
  <2> QED
      BY <2>1, <2>2
<1> QED
    BY <1>6, <1>7, <1>8, <1>12, <1>13 DEF Photos!IInv

LEMMA PhotosInductive ==
    ASSUME Photos!Bounds
    PROVE  Photos!IInv /\ [Photos!Next]_(Photos!vars) => Photos!IInv'
<1> SUFFICES ASSUME Photos!IInv, [Photos!Next]_(Photos!vars) PROVE Photos!IInv'
    OBVIOUS
<1>1. CASE UNCHANGED Photos!vars
    BY <1>1 DEF Photos!vars, Photos!IInv, Photos!TypeOK, Photos!PhotosAreOneSet,
       Photos!Handles
<1> QED
    BY <1>1, PhotosChangeStep, PhotosStartStep, PhotosFetchStep, PhotosLoseStep,
       PhotosReplaceStep, PhotosCommitStep, PhotosImageStep, PhotosFailStep
       DEF Photos!Next

LEMMA PhotosProperties == Photos!IInv => Photos!TypeOK /\ Photos!PhotosAreOneSet
    BY DEF Photos!IInv

-----------------------------------------------------------------------------
(* The alerts of a saved search.                                           *)
(* v1 now, v2 created, v3 active, v4 search, v5 run, v6 told, v7 passed.   *)

AlertsRuns == [step : {"idle", "alert", "count", "send", "write"}, last : 0..SearchTime, found : SUBSET Advertised]

AlertsSearches == [state : {"none", "saved", "gone"}, last : 0..SearchTime,
                   criteria : Alerts!Matches]

LEMMA AlertsTypes ==
    ASSUME Alerts!Bounds, Alerts!IInv
    PROVE  /\ v1 \in 1..SearchTime /\ v1 \in Nat
           /\ v2 \in [Advertised -> 0..SearchTime] /\ \A h \in Advertised : v2[h] \in Nat
           /\ v3 \subseteq Advertised /\ v6 \subseteq Advertised /\ v7 \subseteq Advertised
           /\ v4 \in AlertsSearches
           /\ v4.last \in Nat /\ v4.last <= v1
           /\ v5 \in [SearchRun -> AlertsRuns]
    BY DEF Alerts!Bounds, Alerts!IInv, Alerts!TypeOK, AlertsRuns, AlertsSearches

LEMMA AlertsInitially == ASSUME Alerts!Bounds PROVE Alerts!Init => Alerts!IInv
<1> SUFFICES ASSUME Alerts!Init PROVE Alerts!IInv
    OBVIOUS
<1>1. 0 \in 0..SearchTime /\ 1 \in 1..SearchTime /\ Alerts!Idle \in AlertsRuns
    BY DEF Alerts!Bounds, Alerts!Idle, AlertsRuns
<1>2. /\ v4.state = "none" /\ v4.last = 0
      /\ v4 \in AlertsSearches
  <2>1. [alert |-> {}, count |-> {}] \in Alerts!Matches
      BY DEF Alerts!Matches
  <2> QED
      BY <1>1, <2>1 DEF Alerts!Init, Alerts!NoSearch, AlertsSearches
<1>3. v5 \in [SearchRun -> AlertsRuns] /\ \A r \in SearchRun : v5[r].step = "idle"
    BY <1>1 DEF Alerts!Init, Alerts!Idle
<1>4. Alerts!TypeOK
    BY <1>1, <1>2, <1>3 DEF Alerts!Init, Alerts!TypeOK, AlertsRuns, AlertsSearches
<1> QED
    BY <1>2, <1>3, <1>4 DEF Alerts!Init, Alerts!IInv, Alerts!NothingIsMissed

\* One run moves, and no property or search does.
LEMMA AlertsRunStep ==
    ASSUME Alerts!Bounds, Alerts!IInv, NEW r \in SearchRun, NEW q \in AlertsRuns,
           Alerts!Becomes(r, q),
           UNCHANGED <<v1, v2, v3, v4>>, v6' \subseteq Advertised,
           v6 \subseteq v6', v7' \subseteq Advertised, v7 \subseteq v7', v4.state # "none",
           q.step = "alert" => q.last <= v4.last,
           q.step = "write" => q.found \subseteq v6' \cup v7',
           v4.state = "saved" /\ q.step # "idle" =>
              \A h \in Alerts!Both(v4.criteria) \cap v3 : h \in v6' \cup v7' \cup q.found
    PROVE  Alerts!IInv'
<1>1. v5' \in [SearchRun -> AlertsRuns] /\ v5'[r] = q /\ \A z \in SearchRun \ {r} : v5'[z] = v5[z]
    BY AlertsTypes DEF Alerts!Becomes
<1>2. Alerts!TypeOK'
    BY <1>1, AlertsTypes DEF Alerts!TypeOK, AlertsRuns, AlertsSearches
<1>3. Alerts!NothingIsMissed'
    BY DEF Alerts!IInv, Alerts!NothingIsMissed
<1>4. \A z \in SearchRun : /\ v5'[z].step = "alert" => v5'[z].last <= v4.last
                           /\ v5'[z].step = "write" => v5'[z].found \subseteq v6' \cup v7'
    BY <1>1 DEF Alerts!IInv
<1>5. ASSUME v4.state = "saved", NEW z \in SearchRun, NEW h \in Alerts!Both(v4.criteria) \cap v3
      PROVE  Alerts!Leaves(v5[z], h)'
  <2>1. CASE z = r
      BY <1>1, <1>5, <2>1 DEF Alerts!Leaves
  <2>2. CASE z # r
    <3>1. Alerts!Leaves(v5[z], h) /\ v5'[z] = v5[z]
        BY <1>1, <1>5, <2>2 DEF Alerts!IInv
    <3> QED
        BY <3>1 DEF Alerts!Leaves
  <2> QED
      BY <2>1, <2>2
<1> QED
    BY <1>2, <1>3, <1>4, <1>5, AlertsTypes DEF Alerts!IInv, Alerts!Both

LEMMA AlertsIdleIs ==
    ASSUME Alerts!Bounds
    PROVE  Alerts!Idle \in AlertsRuns /\ Alerts!Idle.step = "idle"
    BY DEF Alerts!Bounds, Alerts!Idle, AlertsRuns

LEMMA AlertsFoundIs ==
    ASSUME NEW k \in AlertsRuns, NEW new \in SUBSET Advertised,
           NEW step \in {"send", "write"}
    PROVE  /\ [k EXCEPT !.step = step, !.found = new] \in AlertsRuns
           /\ [k EXCEPT !.step = step, !.found = new].step = step
           /\ [k EXCEPT !.step = step, !.found = new].found = new
<1>1. PICK j : j = [k EXCEPT !.step = step]
    OBVIOUS
<1>2. j \in AlertsRuns /\ j.step = step
    BY <1>1 DEF AlertsRuns
<1>3. [k EXCEPT !.step = step, !.found = new] = [j EXCEPT !.found = new]
    BY <1>1, <1>2 DEF AlertsRuns
<1> QED
    BY <1>2, <1>3 DEF AlertsRuns

\* A search that has not been saved has no run.
LEMMA AlertsSaved ==
    ASSUME Alerts!IInv, NEW r \in SearchRun, v5[r].step # "idle"
    PROVE  v4.state # "none"
    BY DEF Alerts!IInv

LEMMA AlertsTickStep == ASSUME Alerts!Bounds, Alerts!IInv, Alerts!Tick PROVE Alerts!IInv'
<1>1. v1' \in 1..SearchTime /\ v1' \in Nat /\ v1 <= v1'
    BY AlertsTypes DEF Alerts!Tick, Alerts!Bounds
<1>2. UNCHANGED <<v2, v3, v4, v5, v6, v7>>
    BY DEF Alerts!Tick
<1>3. Alerts!TypeOK' /\ Alerts!NothingIsMissed'
    BY <1>1, <1>2 DEF Alerts!IInv, Alerts!TypeOK, Alerts!NothingIsMissed
<1>4. v4'.last <= v1' /\ \A h \in Advertised : v2'[h] <= v1'
    BY <1>1, <1>2, AlertsTypes DEF Alerts!IInv
<1> QED
    BY <1>2, <1>3, <1>4 DEF Alerts!IInv, Alerts!Leaves, Alerts!Both

\* A property comes to match: where no count to come sees it, it is passed.
LEMMA AlertsMatchStep ==
    ASSUME Alerts!Bounds, Alerts!IInv, NEW k \in Advertised, UNCHANGED <<v1, v4, v5, v6>>,
           v2' \in [Advertised -> 0..SearchTime], \A h \in Advertised \ {k} : v2'[h] = v2[h],
           v2'[k] <= v1, v2'[k] # 0,
           v3' \subseteq v3 \cup {k}, v3 \subseteq v3',
           v7 \subseteq v7', v7' \subseteq Advertised,
           k \notin v3' \/ k \in v7' \/ (~Alerts!Blind(k) /\ v2'[k] > v4.last)
    PROVE  Alerts!IInv'
<1>1. Alerts!TypeOK'
    BY AlertsTypes DEF Alerts!TypeOK, AlertsRuns, AlertsSearches
<1>2. Alerts!NothingIsMissed'
  <2> SUFFICES ASSUME NEW h \in Alerts!Both(v4.criteria) \cap v3', v4.state = "saved"
               PROVE  h \in v6 \cup v7' \/ v2'[h] > v4.last
      BY DEF Alerts!NothingIsMissed
  <2>1. CASE h = k
      BY <2>1
  <2>2. CASE h # k
      BY <2>2, AlertsTypes DEF Alerts!IInv, Alerts!NothingIsMissed
  <2> QED
      BY <2>1, <2>2
<1>3. ASSUME v4.state = "saved", NEW r \in SearchRun, NEW h \in Alerts!Both(v4.criteria) \cap v3'
      PROVE  Alerts!Leaves(v5[r], h)'
  <2>1. CASE h = k /\ k \notin v7'
      BY <1>3, <2>1 DEF Alerts!Blind, Alerts!Leaves
  <2>2. CASE h = k /\ k \in v7'
      BY <1>3, <2>2 DEF Alerts!Leaves
  <2>3. CASE h # k
    <3>1. Alerts!Leaves(v5[r], h)
        BY <1>3, <2>3 DEF Alerts!IInv
    <3> QED
        BY <3>1 DEF Alerts!Leaves
  <2> QED
      BY <2>1, <2>2, <2>3
<1>4. \A h \in Advertised : v2'[h] <= v1
    BY DEF Alerts!IInv
<1>5. \A h \in v3' : v2'[h] # 0
    BY AlertsTypes DEF Alerts!IInv
<1> QED
    BY <1>1, <1>2, <1>3, <1>4, <1>5 DEF Alerts!IInv, Alerts!Both

LEMMA AlertsAddStep ==
    ASSUME Alerts!Bounds, Alerts!IInv, NEW h \in Advertised, NEW b \in BOOLEAN,
           Alerts!AddHome(h, b)
    PROVE  Alerts!IInv'
<1>1. /\ v2' = [v2 EXCEPT ![h] = v1] /\ UNCHANGED <<v1, v4, v5, v6>>
      /\ v3' = v3 \cup {h} \/ v3' = v3
      /\ v7' = IF Alerts!Blind(h) THEN v7 \cup {h} ELSE v7
    BY DEF Alerts!AddHome
<1>2. /\ v2' \in [Advertised -> 0..SearchTime] /\ v2'[h] = v1
      /\ \A g \in Advertised \ {h} : v2'[g] = v2[g]
    BY <1>1, AlertsTypes
<1>3. v1 # 0 /\ v1 <= v1
    BY AlertsTypes
<1>4. ~Alerts!Blind(h) => v1 > v4.last
    BY AlertsTypes DEF Alerts!Blind
<1> QED
    BY <1>1, <1>2, <1>3, <1>4, AlertsTypes, AlertsMatchStep

LEMMA AlertsActivateStep ==
    ASSUME Alerts!Bounds, Alerts!IInv, NEW h \in Advertised, Alerts!Activate(h)
    PROVE  Alerts!IInv'
<1>1. /\ v2' = v2 /\ UNCHANGED <<v1, v4, v5, v6>> /\ v2[h] # 0
      /\ v3' = v3 \cup {h}
      /\ v7' = IF Alerts!Blind(h) \/ v2[h] <= v4.last THEN v7 \cup {h} ELSE v7
    BY DEF Alerts!Activate
<1>2. v2[h] <= v1 /\ (~(v2[h] <= v4.last) => v2[h] > v4.last)
    BY AlertsTypes DEF Alerts!IInv
<1> QED
    BY <1>1, <1>2, AlertsTypes, AlertsMatchStep

LEMMA AlertsSaveStep ==
    ASSUME Alerts!Bounds, Alerts!IInv, NEW c \in Wanted, Alerts!Save(c)
    PROVE  Alerts!IInv'
<1>1. v4.state = "none" /\ v4'.state = "saved" /\ v4'.last = 0 /\ v4' \in AlertsSearches
  <2>1. v4 = Alerts!NoSearch /\ v4' = [v4 EXCEPT !.state = "saved", !.criteria = c]
      BY DEF Alerts!Save
  <2>2. v4' = [state |-> "saved", last |-> 0, criteria |-> c]
      BY <2>1 DEF Alerts!NoSearch
  <2>3. c \in Alerts!Matches /\ 0 \in 0..SearchTime
      BY DEF Alerts!Bounds
  <2> QED
      BY <2>1, <2>2, <2>3 DEF Alerts!NoSearch, AlertsSearches
<1>2. UNCHANGED <<v1, v2, v3, v5, v6, v7>> /\ \A r \in SearchRun : v5[r].step = "idle"
    BY <1>1 DEF Alerts!Save, Alerts!IInv
<1>3. Alerts!TypeOK'
    BY <1>1, <1>2, AlertsTypes DEF Alerts!TypeOK, AlertsRuns, AlertsSearches
<1>4. \A h \in Advertised : v3 # {} /\ h \in v3 => v2[h] > 0
    BY AlertsTypes DEF Alerts!IInv
<1>5. Alerts!NothingIsMissed'
    BY <1>1, <1>2, <1>4, AlertsTypes DEF Alerts!NothingIsMissed
<1> QED
    BY <1>1, <1>2, <1>3, <1>5, AlertsTypes DEF Alerts!IInv, Alerts!Leaves

\* The criteria change: what they now find is still to be counted, or is passed.
LEMMA AlertsChangeStep ==
    ASSUME Alerts!Bounds, Alerts!IInv, NEW c \in Wanted, Alerts!Change(c)
    PROVE  Alerts!IInv'
<1> DEFINE gained == {h \in (Alerts!Both(c) \ Alerts!Both(v4.criteria)) \cap v3 :
                         Alerts!Blind(h) \/ v2[h] <= v4.last}
<1>1. /\ v4.state = "saved" /\ v4' = [v4 EXCEPT !.criteria = c]
      /\ v7' = v7 \cup gained /\ UNCHANGED <<v1, v2, v3, v5, v6>>
    BY DEF Alerts!Change
<1>2. /\ v4'.state = "saved" /\ v4'.last = v4.last /\ v4'.criteria = c
      /\ v4' \in AlertsSearches
    BY <1>1, AlertsTypes DEF Alerts!Bounds, AlertsSearches
<1>3. v7 \subseteq v7' /\ v7' \subseteq Advertised
    BY <1>1, AlertsTypes
<1>4. Alerts!TypeOK'
    BY <1>1, <1>2, <1>3, AlertsTypes DEF Alerts!TypeOK, AlertsRuns, AlertsSearches
<1>5. ASSUME NEW h \in Alerts!Both(c) \cap v3
      PROVE  \/ h \in v7'
             \/ h \in Alerts!Both(v4.criteria) \cap v3
             \/ v2[h] > v4.last /\ ~Alerts!Blind(h)
    BY <1>1, <1>5, AlertsTypes
<1> HIDE DEF gained
<1>6. Alerts!NothingIsMissed'
    BY <1>1, <1>2, <1>3, <1>5 DEF Alerts!IInv, Alerts!NothingIsMissed
<1>7. ASSUME NEW r \in SearchRun, NEW h \in Alerts!Both(c) \cap v3
      PROVE  Alerts!Leaves(v5[r], h)'
  <2>1. CASE h \in Alerts!Both(v4.criteria) \cap v3
    <3>1. Alerts!Leaves(v5[r], h)
        BY <1>1, <2>1 DEF Alerts!IInv
    <3> QED
        BY <1>1, <1>3, <3>1 DEF Alerts!Leaves
  <2>2. CASE h \in v7'
      BY <2>2 DEF Alerts!Leaves
  <2>3. CASE ~Alerts!Blind(h)
      BY <1>1, <2>3 DEF Alerts!Leaves, Alerts!Blind
  <2> QED
      BY <1>5, <2>1, <2>2, <2>3
<1>8. \A z \in SearchRun : /\ v5'[z].step = "alert" => v5'[z].last <= v4'.last
                           /\ v5'[z].step = "write" => v5'[z].found \subseteq v6' \cup v7'
    BY <1>1, <1>2, <1>3 DEF Alerts!IInv
<1> QED
    BY <1>1, <1>2, <1>4, <1>6, <1>7, <1>8, AlertsTypes DEF Alerts!IInv

LEMMA AlertsDeleteStep ==
    ASSUME Alerts!Bounds, Alerts!IInv, Alerts!Delete
    PROVE  Alerts!IInv'
<1>1. /\ v4.state = "saved" /\ v4'.state = "gone" /\ v4'.last = v4.last
      /\ v4' \in AlertsSearches
    BY AlertsTypes DEF Alerts!Delete, AlertsSearches
<1>2. UNCHANGED <<v1, v2, v3, v5, v6, v7>>
    BY DEF Alerts!Delete
<1>3. Alerts!TypeOK' /\ Alerts!NothingIsMissed'
    BY <1>1, <1>2, AlertsTypes DEF Alerts!TypeOK, AlertsRuns, AlertsSearches,
       Alerts!NothingIsMissed
<1> QED
    BY <1>1, <1>2, <1>3 DEF Alerts!IInv

LEMMA AlertsFindStep ==
    ASSUME Alerts!Bounds, Alerts!IInv, NEW r \in SearchRun, NEW step \in {"alert", "count"},
           Alerts!Find(r, step)
    PROVE  Alerts!IInv'
<1>1. PICK q : q = [step |-> step, last |-> v4.last, found |-> v4.criteria[step]]
    OBVIOUS
<1>2. /\ v4.criteria[step] \subseteq Advertised
      /\ Alerts!Both(v4.criteria) \subseteq v4.criteria[step]
    BY AlertsTypes DEF AlertsSearches, Alerts!Matches, Alerts!Both
<1>3. /\ q \in AlertsRuns /\ q.step = step /\ q.last = v4.last
      /\ q.found = v4.criteria[step]
    BY <1>1, <1>2, AlertsTypes DEF AlertsRuns, AlertsSearches
<1>4. /\ Alerts!Becomes(r, q) /\ UNCHANGED <<v1, v2, v3, v4, v6, v7>>
      /\ v4.state = "saved"
    BY <1>1 DEF Alerts!Find
<1> QED
    BY <1>2, <1>3, <1>4, AlertsTypes, AlertsRunStep

LEMMA AlertsAlertStep ==
    ASSUME Alerts!Bounds, Alerts!IInv, NEW r \in SearchRun, Alerts!Alert(r)
    PROVE  Alerts!IInv'
<1>0. PICK new : new = {h \in v5[r].found \cap v3 : v2[h] > v5[r].last}
    OBVIOUS
<1>1. PICK q :
           q = IF new = {} THEN Alerts!Idle ELSE [v5[r] EXCEPT !.step = "send", !.found = new]
    OBVIOUS
<1>2. /\ Alerts!Becomes(r, q) /\ UNCHANGED <<v1, v2, v3, v4, v6, v7>>
      /\ v5[r].step = "alert" /\ v5[r].last <= v4.last /\ v5[r] \in AlertsRuns
    BY <1>0, <1>1, AlertsTypes DEF Alerts!Alert, Alerts!IInv
<1>3. \/ new = {} /\ q = Alerts!Idle
      \/ q = [v5[r] EXCEPT !.step = "send", !.found = new]
    BY <1>1
<1>4. q \in AlertsRuns /\ (q.step = "idle" \/ (q.step = "send" /\ q.found = new))
  <2>1. new \in SUBSET Advertised
      BY <1>0, AlertsTypes
  <2>2. PICK k \in AlertsRuns : k = v5[r]
      BY <1>2
  <2>3. /\ [k EXCEPT !.step = "send", !.found = new] \in AlertsRuns
        /\ [k EXCEPT !.step = "send", !.found = new].step = "send"
        /\ [k EXCEPT !.step = "send", !.found = new].found = new
      BY <2>1, AlertsFoundIs
  <2>4. q = Alerts!Idle \/ q = [k EXCEPT !.step = "send", !.found = new]
      BY <1>3, <2>2
  <2> QED
      BY <2>3, <2>4, AlertsIdleIs
<1>5. ASSUME v4.state = "saved", NEW h \in Alerts!Both(v4.criteria) \cap v3
      PROVE  h \in v6 \cup v7 \cup new
  <2>1. /\ h \in v6 \cup v7 \/ v2[h] > v4.last
        /\ h \in v6 \cup v7 \cup v5[r].found
      BY <1>2, <1>5 DEF Alerts!IInv, Alerts!NothingIsMissed, Alerts!Leaves
  <2>2. v2[h] > v4.last => v2[h] > v5[r].last
      BY <1>2, <1>5, AlertsTypes DEF AlertsRuns
  <2> QED
      BY <1>0, <1>5, <2>1, <2>2
<1>6. v4.state # "none"
    BY <1>2, AlertsSaved
<1> QED
    BY <1>2, <1>4, <1>5, <1>6, AlertsTypes, AlertsRunStep

LEMMA AlertsSendStep ==
    ASSUME Alerts!Bounds, Alerts!IInv, NEW r \in SearchRun,
           NEW outcome \in {"taken", "skipped", "refused"},
           Alerts!Send(r, outcome)
    PROVE  Alerts!IInv'
<1>1. PICK q :
           q = IF outcome = "refused" THEN Alerts!Idle ELSE [v5[r] EXCEPT !.step = "write"]
    OBVIOUS
<1>2. /\ Alerts!Becomes(r, q) /\ UNCHANGED <<v1, v2, v3, v4>>
      /\ v5[r].step = "send" /\ v5[r] \in AlertsRuns
      /\ v6' = IF outcome = "taken" THEN v6 \cup v5[r].found ELSE v6
      /\ v7' = IF outcome = "skipped" THEN v7 \cup v5[r].found ELSE v7
    BY <1>1, AlertsTypes DEF Alerts!Send
<1>3. /\ q \in AlertsRuns
      /\ q.step = "idle" \/ (q.step = "write" /\ q.found = v5[r].found /\ outcome # "refused")
    BY <1>1, <1>2, AlertsIdleIs DEF AlertsRuns
<1>4. ASSUME v4.state = "saved", NEW h \in Alerts!Both(v4.criteria) \cap v3
      PROVE  h \in v6 \cup v7 \cup v5[r].found
    BY <1>2, <1>4 DEF Alerts!IInv, Alerts!Leaves
<1>5. /\ v4.state # "none" /\ v6' \subseteq Advertised /\ v6 \subseteq v6'
      /\ v7' \subseteq Advertised /\ v7 \subseteq v7'
    BY <1>2, AlertsSaved, AlertsTypes DEF AlertsRuns
<1>6. q.step = "write" => q.found \subseteq v6' \cup v7'
    BY <1>2, <1>3
<1> QED
    BY <1>2, <1>3, <1>4, <1>5, <1>6, AlertsRunStep

LEMMA AlertsCountStep ==
    ASSUME Alerts!Bounds, Alerts!IInv, NEW r \in SearchRun, Alerts!Count(r)
    PROVE  Alerts!IInv'
<1>0. PICK all : all = {h \in v5[r].found : v2[h] # 0}
    OBVIOUS
<1>1. PICK q : q = [v5[r] EXCEPT !.step = "write", !.found = all]
    OBVIOUS
<1>2. /\ Alerts!Becomes(r, q) /\ UNCHANGED <<v1, v2, v3, v4, v7>>
      /\ v5[r].step = "count" /\ v5[r] \in AlertsRuns /\ v6' = v6 \cup all
    BY <1>0, <1>1, AlertsTypes DEF Alerts!Count
<1>3. q \in AlertsRuns /\ q.step = "write" /\ q.found = all /\ all \subseteq Advertised
  <2>1. all \in SUBSET Advertised
      BY <1>0, <1>2 DEF AlertsRuns
  <2>2. PICK k \in AlertsRuns : k = v5[r]
      BY <1>2
  <2>3. /\ [k EXCEPT !.step = "write", !.found = all] \in AlertsRuns
        /\ [k EXCEPT !.step = "write", !.found = all].step = "write"
        /\ [k EXCEPT !.step = "write", !.found = all].found = all
      BY <2>1, AlertsFoundIs
  <2> QED
      BY <1>1, <2>1, <2>2, <2>3
<1>4. ASSUME v4.state = "saved", NEW h \in Alerts!Both(v4.criteria) \cap v3
      PROVE  h \in v6 \cup v7 \cup all
  <2>1. h \in v6 \cup v7 \cup v5[r].found /\ v2[h] # 0
      BY <1>2, <1>4 DEF Alerts!IInv, Alerts!Leaves
  <2> QED
      BY <1>0, <2>1
<1>5. v4.state # "none"
    BY <1>2, AlertsSaved
<1> QED
    BY <1>2, <1>3, <1>4, <1>5, AlertsTypes, AlertsRunStep

LEMMA AlertsFailStep ==
    ASSUME Alerts!Bounds, Alerts!IInv, NEW r \in SearchRun, Alerts!Fail(r)
    PROVE  Alerts!IInv'
    BY AlertsIdleIs, AlertsSaved, AlertsTypes, AlertsRunStep DEF Alerts!Fail

LEMMA AlertsStampStep ==
    ASSUME Alerts!Bounds, Alerts!IInv, NEW r \in SearchRun, Alerts!Stamp(r)
    PROVE  Alerts!IInv'
<1>1. /\ v5[r].step = "write" /\ UNCHANGED <<v1, v2, v3, v6, v7>>
      /\ v5' = [v5 EXCEPT ![r] = Alerts!Idle]
      /\ v4' = IF v4.state = "saved" THEN [v4 EXCEPT !.last = v1] ELSE v4
    BY DEF Alerts!Stamp, Alerts!Becomes
<1>2. /\ v4' \in AlertsSearches
      /\ v4'.criteria = v4.criteria /\ v4'.state = v4.state /\ v4'.last <= v1 /\ v4.last <= v4'.last
      /\ v4.state # "none"
    BY <1>1, AlertsSaved, AlertsTypes DEF AlertsSearches
<1>3. v5' \in [SearchRun -> AlertsRuns] /\ \A z \in SearchRun : v5'[z] = v5[z] \/ v5'[z].step = "idle"
    BY <1>1, AlertsIdleIs, AlertsTypes
<1>4. Alerts!TypeOK'
    BY <1>1, <1>2, <1>3, AlertsTypes DEF Alerts!TypeOK, AlertsRuns, AlertsSearches
<1>5. Alerts!NothingIsMissed'
  <2>1. ASSUME v4.state = "saved", NEW h \in Alerts!Both(v4.criteria) \cap v3
        PROVE  h \in v6 \cup v7
      BY <1>1, <2>1 DEF Alerts!IInv, Alerts!Leaves
  <2> QED
      BY <1>1, <1>2, <2>1 DEF Alerts!NothingIsMissed
<1>6. ASSUME NEW z \in SearchRun, v5'[z].step = "write" PROVE v5'[z].found \subseteq v6 \cup v7
    BY <1>3, <1>6 DEF Alerts!IInv
<1>7. ASSUME NEW z \in SearchRun, v5'[z].step = "alert" PROVE v5'[z].last <= v4'.last
  <2>1. v5'[z] = v5[z] /\ v5[z].last <= v4.last /\ v5[z] \in AlertsRuns
      BY <1>3, <1>7, AlertsTypes DEF Alerts!IInv
  <2> QED
      BY <1>2, <2>1, AlertsTypes DEF AlertsRuns, AlertsSearches
<1>8. ASSUME v4.state = "saved", NEW z \in SearchRun, NEW h \in Alerts!Both(v4.criteria) \cap v3
      PROVE  Alerts!Leaves(v5[z], h)'
    BY <1>1, <1>3, <1>8 DEF Alerts!IInv, Alerts!Leaves
<1> QED
    BY <1>1, <1>2, <1>4, <1>5, <1>6, <1>7, <1>8 DEF Alerts!IInv

LEMMA AlertsInductive ==
    ASSUME Alerts!Bounds
    PROVE  Alerts!IInv /\ [Alerts!Next]_(Alerts!vars) => Alerts!IInv'
<1> SUFFICES ASSUME Alerts!IInv, [Alerts!Next]_(Alerts!vars) PROVE Alerts!IInv'
    OBVIOUS
<1>1. CASE UNCHANGED Alerts!vars
    BY <1>1 DEF Alerts!vars, Alerts!IInv, Alerts!TypeOK, Alerts!NothingIsMissed,
       Alerts!Leaves, Alerts!Both
<1>2. CASE Alerts!Tick \/ Alerts!Delete \/ \E c \in Wanted : Alerts!Save(c) \/ Alerts!Change(c)
    BY <1>2, AlertsTickStep, AlertsSaveStep, AlertsChangeStep, AlertsDeleteStep
<1>3. ASSUME NEW h \in Advertised,
             Alerts!Activate(h) \/ \E b \in BOOLEAN : Alerts!AddHome(h, b)
      PROVE  Alerts!IInv'
    BY <1>3, AlertsActivateStep, AlertsAddStep
<1>4. ASSUME NEW r \in SearchRun,
             \/ Alerts!Alert(r) \/ Alerts!Count(r) \/ Alerts!Stamp(r) \/ Alerts!Fail(r)
             \/ \E step \in {"alert", "count"} : Alerts!Find(r, step)
             \/ \E outcome \in {"taken", "skipped", "refused"} : Alerts!Send(r, outcome)
      PROVE  Alerts!IInv'
    BY <1>4, AlertsAlertStep, AlertsCountStep, AlertsStampStep, AlertsFailStep,
       AlertsFindStep, AlertsSendStep
<1> QED
    BY <1>1, <1>2, <1>3, <1>4 DEF Alerts!Next

LEMMA AlertsProperties == Alerts!IInv => Alerts!TypeOK /\ Alerts!NothingIsMissed
    BY DEF Alerts!IInv

-----------------------------------------------------------------------------
(* The inbox of a portal's owner.                                          *)
(* v1 lead, v2 patch, v3 inbox, v4 load, v5 owed, v6 slipped, v7 crossed,  *)
(* v8 changes.                                                             *)

\* The finite sets of the instance are those of FiniteSets.
LEMMA InboxSets ==
    \A S : /\ Inbox!IsFiniteSet(S) <=> IsFiniteSet(S)
          /\ Inbox!Cardinality(S) = Cardinality(S)
    BY DEF Inbox!IsFiniteSet, IsFiniteSet, Inbox!Cardinality, Cardinality

\* The newest of some rows.
LEMMA InboxMaxIs ==
    ASSUME NEW S \in SUBSET Nat, IsFiniteSet(S), S # {}
    PROVE  Inbox!Max(S) \in S /\ \A k \in S : k <= Inbox!Max(S)
<1>1. PICK l \in S : \A k \in S : l >= k
    BY Greatest
<1> QED
    BY <1>1 DEF Inbox!Max

LEMMA InboxMinIs ==
    ASSUME NEW S \in SUBSET Nat, S # {}
    PROVE  Inbox!Min(S) \in S /\ \A k \in S : Inbox!Min(S) <= k
<1>1. PICK l \in S : \A k \in S : l <= k
    BY Least
<1> QED
    BY <1>1 DEF Inbox!Min

\* A page holds the newest rows, and some where there are any.
LEMMA InboxPageIs ==
    ASSUME Inbox!Bounds, NEW rows \in SUBSET Lead
    PROVE  /\ Inbox!PageOf(rows) \in SUBSET rows
           /\ Inbox!Cursor(Inbox!PageOf(rows), rows) \in Lead \cup {0}
           /\ Inbox!Cursor(Inbox!PageOf(rows), rows) = 0 \/ Inbox!Cursor(Inbox!PageOf(rows), rows) \in Inbox!PageOf(rows)
           /\ \A l \in Inbox!PageOf(rows) : Inbox!Cursor(Inbox!PageOf(rows), rows) <= l
           /\ \A l \in rows \ Inbox!PageOf(rows) : l < Inbox!Cursor(Inbox!PageOf(rows), rows)
<1> DEFINE Above(l) == {k \in rows : k > l}
           page == Inbox!PageOf(rows)
<1>1. rows \in SUBSET Nat /\ IsFiniteSet(rows) /\ InboxPage \in Nat \ {0}
    BY FS_Subset, InboxSets DEF Inbox!Bounds
<1>2. \A l \in rows : Above(l) \in SUBSET rows /\ IsFiniteSet(Above(l)) /\ Cardinality(Above(l)) \in Nat
    BY <1>1, FS_Subset, FS_CardinalityType
<1>3. page = {l \in rows : Cardinality(Above(l)) < InboxPage}
    BY InboxSets DEF Inbox!PageOf
<1>4. ASSUME NEW l \in rows \ page, NEW p \in page PROVE l < p
  <2>1. l \in Nat /\ p \in Nat /\ p \in rows
      BY <1>1, <1>3
  <2>2. SUFFICES ASSUME p <= l PROVE FALSE
      BY <2>1
  <2>7. \A k \in rows : k > l => k > p
    <3>1. \A k \in rows : k \in Nat
        BY <1>1
    <3> QED
        BY <3>1, <2>1, <2>2
  <2>3. Above(l) \in SUBSET Above(p)
      BY <2>7
  <2>4. /\ IsFiniteSet(Above(p))
        /\ Cardinality(Above(l)) \in Nat
        /\ Cardinality(Above(p)) \in Nat
      BY <1>2, <2>1
  <2>5. Cardinality(Above(p)) < InboxPage /\ ~(Cardinality(Above(l)) < InboxPage)
      BY <1>3
  <2> HIDE DEF Above
  <2>6. Cardinality(Above(l)) <= Cardinality(Above(p))
      BY <2>3, <2>4, FS_Subset
  <2> QED
      BY <1>1, <2>4, <2>5, <2>6
<1>5. rows # {} => page # {}
  <2> SUFFICES ASSUME rows # {} PROVE page # {}
      OBVIOUS
  <2>1. PICK l \in rows : \A k \in rows : k <= l
      BY <1>1, Greatest
  <2>4. \A k \in rows : ~(k > l)
    <3>1. l \in Nat /\ \A k \in rows : k \in Nat
        BY <1>1
    <3> QED
        BY <3>1, <2>1
  <2>2. Above(l) = {}
      BY <2>4
  <2>3. Cardinality(Above(l)) = 0
      BY <2>2, FS_EmptySet
  <2> QED
      BY <2>3, <1>1, <1>3
<1>6. page \in SUBSET rows
    BY <1>3
<1> HIDE DEF page
<1>7. CASE rows = page
  <2>1. Inbox!Cursor(page, rows) = 0
      BY <1>7 DEF Inbox!Cursor
  <2>2. \A l \in page : l \in Nat /\ 0 <= l
    <3>1. \A l \in page : l \in Nat
        BY <1>1, <1>6
    <3> QED
        BY <3>1
  <2>3. rows \ page = {}
      BY <1>7
  <2> QED
      BY <2>1, <2>2, <2>3, <1>6 DEF page
<1>8. CASE rows # page
  <2>1. Inbox!Cursor(page, rows) = Inbox!Min(page)
      BY <1>8 DEF Inbox!Cursor
  <2>2. page # {} /\ page \in SUBSET Nat
      BY <1>1, <1>5, <1>6, <1>8
  <2>3. Inbox!Min(page) \in page /\ \A k \in page : Inbox!Min(page) <= k
      BY <2>2, InboxMinIs
  <2>4. \A l \in rows \ page : l < Inbox!Min(page)
      BY <2>3, <1>4
  <2>5. Inbox!Min(page) \in Lead
      BY <2>3, <1>6
  <2> QED
      BY <2>1, <2>3, <2>4, <2>5, <1>6 DEF page
<1> QED
    BY <1>7, <1>8

\* The rows from a cursor on leave out what is listed, and nothing else as long as the
\* cursor's own row matches.
LEMMA InboxFromIs ==
    ASSUME Inbox!Bounds, NEW filter, NEW cursor \in Lead \cup {0}
    PROVE  /\ Inbox!From(filter, cursor) \in SUBSET Lead
           /\ \A l \in Inbox!From(filter, cursor) :
                 Inbox!Matches(l, filter) /\ (cursor # 0 => l < cursor)
           /\ cursor = 0 \/ Inbox!Matches(cursor, filter) =>
                 \A l \in Lead : Inbox!Matches(l, filter) /\ (cursor # 0 => l < cursor)
                                    => l \in Inbox!From(filter, cursor)
<1> DEFINE rows == {l \in Lead : Inbox!Matches(l, filter) /\ (cursor # 0 => l <= cursor)}
<1>0. rows \in SUBSET Lead
    OBVIOUS
<1>1. rows \in SUBSET Lead /\ rows \in SUBSET Nat /\ IsFiniteSet(rows) /\ cursor \in Nat
  <2> HIDE DEF rows
  <2>1. Lead \in SUBSET Nat /\ IsFiniteSet(Lead)
      BY InboxSets DEF Inbox!Bounds
  <2>2. rows \in SUBSET Nat /\ cursor \in Nat
      BY <1>0, <2>1
  <2>3. IsFiniteSet(rows)
      BY <1>0, <2>1, FS_Subset
  <2> QED
      BY <1>0, <2>2, <2>3
<1>2. Inbox!From(filter, cursor) = IF cursor = 0 \/ rows = {} THEN rows ELSE rows \ {Inbox!Max(rows)}
    BY DEF Inbox!From
<1>3. \A l \in rows : Inbox!Matches(l, filter) /\ (cursor # 0 => l <= cursor) /\ l \in Nat
    BY <1>1
<1>4. \A l \in Lead : Inbox!Matches(l, filter) /\ (cursor # 0 => l <= cursor) => l \in rows
    OBVIOUS
<1>5. rows # {} => Inbox!Max(rows) \in rows /\ \A k \in rows : k <= Inbox!Max(rows)
    BY <1>1, InboxMaxIs
<1>6. CASE cursor = 0 \/ rows = {}
  <2>1. Inbox!From(filter, cursor) = rows
      BY <1>2, <1>6
  <2>2. \A l \in rows : cursor = 0
      BY <1>6
  <2>3. \A l \in Lead : Inbox!Matches(l, filter) /\ (cursor # 0 => l < cursor) => l \in rows
    <3> SUFFICES ASSUME NEW l \in Lead, Inbox!Matches(l, filter), cursor # 0 => l < cursor
                 PROVE  l \in rows
        OBVIOUS
    <3>1. l \in Nat /\ cursor \in Nat
        BY <1>1, InboxSets DEF Inbox!Bounds
    <3>2. cursor # 0 => l <= cursor
        BY <3>1
    <3> QED
        BY <3>2
  <2> QED
      BY <2>1, <2>2, <2>3, <1>1, <1>3
<1>7. CASE ~(cursor = 0 \/ rows = {})
  <2> HIDE DEF rows
  <2>1. Inbox!From(filter, cursor) = rows \ {Inbox!Max(rows)}
      BY <1>2, <1>7
  <2>2. PICK m \in rows : m = Inbox!Max(rows) /\ \A k \in rows : k <= m
      BY <1>5, <1>7
  <2>3. cursor \in Lead /\ m \in Nat /\ m <= cursor
      BY <1>3, <1>7, <2>2
  <2>4. \A l \in rows \ {m} : l < cursor
      BY <1>1, <1>3, <2>2, <2>3
  <2>5. ASSUME Inbox!Matches(cursor, filter) PROVE cursor = m
    <3>1. cursor \in rows
        BY <1>1, <1>4, <2>3, <2>5
    <3> QED
        BY <3>1, <1>1, <2>2, <2>3
  <2>6. ASSUME NEW l \in Lead, Inbox!Matches(l, filter),
               l < cursor, Inbox!Matches(cursor, filter)
        PROVE  l \in rows \ {m}
    <3>1. l \in Nat
        BY InboxSets DEF Inbox!Bounds
    <3> QED
        BY <3>1, <2>5, <2>6, <1>1, <1>4
  <2> QED
      BY <2>1, <2>2, <2>4, <2>6, <1>1, <1>3, <1>7
<1> QED
    BY <1>6, <1>7

LEMMA InboxNumbers == ASSUME Inbox!Bounds, NEW l \in Lead \cup {0} PROVE l \in Nat
    BY InboxSets DEF Inbox!Bounds

LEMMA InboxTypes ==
    ASSUME Inbox!Bounds, Inbox!IInv
    PROVE  /\ v1 \in [Lead -> Inbox!Leads] /\ v2 \in [LeadPatch -> Inbox!Patches]
           /\ v4 \in [LeadFetch -> Inbox!Loads] /\ v3 \in Inbox!Lists
           /\ v5 \in SUBSET Lead /\ v6 \in BOOLEAN /\ v7 \in BOOLEAN
           /\ Lead \subseteq Nat \ {0}
    BY InboxSets DEF Inbox!Bounds, Inbox!IInv, Inbox!TypeOK

\* What the types say again.
LEMMA InboxTypesAre ==
    ASSUME v1' \in [Lead -> Inbox!Leads], v2' \in [LeadPatch -> Inbox!Patches],
           v4' \in [LeadFetch -> Inbox!Loads], v3' \in Inbox!Lists,
           v5' \in SUBSET Lead, v6' \in BOOLEAN, v7' \in BOOLEAN
    PROVE  Inbox!TypeOK'
<1>1. \A l \in Lead : v1'[l] \in Inbox!Leads
    OBVIOUS
<1>2. \A p \in LeadPatch : v2'[p] \in Inbox!Patches
    OBVIOUS
<1>3. \A n \in LeadFetch : v4'[n] \in Inbox!Loads
    OBVIOUS
<1>4. /\ v3'.filter \in LeadFilter \cup {"all"} /\ v3'.shown \in Seq(SUBSET Lead)
      /\ v3'.next \in Lead \cup {0} /\ v3'.loading \in BOOLEAN
    BY DEF Inbox!Lists
<1> QED
    BY <1>1, <1>2, <1>3, <1>4 DEF Inbox!TypeOK, Inbox!Leads, Inbox!Patches, Inbox!Loads

\* Rows are written, and what is owed still matches.
LEMMA InboxLeadsStep ==
    ASSUME Inbox!Bounds, Inbox!IInv,
           v1' \in [Lead -> Inbox!Leads], v2' \in [LeadPatch -> Inbox!Patches],
           \A p \in LeadPatch : v2'[p].step = "write" => v2'[p].lead \in Lead,
           UNCHANGED <<v3, v4, v6, v7>>, v5' \in SUBSET v5,
           \A l \in v5' : Inbox!Matches(l, v3.filter) => Inbox!Matches(l, v3.filter)'
    PROVE  Inbox!IInv'
<1>1. Inbox!TypeOK'
    BY InboxTypes, InboxTypesAre
<1>2. Inbox!Loading' = Inbox!Loading /\ (Inbox!Clean' <=> Inbox!Clean)
    BY DEF Inbox!Loading, Inbox!Clean
<1>3. SUFFICES ASSUME Inbox!Clean PROVE
          /\ \A m, n \in Inbox!Loading : m = n
          /\ \A n \in Inbox!Loading : Inbox!Awaited(v4[n])'
          /\ (\A n \in Inbox!Loading : v4[n].cursor # 0) =>
                Inbox!Apart(v3.shown) /\ \A l \in Inbox!Ids(v3.shown) : v3.next <= l
          /\ (\A n \in Inbox!Loading : v4[n].cursor # 0 \/ v4[n].step = "served") =>
                \A l \in v5' : Inbox!Matches(l, v3.filter)'
          /\ ~v6 /\ (\A n \in Inbox!Loading : v4[n].cursor # 0 /\ v4[n].step = "out") =>
                \A l \in v5' : l \in Inbox!Ids(v3.shown) \/ l < v3.next
          /\ \A n \in Inbox!Loading : v4[n].step = "served" => Inbox!Continues(v4[n])'
    BY <1>1, <1>2, InboxTypes DEF Inbox!IInv, Inbox!Apart, Inbox!Ids
<1>4. \A n \in Inbox!Loading : Inbox!Awaited(v4[n])'
    BY <1>3 DEF Inbox!IInv, Inbox!Awaited
<1>5. \A n \in Inbox!Loading : v4[n].step = "served" => Inbox!Continues(v4[n])'
    BY <1>3 DEF Inbox!IInv, Inbox!Continues, Inbox!Ids
<1> QED
    BY <1>3, <1>4, <1>5 DEF Inbox!IInv

LEMMA InboxInitially == ASSUME Inbox!Bounds PROVE Inbox!Init => Inbox!IInv
<1> SUFFICES ASSUME Inbox!Init PROVE Inbox!IInv
    OBVIOUS
<1>1. /\ Inbox!NoLead \in Inbox!Leads
      /\ Inbox!NoPatch \in Inbox!Patches
      /\ Inbox!NoLoad \in Inbox!Loads
    BY DEF Inbox!NoLead, Inbox!NoPatch, Inbox!NoLoad, Inbox!Leads, Inbox!Patches,
       Inbox!Loads, Inbox!Statuses
<1>2. /\ v1 \in [Lead -> Inbox!Leads]
      /\ v2 \in [LeadPatch -> Inbox!Patches]
      /\ v4 \in [LeadFetch -> Inbox!Loads]
      /\ \A n \in LeadFetch : v4[n].step = "new"
      /\ \A p \in LeadPatch : v2[p].step = "new"
    BY <1>1 DEF Inbox!Init, Inbox!NoLoad, Inbox!NoPatch
<1>3. v3 \in Inbox!Lists /\ v3.shown = <<>> /\ v3.next = 0
    BY DEF Inbox!Init, Inbox!Lists
<1>4. Inbox!TypeOK
  <2>1. \A l \in Lead : v1[l] \in Inbox!Leads
      BY <1>2
  <2>2. \A p \in LeadPatch : v2[p] \in Inbox!Patches
      BY <1>2
  <2>3. \A n \in LeadFetch : v4[n] \in Inbox!Loads
      BY <1>2
  <2>4. /\ v3.filter \in LeadFilter \cup {"all"} /\ v3.shown \in Seq(SUBSET Lead)
        /\ v3.next \in Lead \cup {0} /\ v3.loading \in BOOLEAN
      BY <1>3 DEF Inbox!Lists
  <2> QED
      BY <2>1, <2>2, <2>3, <2>4 DEF Inbox!Init, Inbox!TypeOK, Inbox!Leads, Inbox!Patches,
         Inbox!Loads
<1>5. Inbox!Loading = {} /\ v5 = {}
    BY <1>2 DEF Inbox!Init, Inbox!Loading
<1>6. Inbox!Ids(v3.shown) = {} /\ Inbox!Apart(v3.shown)
    BY <1>3 DEF Inbox!Ids, Inbox!Apart
<1>7. \A p \in LeadPatch : v2[p].step # "write"
  <2> TAKE p \in LeadPatch
  <2>1. v2[p].step = "new"
      BY <1>2
  <2> QED
      BY <2>1
<1> QED
    BY <1>2, <1>3, <1>4, <1>5, <1>6, <1>7 DEF Inbox!IInv

\* A lead whose status is written is no longer owed where it ceases to match.
LEMMA InboxWriteStep ==
    ASSUME Inbox!Bounds, Inbox!IInv, NEW l \in Lead, NEW row \in Inbox!Leads,
           row.status # "none", Inbox!Write(l, row),
           v2' \in [LeadPatch -> Inbox!Patches],
           \A p \in LeadPatch : v2'[p].step = "write" => v2'[p].lead \in Lead,
           UNCHANGED <<v3, v4, v6, v7>>
    PROVE  Inbox!IInv'
<1>1. v1' \in [Lead -> Inbox!Leads] /\ v1'[l] = row /\ \A k \in Lead \ {l} : v1'[k] = v1[k]
    BY InboxTypes DEF Inbox!Write
<1>2. v5' \in SUBSET v5
    BY DEF Inbox!Write
<1>3. l \in v5' => v3.filter \in {"all", row.status}
    BY DEF Inbox!Write
<1>4. ASSUME NEW k \in v5', Inbox!Matches(k, v3.filter) PROVE Inbox!Matches(k, v3.filter)'
  <2>1. k \in Lead /\ v3' = v3
      BY <1>2, InboxTypes
  <2>2. CASE k = l
      BY <1>1, <1>3, <1>4, <2>1, <2>2 DEF Inbox!Matches
  <2>3. CASE k # l
      BY <1>1, <1>4, <2>1, <2>3 DEF Inbox!Matches
  <2> QED
      BY <2>2, <2>3
<1> QED
    BY <1>1, <1>2, <1>4, InboxLeadsStep

LEMMA InboxArriveStep ==
    ASSUME Inbox!Bounds, Inbox!IInv, NEW l \in Lead, Inbox!Arrive(l)
    PROVE  Inbox!IInv'
<1>1. v1[l] = Inbox!NoLead
    BY DEF Inbox!Arrive
<1>2. /\ v1' \in [Lead -> Inbox!Leads] /\ v1'[l].status = "NEW"
      /\ \A k \in Lead \ {l} : v1'[k] = v1[k]
  <2>1. /\ [v1[l] EXCEPT !.status = "NEW"] \in Inbox!Leads
        /\ [v1[l] EXCEPT !.status = "NEW"].status = "NEW"
    <3>1. v1[l] \in Inbox!Leads
        BY InboxTypes
    <3> QED
        BY <3>1 DEF Inbox!Leads, Inbox!Statuses
  <2>2. v1' = [v1 EXCEPT ![l] = [v1[l] EXCEPT !.status = "NEW"]]
      BY DEF Inbox!Arrive
  <2> QED
      BY <2>1, <2>2, InboxTypes
<1>3. ASSUME NEW k \in v5, Inbox!Matches(k, v3.filter) PROVE Inbox!Matches(k, v3.filter)'
  <2>1. k \in Lead /\ k # l
      BY <1>1, <1>3, InboxTypes DEF Inbox!Matches, Inbox!NoLead
  <2>2. v3' = v3
      BY DEF Inbox!Arrive
  <2> QED
      BY <1>2, <1>3, <2>1, <2>2 DEF Inbox!Matches
<1>4. UNCHANGED <<v2, v3, v4, v5, v6, v7>>
    BY DEF Inbox!Arrive
<1>5. \A p \in LeadPatch : v2[p].step = "write" => v2[p].lead \in Lead
    BY DEF Inbox!IInv
<1> QED
    BY <1>2, <1>3, <1>4, <1>5, InboxTypes, InboxLeadsStep

LEMMA InboxRespondStep ==
    ASSUME Inbox!Bounds, Inbox!IInv, NEW l \in Lead, Inbox!Respond(l)
    PROVE  Inbox!IInv'
<1> DEFINE row == [status |-> "RESPONDED", respondedAt |-> TRUE]
<1>1. row \in Inbox!Leads /\ row.status # "none"
    BY DEF Inbox!Leads, Inbox!Statuses
<1>2. Inbox!Write(l, row) /\ UNCHANGED <<v2, v3, v4, v6, v7>>
    BY DEF Inbox!Respond
<1>3. \A p \in LeadPatch : v2[p].step = "write" => v2[p].lead \in Lead
    BY DEF Inbox!IInv
<1> HIDE DEF row
<1> QED
    BY <1>1, <1>2, <1>3, InboxTypes, InboxWriteStep

LEMMA InboxPatchInquiryStep ==
    ASSUME Inbox!Bounds, Inbox!IInv, NEW l \in Lead, NEW status \in Mark,
           Inbox!PatchInquiry(l, status)
    PROVE  Inbox!IInv'
<1> DEFINE row == [v1[l] EXCEPT !.status = status]
<1>0. status \in Inbox!Statuses /\ v1[l] \in Inbox!Leads
    BY InboxTypes, InboxSets DEF Inbox!Bounds
<1>1. row \in Inbox!Leads /\ row.status # "none"
    BY <1>0 DEF Inbox!Leads, Inbox!Statuses
<1>2. Inbox!Write(l, row) /\ UNCHANGED <<v2, v3, v4, v6, v7>>
    BY DEF Inbox!PatchInquiry
<1>3. \A p \in LeadPatch : v2[p].step = "write" => v2[p].lead \in Lead
    BY DEF Inbox!IInv
<1> HIDE DEF row
<1> QED
    BY <1>1, <1>2, <1>3, InboxTypes, InboxWriteStep

LEMMA InboxReadLeadStep ==
    ASSUME Inbox!Bounds, Inbox!IInv, NEW p \in LeadPatch, NEW l \in Lead,
           NEW status \in Mark,
           Inbox!ReadLead(p, l, status)
    PROVE  Inbox!IInv'
<1> DEFINE q == [step |-> "write", lead |-> l, status |-> status]
<1>1. q \in Inbox!Patches /\ q.lead \in Lead
    BY InboxSets DEF Inbox!Patches, Inbox!Bounds
<1>2. v2' = [v2 EXCEPT ![p] = q] /\ UNCHANGED <<v1, v3, v4, v5, v6, v7>>
    BY DEF Inbox!ReadLead
<1> HIDE DEF q
<1>3. v2' \in [LeadPatch -> Inbox!Patches]
    BY <1>1, <1>2, InboxTypes
<1>4. \A z \in LeadPatch : v2'[z].step = "write" => v2'[z].lead \in Lead
    BY <1>1, <1>2, InboxTypes DEF Inbox!IInv
<1>5. \A k \in v5 : Inbox!Matches(k, v3.filter) => Inbox!Matches(k, v3.filter)'
    BY <1>2 DEF Inbox!Matches
<1> QED
    BY <1>2, <1>3, <1>4, <1>5, InboxTypes, InboxLeadsStep

LEMMA InboxWriteLeadStep ==
    ASSUME Inbox!Bounds, Inbox!IInv, NEW p \in LeadPatch, Inbox!WriteLead(p)
    PROVE  Inbox!IInv'
<1> DEFINE l == v2[p].lead
           row == [status |-> v2[p].status,
                   respondedAt |-> v1[l].respondedAt \/ v2[p].status = "RESPONDED"]
           q == [v2[p] EXCEPT !.step = "done"]
<1>1. v2[p] \in Inbox!Patches /\ l \in Lead
    BY InboxTypes DEF Inbox!IInv, Inbox!WriteLead
<1>2. row \in Inbox!Leads /\ row.status # "none"
  <2>1. v2[p].status \in Inbox!Statuses
      BY <1>1 DEF Inbox!Patches
  <2>2. (v1[l].respondedAt \/ v2[p].status = "RESPONDED") \in BOOLEAN
      OBVIOUS
  <2> QED
      BY <2>1, <2>2 DEF Inbox!Leads, Inbox!Statuses
<1>3. q \in Inbox!Patches /\ q.step = "done"
    BY <1>1 DEF Inbox!Patches
<1>4. Inbox!Write(l, row) /\ v2' = [v2 EXCEPT ![p] = q] /\ UNCHANGED <<v3, v4, v6, v7>>
    BY DEF Inbox!WriteLead
<1> HIDE DEF row, q, l
<1>5. v2' \in [LeadPatch -> Inbox!Patches]
    BY <1>3, <1>4, InboxTypes
<1>6. \A z \in LeadPatch : v2'[z].step = "write" => v2'[z].lead \in Lead
    BY <1>3, <1>4, InboxTypes DEF Inbox!IInv
<1> QED
    BY <1>1, <1>2, <1>4, <1>5, <1>6, InboxWriteStep

-----------------------------------------------------------------------------

\* A fetch moves, and the inbox and what it is owed with it.
LEMMA InboxLoadStep ==
    ASSUME Inbox!Bounds, Inbox!IInv, NEW n \in LeadFetch, NEW q \in Inbox!Loads,
           v4' = [v4 EXCEPT ![n] = q],
           v3' \in Inbox!Lists, v5' \in SUBSET Lead, v6' \in BOOLEAN, v7' \in BOOLEAN,
           UNCHANGED <<v1, v2>>,
           Inbox!Clean' =>
              /\ \A m, k \in Inbox!Loading' : m = k
              /\ \A k \in Inbox!Loading' : Inbox!Awaited(v4[k])'
              /\ (\A k \in Inbox!Loading' : v4'[k].cursor # 0) =>
                    Inbox!Apart(v3'.shown) /\ \A l \in Inbox!Ids(v3'.shown) : v3'.next <= l
              /\ (\A k \in Inbox!Loading' : v4'[k].cursor # 0 \/ v4'[k].step = "served") =>
                    \A l \in v5' : Inbox!Matches(l, v3.filter)'
              /\ ~v6' /\ (\A k \in Inbox!Loading' : v4'[k].cursor # 0 /\ v4'[k].step = "out") =>
                    \A l \in v5' : l \in Inbox!Ids(v3'.shown) \/ l < v3'.next
              /\ \A k \in Inbox!Loading' : v4'[k].step = "served" => Inbox!Continues(v4[k])'
    PROVE  Inbox!IInv'
<1>1. v4' \in [LeadFetch -> Inbox!Loads]
    BY InboxTypes
<1>2. Inbox!TypeOK'
    BY <1>1, InboxTypes, InboxTypesAre
<1>3. \A p \in LeadPatch : v2'[p].step = "write" => v2'[p].lead \in Lead
    BY DEF Inbox!IInv
<1> QED
    BY <1>1, <1>2, <1>3, InboxTypes DEF Inbox!IInv, Inbox!Ids, Inbox!Apart

\* The fetches that are out after one of them has moved.
LEMMA InboxLoadingIs ==
    ASSUME Inbox!Bounds, Inbox!IInv, NEW n \in LeadFetch, NEW q \in Inbox!Loads,
           v4' = [v4 EXCEPT ![n] = q]
    PROVE  /\ v4'[n] = q /\ \A k \in LeadFetch \ {n} : v4'[k] = v4[k]
           /\ q.step \in {"out", "served"} => Inbox!Loading' = Inbox!Loading \cup {n}
           /\ q.step \notin {"out", "served"} => Inbox!Loading' = Inbox!Loading \ {n}
<1>1. v4'[n] = q /\ \A k \in LeadFetch \ {n} : v4'[k] = v4[k]
    BY InboxTypes
<1> QED
    BY <1>1 DEF Inbox!Loading

LEMMA InboxSendIs ==
    ASSUME Inbox!Bounds, Inbox!IInv, NEW n \in LeadFetch,
           NEW filter \in LeadFilter \cup {"all"},
           NEW cursor \in Lead \cup {0}, Inbox!Send(n, filter, cursor)
    PROVE  \E q \in Inbox!Loads :
              /\ v4' = [v4 EXCEPT ![n] = q]
              /\ q.step = "out" /\ q.filter = filter /\ q.cursor = cursor
              /\ v7' \in BOOLEAN
              /\ Inbox!Clean'
                   => Inbox!Clean /\ Inbox!Loading = {} /\ Inbox!Loading' = {n} /\ v4'[n] = q
<1> DEFINE q == [step |-> "out", filter |-> filter, cursor |-> cursor, rows |-> {}, next |-> 0]
<1>1. q \in Inbox!Loads /\ q.step = "out" /\ q.filter = filter /\ q.cursor = cursor
    BY DEF Inbox!Loads
<1>2. v4' = [v4 EXCEPT ![n] = q] /\ v4[n].step = "new" /\ v7' = (v7 \/ Inbox!Loading # {})
    BY DEF Inbox!Send
<1> HIDE DEF q
<1>3. v4'[n] = q /\ Inbox!Loading' = Inbox!Loading \cup {n} /\ \A k \in LeadFetch \ {n} : v4'[k] = v4[k]
    BY <1>1, <1>2, InboxLoadingIs
<1>4. ASSUME Inbox!Clean' PROVE Inbox!Clean /\ Inbox!Loading = {}
  <2>1. ~v7 /\ Inbox!Loading = {}
      BY <1>2, <1>4 DEF Inbox!Clean
  <2>2. \A k \in LeadFetch : v4[k].step # "failed"
      BY <1>2, <1>3, <1>4 DEF Inbox!Clean
  <2> QED
      BY <2>1, <2>2 DEF Inbox!Clean
<1> QED
    BY <1>1, <1>2, <1>3, <1>4

\* The inbox waits for another fetch, or for none.
LEMMA InboxWaitingIs ==
    ASSUME NEW i \in Inbox!Lists, NEW filter \in LeadFilter \cup {"all"},
           NEW waits \in BOOLEAN
    PROVE  /\ [i EXCEPT !.loading = waits] \in Inbox!Lists
           /\ [i EXCEPT !.loading = waits].filter = i.filter
           /\ [i EXCEPT !.loading = waits].shown = i.shown
           /\ [i EXCEPT !.loading = waits].next = i.next
           /\ [i EXCEPT !.loading = waits].loading = waits
           /\ [i EXCEPT !.filter = filter, !.loading = TRUE] \in Inbox!Lists
           /\ [i EXCEPT !.filter = filter, !.loading = TRUE].filter = filter
           /\ [i EXCEPT !.filter = filter, !.loading = TRUE].loading = TRUE
<1>1. PICK j : j = [i EXCEPT !.filter = filter]
    OBVIOUS
<1>2. j \in Inbox!Lists /\ j.filter = filter
    BY <1>1 DEF Inbox!Lists
<1>3. [i EXCEPT !.filter = filter, !.loading = TRUE] = [j EXCEPT !.loading = TRUE]
    BY <1>1, <1>2 DEF Inbox!Lists
<1> QED
    BY <1>2, <1>3 DEF Inbox!Lists

LEMMA InboxChangeFilterStep ==
    ASSUME Inbox!Bounds, Inbox!IInv, NEW n \in LeadFetch, NEW filter \in LeadFilter,
           Inbox!ChangeFilter(n, filter)
    PROVE  Inbox!IInv'
<1>1. Inbox!Send(n, filter, 0) /\ v3' = [v3 EXCEPT !.filter = filter, !.loading = TRUE]
      /\ UNCHANGED <<v1, v2, v5, v6>>
    BY DEF Inbox!ChangeFilter
<1>2. PICK q \in Inbox!Loads :
              /\ v4' = [v4 EXCEPT ![n] = q]
              /\ q.step = "out" /\ q.filter = filter /\ q.cursor = 0
              /\ v7' \in BOOLEAN
              /\ Inbox!Clean'
                   => Inbox!Clean /\ Inbox!Loading = {} /\ Inbox!Loading' = {n} /\ v4'[n] = q
    BY <1>1, InboxSendIs
<1>3. v3' \in Inbox!Lists /\ v3'.filter = filter /\ v3'.loading
  <2>1. v3 \in Inbox!Lists /\ filter \in LeadFilter \cup {"all"}
      BY InboxTypes
  <2>2. v3' \in Inbox!Lists /\ v3'.filter = filter /\ v3'.loading = TRUE
      BY <1>1, <2>1, InboxWaitingIs
  <2> QED
      BY <2>2
<1>4. Inbox!Clean' => \A k \in Inbox!Loading' : k = n /\ Inbox!Awaited(v4[k])' /\ v4'[k].step = "out"
                                    /\ v4'[k].cursor = 0
    BY <1>2, <1>3 DEF Inbox!Awaited
<1>5. Inbox!Clean' => n \in Inbox!Loading'
    BY <1>2
<1> QED
    BY <1>1, <1>2, <1>3, <1>4, <1>5, InboxTypes, InboxLoadStep

LEMMA InboxLoadMoreStep ==
    ASSUME Inbox!Bounds, Inbox!IInv, NEW n \in LeadFetch, Inbox!LoadMore(n)
    PROVE  Inbox!IInv'
<1>0. v3.next \in Lead \cup {0} /\ v3.filter \in LeadFilter \cup {"all"}
    BY InboxTypes DEF Inbox!Lists
<1>1. Inbox!Send(n, v3.filter, v3.next) /\ v3' = [v3 EXCEPT !.loading = TRUE]
      /\ UNCHANGED <<v1, v2, v5, v6>> /\ v3.next # 0
    BY DEF Inbox!LoadMore
<1>2. PICK q \in Inbox!Loads :
              /\ v4' = [v4 EXCEPT ![n] = q]
              /\ q.step = "out" /\ q.filter = v3.filter /\ q.cursor = v3.next
              /\ v7' \in BOOLEAN
              /\ Inbox!Clean'
                   => Inbox!Clean /\ Inbox!Loading = {} /\ Inbox!Loading' = {n} /\ v4'[n] = q
    BY <1>0, <1>1, InboxSendIs
<1>3. v3' \in Inbox!Lists /\ v3'.filter = v3.filter /\ v3'.loading
      /\ v3'.shown = v3.shown /\ v3'.next = v3.next
    BY <1>0, <1>1, InboxTypes, InboxWaitingIs
<1>4. Inbox!Clean' => \A k \in Inbox!Loading' : k = n /\ Inbox!Awaited(v4[k])' /\ v4'[k].step = "out"
    BY <1>2, <1>3 DEF Inbox!Awaited
<1>5. Inbox!Clean' => /\ Inbox!Apart(v3.shown) /\ \A l \in Inbox!Ids(v3.shown) : v3.next <= l
                      /\ \A l \in v5 : Inbox!Matches(l, v3.filter)
                      /\ ~v6 => \A l \in v5 : l \in Inbox!Ids(v3.shown) \/ l < v3.next
    BY <1>2 DEF Inbox!IInv
<1>6. Inbox!Clean' => \A l \in v5 : Inbox!Matches(l, v3.filter)'
    BY <1>1, <1>3, <1>5 DEF Inbox!Matches
<1> QED
    BY <1>1, <1>2, <1>3, <1>4, <1>5, <1>6, InboxTypes, InboxLoadStep

LEMMA InboxLoadFailsStep ==
    ASSUME Inbox!Bounds, Inbox!IInv, NEW n \in LeadFetch, Inbox!LoadFails(n)
    PROVE  Inbox!IInv'
<1> DEFINE q == [v4[n] EXCEPT !.step = "failed"]
<1>0. v3.filter \in LeadFilter \cup {"all"} /\ v4[n] \in Inbox!Loads
    BY InboxTypes DEF Inbox!Lists
<1>1. q \in Inbox!Loads /\ q.step = "failed"
    BY <1>0 DEF Inbox!Loads
<1>2. v4' = [v4 EXCEPT ![n] = q] /\ v3' = [v3 EXCEPT !.loading = FALSE]
      /\ UNCHANGED <<v1, v2, v5, v6, v7>>
    BY DEF Inbox!LoadFails
<1>3. v3' \in Inbox!Lists
    BY <1>0, <1>2, InboxTypes, InboxWaitingIs
<1> HIDE DEF q
<1>4. ~Inbox!Clean'
    BY <1>1, <1>2, InboxLoadingIs DEF Inbox!Clean
<1> QED
    BY <1>1, <1>2, <1>3, <1>4, InboxTypes, InboxLoadStep

\* The leads of a list of pages that one more page ends, and of a first page alone.
LEMMA InboxPagesAre ==
    ASSUME NEW pages \in Seq(SUBSET Lead), NEW rows \in SUBSET Lead
    PROVE  /\ <<rows>> \in Seq(SUBSET Lead) /\ Append(pages, rows) \in Seq(SUBSET Lead)
           /\ Inbox!Ids(<<rows>>) = rows /\ Inbox!Apart(<<rows>>)
           /\ Inbox!Ids(Append(pages, rows)) = Inbox!Ids(pages) \cup rows
           /\ Inbox!Apart(pages) /\ Inbox!Ids(pages) \cap rows = {}
                => Inbox!Apart(Append(pages, rows))
<1> DEFINE more == Append(pages, rows)
<1>1. /\ more \in Seq(SUBSET Lead) /\ Len(pages) \in Nat
      /\ DOMAIN pages = 1..Len(pages) /\ DOMAIN more = 1..(Len(pages) + 1)
      /\ more[Len(pages) + 1] = rows /\ \A i \in 1..Len(pages) : more[i] = pages[i]
    OBVIOUS
<1>2. /\ <<rows>> \in Seq(SUBSET Lead) /\ DOMAIN <<rows>> = {1} /\ <<rows>>[1] = rows
    OBVIOUS
<1>3. Inbox!Ids(<<rows>>) = rows /\ Inbox!Apart(<<rows>>)
    BY <1>2 DEF Inbox!Ids, Inbox!Apart
<1> HIDE DEF more
<1>4. \A i \in DOMAIN more : i \in DOMAIN pages \/ i = Len(pages) + 1
    BY <1>1
<1>5. DOMAIN pages \subseteq DOMAIN more /\ Len(pages) + 1 \in DOMAIN more
    BY <1>1
<1>6. \A i \in DOMAIN pages : more[i] = pages[i] /\ pages[i] \in SUBSET Lead
    BY <1>1
<1>7. Inbox!Ids(more) = Inbox!Ids(pages) \cup rows
  <2>1. ASSUME NEW l \in Inbox!Ids(more) PROVE l \in Inbox!Ids(pages) \cup rows
      BY <1>1, <1>4, <1>6 DEF Inbox!Ids
  <2>2. ASSUME NEW l \in Inbox!Ids(pages) PROVE l \in Inbox!Ids(more)
      BY <1>5, <1>6 DEF Inbox!Ids
  <2>3. ASSUME NEW l \in rows PROVE l \in Inbox!Ids(more)
      BY <1>1, <1>5 DEF Inbox!Ids
  <2> QED
      BY <2>1, <2>2, <2>3
<1>8. ASSUME Inbox!Apart(pages), Inbox!Ids(pages) \cap rows = {} PROVE Inbox!Apart(more)
  <2>1. \A i \in DOMAIN pages : pages[i] \cap rows = {}
      BY <1>6, <1>8 DEF Inbox!Ids
  <2>2. SUFFICES ASSUME NEW i \in DOMAIN more, NEW j \in DOMAIN more, more[i] \cap more[j] # {}
                 PROVE  i = j
      BY DEF Inbox!Apart
  <2>3. CASE i \in DOMAIN pages /\ j \in DOMAIN pages
      BY <1>6, <1>8, <2>2, <2>3 DEF Inbox!Apart
  <2>4. CASE i \in DOMAIN pages /\ j = Len(pages) + 1
      BY <1>1, <1>6, <2>1, <2>2, <2>4
  <2>5. CASE i = Len(pages) + 1 /\ j \in DOMAIN pages
      BY <1>1, <1>6, <2>1, <2>2, <2>5
  <2>6. CASE i = Len(pages) + 1 /\ j = Len(pages) + 1
      BY <2>6
  <2> QED
      BY <1>4, <2>3, <2>4, <2>5, <2>6
<1> QED
    BY <1>1, <1>2, <1>3, <1>7, <1>8 DEF more

\* What is served is the newest of what the cursor leaves.
LEMMA InboxServeStep ==
    ASSUME Inbox!Bounds, Inbox!IInv, NEW n \in LeadFetch, Inbox!Serve(n)
    PROVE  Inbox!IInv'
<1>a. PICK asked : asked = v4[n]
    OBVIOUS
<1>b. PICK rows : rows = Inbox!From(asked.filter, asked.cursor)
    OBVIOUS
<1>c. PICK page : page = Inbox!PageOf(rows)
    OBVIOUS
<1>d. PICK next : next = Inbox!Cursor(page, rows)
    OBVIOUS
<1>e. PICK q : q = [step |-> "served", filter |-> asked.filter, cursor |-> asked.cursor,
                    rows |-> page, next |-> next]
    OBVIOUS
<1>1. /\ asked \in Inbox!Loads /\ asked.step = "out" /\ n \in Inbox!Loading
      /\ asked.filter \in LeadFilter \cup {"all"} /\ asked.cursor \in Lead \cup {0}
    BY <1>a, InboxTypes DEF Inbox!Serve, Inbox!Loads, Inbox!Loading
<1>2. /\ rows \in SUBSET Lead
      /\ \A l \in rows : Inbox!Matches(l, asked.filter) /\ (asked.cursor # 0 => l < asked.cursor)
      /\ asked.cursor = 0 \/ Inbox!Matches(asked.cursor, asked.filter) =>
             \A l \in Lead : Inbox!Matches(l, asked.filter) /\ (asked.cursor # 0 => l < asked.cursor)
                                => l \in rows
    BY <1>b, <1>1, InboxFromIs
<1>3. v4' = [v4 EXCEPT ![n] = q] /\ UNCHANGED <<v1, v2, v3, v7>>
    BY <1>a, <1>b, <1>c, <1>d, <1>e DEF Inbox!Serve
<1>4. /\ asked.cursor = 0 => v5' = {l \in Lead : Inbox!Matches(l, asked.filter)}
      /\ asked.cursor = 0 => v6' = FALSE
      /\ asked.cursor # 0 => v5' = v5
      /\ asked.cursor # 0 => v6' = (v6 \/ ~Inbox!Matches(asked.cursor, asked.filter))
    BY <1>a DEF Inbox!Serve
<1>5. /\ page \in SUBSET rows /\ next \in Lead \cup {0}
      /\ next = 0 \/ next \in page
      /\ \A l \in page : next <= l
      /\ \A l \in rows \ page : l < next
    BY <1>c, <1>d, <1>2, InboxPageIs
<1>6. /\ q \in Inbox!Loads
      /\ q.step = "served"
      /\ q.filter = asked.filter
      /\ q.cursor = asked.cursor
      /\ q.rows = page /\ q.next = next
    BY <1>e, <1>1, <1>2, <1>5 DEF Inbox!Loads
<1>7. v4'[n] = q /\ Inbox!Loading' = Inbox!Loading \cup {n} /\ \A k \in LeadFetch \ {n} : v4'[k] = v4[k]
    BY <1>3, <1>6, InboxLoadingIs
<1>14. Inbox!Loading' = Inbox!Loading
    BY <1>1, <1>7
<1>8. Inbox!Clean' => Inbox!Clean
    BY <1>a, <1>1, <1>3, <1>7 DEF Inbox!Clean
<1>9. v5' \in SUBSET Lead /\ v6' \in BOOLEAN
  <2>1. v5' \in SUBSET Lead
      BY <1>4, InboxTypes
  <2>2. v6' \in BOOLEAN
      BY <1>4, InboxTypes
  <2> QED
      BY <2>1, <2>2
<1>10. ASSUME Inbox!Clean PROVE
          /\ \A k \in Inbox!Loading : k = n
          /\ Inbox!Awaited(q) /\ Inbox!Awaited(q)' /\ asked.filter = v3.filter
          /\ asked.cursor # 0 => asked.cursor = v3.next
          /\ asked.cursor # 0 => /\ Inbox!Apart(v3.shown) /\ \A l \in Inbox!Ids(v3.shown) : v3.next <= l
                                 /\ \A l \in v5 : Inbox!Matches(l, v3.filter)
                                 /\ ~v6
                                      => \A l \in v5 : l \in Inbox!Ids(v3.shown) \/ l < v3.next
  <2>1. \A k \in Inbox!Loading : k = n
      BY <1>1, <1>10 DEF Inbox!IInv
  <2>2. Inbox!Awaited(asked)
      BY <1>a, <1>1, <1>10 DEF Inbox!IInv
  <2>3. asked.cursor # 0 => \A k \in Inbox!Loading : v4[k].cursor # 0 /\ v4[k].step = "out"
      BY <1>a, <1>1, <2>1
  <2>4. asked.cursor # 0 => /\ Inbox!Apart(v3.shown) /\ \A l \in Inbox!Ids(v3.shown) : v3.next <= l
                            /\ \A l \in v5 : Inbox!Matches(l, v3.filter)
                            /\ ~v6 => \A l \in v5 : l \in Inbox!Ids(v3.shown) \/ l < v3.next
      BY <1>10, <2>3 DEF Inbox!IInv
  <2> QED
      BY <1>3, <1>6, <2>1, <2>2, <2>4 DEF Inbox!Awaited
<1>11. ASSUME Inbox!Clean PROVE \A l \in v5' : l \in Lead /\ Inbox!Matches(l, asked.filter)
    BY <1>4, <1>9, <1>10, <1>11
<1>12. ASSUME Inbox!Clean, ~v6', NEW l \in v5'
       PROVE  l \in page \/ l < next \/ (asked.cursor # 0 /\ l \in Inbox!Ids(v3.shown))
  <2>0. l \in Lead /\ Inbox!Matches(l, asked.filter)
      BY <1>11, <1>12
  <2>1. CASE asked.cursor = 0
    <3>1. l \in rows
        BY <1>2, <2>0, <2>1
    <3> QED
        BY <3>1, <1>5
  <2>2. CASE asked.cursor # 0 /\ l \notin Inbox!Ids(v3.shown)
    <3>1. ~v6 /\ Inbox!Matches(asked.cursor, asked.filter) /\ l \in v5
        BY <1>4, <1>12, <2>2
    <3>2. l < asked.cursor
        BY <1>10, <1>12, <2>2, <3>1
    <3>3. l \in rows
        BY <1>2, <2>0, <3>1, <3>2
    <3> QED
        BY <3>3, <1>5
  <2> QED
      BY <2>1, <2>2
<1>13. ASSUME Inbox!Clean PROVE Inbox!Continues(q)'
  <2>1. \A l \in page : next <= l /\ (asked.cursor # 0 => l < asked.cursor)
      BY <1>2, <1>5
  <2>2. ~v6' => \A l \in v5' : l \in q.rows \/ l < q.next
                                       \/ (q.cursor # 0 /\ l \in Inbox!Ids(v3.shown))
      BY <1>6, <1>12, <1>13
  <2>3. \A l \in q.rows : q.next <= l /\ (q.cursor # 0 => l < q.cursor)
      BY <1>6, <2>1
  <2>4. v3' = v3
      BY <1>3
  <2>5. q.cursor # 0 => q.next <= q.cursor
    <3>1. next \in Nat /\ asked.cursor \in Nat
        BY <1>1, <1>5, InboxNumbers
    <3>2. asked.cursor # 0 => next = 0 \/ next < asked.cursor
        BY <1>2, <1>5
    <3>3. asked.cursor # 0 => next <= asked.cursor
        BY <3>1, <3>2
    <3> QED
        BY <3>3, <1>6
  <2> QED
      BY <2>2, <2>3, <2>4, <2>5 DEF Inbox!Continues, Inbox!Ids
<1>15. \A l \in Lead : Inbox!Matches(l, asked.filter) <=> Inbox!Matches(l, asked.filter)'
    BY <1>3 DEF Inbox!Matches
<1>16. Inbox!Clean' =>
              /\ \A m, k \in Inbox!Loading' : m = k
              /\ \A k \in Inbox!Loading' : v4'[k] = q
              /\ \A k \in Inbox!Loading' : Inbox!Awaited(v4[k])'
              /\ \A k \in Inbox!Loading' : Inbox!Continues(v4[k])'
  <2> SUFFICES ASSUME Inbox!Clean' PROVE
              /\ \A m, k \in Inbox!Loading' : m = k
              /\ \A k \in Inbox!Loading' : v4'[k] = q
              /\ \A k \in Inbox!Loading' : Inbox!Awaited(v4[k])'
              /\ \A k \in Inbox!Loading' : Inbox!Continues(v4[k])'
      OBVIOUS
  <2>1. \A k \in Inbox!Loading' : k = n /\ v4'[k] = q
      BY <1>7, <1>8, <1>10, <1>14
  <2>2. Inbox!Awaited(q)' /\ Inbox!Continues(q)'
      BY <1>8, <1>10, <1>13
  <2> QED
      BY <2>1, <2>2
<1>17. Inbox!Clean' => \A l \in v5' : Inbox!Matches(l, v3.filter)'
    BY <1>3, <1>8, <1>10, <1>11, <1>15
<1>18. n \in Inbox!Loading'
    BY <1>7
<1>19. v7' \in BOOLEAN /\ v3' \in Inbox!Lists
    BY <1>3, InboxTypes
<1>20. Inbox!Clean' => ((\A k \in Inbox!Loading' : v4'[k].cursor # 0) =>
                    Inbox!Apart(v3'.shown) /\ \A l \in Inbox!Ids(v3'.shown) : v3'.next <= l)
  <2> SUFFICES ASSUME Inbox!Clean', \A k \in Inbox!Loading' : v4'[k].cursor # 0
               PROVE  Inbox!Apart(v3.shown) /\ \A l \in Inbox!Ids(v3.shown) : v3.next <= l
      BY <1>3 DEF Inbox!Apart, Inbox!Ids
  <2> QED
      BY <1>6, <1>7, <1>8, <1>10, <1>18
<1> QED
    BY <1>3, <1>6, <1>9, <1>16, <1>17, <1>18, <1>19, <1>20, InboxLoadStep

\* What is shown has all that is owed down to its cursor, and each page once.
LEMMA InboxShowStep ==
    ASSUME Inbox!Bounds, Inbox!IInv, NEW n \in LeadFetch, Inbox!Show(n)
    PROVE  Inbox!IInv'
<1>a. PICK got : got = v4[n]
    OBVIOUS
<1>b. PICK pages :
           pages = IF got.cursor = 0 THEN <<got.rows>> ELSE Append(v3.shown, got.rows)
    OBVIOUS
<1>c. PICK q : q = [got EXCEPT !.step = "done"]
    OBVIOUS
<1>1. /\ got \in Inbox!Loads
      /\ got.step = "served"
      /\ n \in Inbox!Loading
      /\ got.rows \in SUBSET Lead
      /\ got.next \in Lead \cup {0} /\ v3 \in Inbox!Lists /\ v3.shown \in Seq(SUBSET Lead)
    BY <1>a, InboxTypes DEF Inbox!Show, Inbox!Loads, Inbox!Loading, Inbox!Lists
<1>2. pages \in Seq(SUBSET Lead)
    BY <1>b, <1>1, InboxPagesAre
<1>3. q \in Inbox!Loads /\ q.step = "done"
    BY <1>c, <1>1 DEF Inbox!Loads
<1>4. /\ v4' = [v4 EXCEPT ![n] = q] /\ UNCHANGED <<v1, v2, v5, v6, v7>>
      /\ v3' = [v3 EXCEPT !.shown = pages, !.next = got.next, !.loading = FALSE]
    BY <1>a, <1>b, <1>c DEF Inbox!Show
<1>5. /\ v3' \in Inbox!Lists /\ v3'.filter = v3.filter /\ v3'.shown = pages
      /\ v3'.next = got.next
  <2>1. PICK i : i = [v3 EXCEPT !.shown = pages]
      OBVIOUS
  <2>2. i \in Inbox!Lists /\ i.shown = pages /\ i.filter = v3.filter
      BY <1>1, <1>2, <2>1 DEF Inbox!Lists
  <2>3. PICK k : k = [i EXCEPT !.next = got.next]
      OBVIOUS
  <2>4. k \in Inbox!Lists /\ k.shown = pages /\ k.filter = v3.filter /\ k.next = got.next
      BY <1>1, <2>2, <2>3 DEF Inbox!Lists
  <2>5. v3' = [k EXCEPT !.loading = FALSE]
      BY <1>1, <1>4, <2>1, <2>2, <2>3, <2>4 DEF Inbox!Lists
  <2> QED
      BY <2>4, <2>5 DEF Inbox!Lists
<1>6. v4'[n] = q /\ Inbox!Loading' = Inbox!Loading \ {n} /\ \A k \in LeadFetch \ {n} : v4'[k] = v4[k]
    BY <1>3, <1>4, InboxLoadingIs
<1>7. Inbox!Clean' => Inbox!Clean
    BY <1>a, <1>1, <1>4, <1>6 DEF Inbox!Clean
<1>8. ASSUME Inbox!Clean PROVE
          /\ \A k \in Inbox!Loading : k = n
          /\ Inbox!Continues(got)
          /\ got.cursor # 0 => /\ Inbox!Apart(v3.shown) /\ got.cursor = v3.next
                               /\ \A l \in Inbox!Ids(v3.shown) : v3.next <= l
          /\ \A l \in v5 : Inbox!Matches(l, v3.filter)
  <2>1. \A k \in Inbox!Loading : k = n
      BY <1>1, <1>8 DEF Inbox!IInv
  <2>2. Inbox!Awaited(got) /\ Inbox!Continues(got)
      BY <1>a, <1>1, <1>8 DEF Inbox!IInv
  <2>3. got.cursor # 0 => \A k \in Inbox!Loading : v4[k].cursor # 0
      BY <1>a, <2>1
  <2>4. got.cursor # 0 => Inbox!Apart(v3.shown) /\ \A l \in Inbox!Ids(v3.shown) : v3.next <= l
      BY <1>8, <2>3 DEF Inbox!IInv
  <2>5. \A k \in Inbox!Loading : v4[k].cursor # 0 \/ v4[k].step = "served"
      BY <1>a, <1>1, <2>1
  <2>6. \A l \in v5 : Inbox!Matches(l, v3.filter)
      BY <1>8, <2>5 DEF Inbox!IInv
  <2> QED
      BY <2>1, <2>2, <2>4, <2>6 DEF Inbox!Awaited
<1>9. Inbox!Clean => Inbox!Loading' = {}
    BY <1>6, <1>8
<1>10. ASSUME Inbox!Clean, got.cursor # 0 PROVE Inbox!Ids(v3.shown) \cap got.rows = {}
  <2> SUFFICES ASSUME NEW l \in Inbox!Ids(v3.shown), l \in got.rows PROVE FALSE
      OBVIOUS
  <2>1. v3.next <= l /\ l < got.cursor /\ got.cursor = v3.next
      BY <1>8, <1>10 DEF Inbox!Continues
  <2>2. l \in Nat /\ got.cursor \in Nat
    <3>1. l \in Lead /\ got.cursor \in Lead \cup {0}
        BY <1>1 DEF Inbox!Loads
    <3> QED
        BY <3>1, InboxNumbers
  <2> QED
      BY <2>1, <2>2
<1>11. ASSUME Inbox!Clean
       PROVE  Inbox!Apart(pages) /\ Inbox!Ids(pages) = got.rows \cup (IF got.cursor = 0 THEN {} ELSE Inbox!Ids(v3.shown))
  <2>1. CASE got.cursor = 0
      BY <1>b, <1>1, <2>1, InboxPagesAre
  <2>2. CASE got.cursor # 0
      BY <1>b, <1>1, <1>8, <1>10, <1>11, <2>2, InboxPagesAre
  <2> QED
      BY <2>1, <2>2
<1>12. ASSUME Inbox!Clean, NEW l \in Inbox!Ids(pages) PROVE got.next <= l
  <2>1. CASE l \in got.rows
      BY <1>8, <1>12, <2>1 DEF Inbox!Continues
  <2>2. CASE l \notin got.rows
    <3>1. got.cursor # 0 /\ l \in Inbox!Ids(v3.shown)
        BY <1>11, <1>12, <2>2
    <3>2. got.cursor <= l
        BY <1>8, <1>12, <3>1
    <3>3. got.next <= got.cursor
        BY <1>8, <1>12, <3>1 DEF Inbox!Continues
    <3>4. l \in Nat /\ got.next \in Nat /\ got.cursor \in Nat
      <4>1. l \in Lead /\ got.next \in Lead \cup {0} /\ got.cursor \in Lead \cup {0}
          BY <1>1, <3>1 DEF Inbox!Loads, Inbox!Ids
      <4> QED
          BY <4>1, InboxNumbers
    <3> QED
        BY <3>2, <3>3, <3>4
  <2> QED
      BY <2>1, <2>2
<1>13. ASSUME Inbox!Clean, ~v6, NEW l \in v5 PROVE l \in Inbox!Ids(pages) \/ l < got.next
  <2>1. \/ l \in got.rows
        \/ l < got.next
        \/ got.cursor # 0 /\ l \in Inbox!Ids(v3.shown)
      BY <1>8, <1>13 DEF Inbox!Continues
  <2> QED
      BY <1>11, <1>13, <2>1
<1>14. \A l \in v5 : Inbox!Matches(l, v3.filter) => Inbox!Matches(l, v3.filter)'
    BY <1>4, <1>5 DEF Inbox!Matches
<1>15. v5' \in SUBSET Lead /\ v6' \in BOOLEAN /\ v7' \in BOOLEAN
    BY <1>4, InboxTypes
<1>16. Inbox!Ids(v3'.shown) = Inbox!Ids(pages)
    BY <1>5
<1>17. Inbox!Clean' => /\ Inbox!Apart(v3'.shown) /\ \A l \in Inbox!Ids(v3'.shown) : v3'.next <= l
                       /\ \A l \in v5' : Inbox!Matches(l, v3.filter)'
                       /\ ~v6' => \A l \in v5' : l \in Inbox!Ids(v3'.shown) \/ l < v3'.next
    BY <1>4, <1>5, <1>7, <1>8, <1>11, <1>12, <1>13, <1>14, <1>16
<1>18. Inbox!Clean' => Inbox!Loading' = {}
    BY <1>7, <1>9
<1> QED
    BY <1>3, <1>4, <1>5, <1>15, <1>17, <1>18, InboxLoadStep

LEMMA InboxInductive ==
    ASSUME Inbox!Bounds
    PROVE  Inbox!IInv /\ [Inbox!Next]_(Inbox!vars) => Inbox!IInv'
<1> SUFFICES ASSUME Inbox!IInv, [Inbox!Next]_(Inbox!vars) PROVE Inbox!IInv'
    OBVIOUS
<1>1. CASE UNCHANGED Inbox!vars
  <2>1. UNCHANGED <<v1, v2, v3, v4, v5, v6, v7>>
      BY <1>1 DEF Inbox!vars
  <2> QED
      BY <2>1 DEF Inbox!IInv, Inbox!TypeOK, Inbox!Clean, Inbox!Loading, Inbox!Awaited,
         Inbox!Continues, Inbox!Apart, Inbox!Ids, Inbox!Matches
<1>2. CASE Inbox!Next
  <2>1. ASSUME NEW l \in Lead,
               Inbox!Arrive(l) \/ Inbox!Respond(l) \/ \E status \in Mark : Inbox!PatchInquiry(l, status)
        PROVE  Inbox!IInv'
      BY <2>1, InboxArriveStep, InboxRespondStep, InboxPatchInquiryStep
  <2>2. ASSUME NEW p \in LeadPatch,
               Inbox!WriteLead(p) \/ \E l \in Lead, status \in Mark : Inbox!ReadLead(p, l, status)
        PROVE  Inbox!IInv'
      BY <2>2, InboxWriteLeadStep, InboxReadLeadStep
  <2>3. ASSUME NEW n \in LeadFetch,
               \/ Inbox!LoadMore(n) \/ Inbox!Serve(n) \/ Inbox!Show(n) \/ Inbox!LoadFails(n)
               \/ \E filter \in LeadFilter : Inbox!ChangeFilter(n, filter)
        PROVE  Inbox!IInv'
      BY <2>3, InboxLoadMoreStep, InboxServeStep, InboxShowStep, InboxLoadFailsStep,
         InboxChangeFilterStep
  <2> QED
      BY <1>2, <2>1, <2>2, <2>3 DEF Inbox!Next
<1> QED
    BY <1>1, <1>2

LEMMA InboxProperties ==
    ASSUME Inbox!Bounds
    PROVE  Inbox!IInv => Inbox!TypeOK /\ Inbox!ListedOnce
<1> SUFFICES ASSUME Inbox!IInv PROVE Inbox!TypeOK /\ Inbox!ListedOnce
    OBVIOUS
<1>1. Inbox!TypeOK
    BY DEF Inbox!IInv
<1>2. ASSUME Inbox!Settled, ~v7, ~v6
      PROVE  v5 \subseteq Inbox!Ids(v3.shown) /\ Inbox!Apart(v3.shown)
  <2>1. Inbox!Clean /\ Inbox!Loading = {} /\ v3.next = 0
      BY <1>2 DEF Inbox!Settled, Inbox!Clean
  <2>2. Inbox!Apart(v3.shown) /\ \A l \in v5 : l \in Inbox!Ids(v3.shown) \/ l < 0
      BY <1>2, <2>1 DEF Inbox!IInv
  <2>3. \A l \in v5 : ~(l < 0)
    <3>1. \A l \in v5 : l \in Nat
        BY InboxTypes
    <3> QED
        BY <3>1
  <2> QED
      BY <2>2, <2>3
<1> QED
    BY <1>1, <1>2 DEF Inbox!ListedOnce

-----------------------------------------------------------------------------
(* What several components promise.                                        *)

\* Fail closed, in the run of all components: the worker by itself, which handles
\* one record at a time, never shows a hidden, removed, moved or outdated listing
\* (processProperty).
THEOREM WorkerIsClosed == Spec => []FailClosed
<1> DEFINE Chose == part = "worker"
<1>1. Init => ~Chose \/ Worker!Init
    BY DEF Init
<1>2. Chose /\ [Next]_vars => Chose'
    BY Chosen
<1>3. ~Chose /\ [Next]_vars => ~Chose'
    BY Chosen
<1>4. Chose /\ [Next]_vars => [Worker!WorkerNext]_(Worker!vars)
    BY Chosen
<1>5. Worker!WorkerSpec => []Worker!FailClosed
    BY Worker!WorkerFailsClosed, WorkerAssumption
<1>6. ~Chose \/ Worker!FailClosed => FailClosed
    BY DEF FailClosed
<1> HIDE DEF Chose
<1> QED
    BY <1>1, <1>2, <1>3, <1>4, <1>5, <1>6, PTL DEF Spec, Worker!WorkerSpec

\* What overlapping requests and retries repeat stays bounded: Drive folders of a
\* transaction; actions for a contact, of which an agent has two only where scans ran
\* beside each other; copies of an event, by the requests, the faults and the calls that
\* a disconnect cut off before their copy was stored; a lifecycle mail goes out again
\* only after a fault, and a refused one never blocks the next attempt
\* (ensureTransactionFolder, runRelationshipMemoryScan, pushTransactionEvent,
\* disconnectGoogleAccount, sendAccountLifecycleEmail).
THEOREM RepetitionIsBounded == Spec => []NothingRepeated
<1> DEFINE Inv == /\ part = "documents" => Docs!IInv /\ Docs!FolderInv
                  /\ part = "memory" => Memory!IInv
                  /\ part = "calendar" => Events!IInv
                  /\ part = "mail" => Mail!IInv
<1>1. Init => Inv
    BY DocsInitially, DocsFolderInitially, MemoryInitially, EventsInitially, MailInitially,
       TransactionsAssumption, MemoryAssumption, AccountsAssumption DEF Init
<1>2. Inv /\ [Next]_vars => Inv'
    BY Chosen, DocsInductive, DocsFolderInvStep, MemoryInductive, EventsInductive,
       MailInductive, TransactionsAssumption, MemoryAssumption, AccountsAssumption
<1>3. Inv => NothingRepeated
    BY DocsProperties, MemoryProperties, EventsProperties, MailProperties,
       TransactionsAssumption, MemoryAssumption, AccountsAssumption DEF NothingRepeated
<1> QED
    BY <1>1, <1>2, <1>3, PTL DEF Spec

\* The tokens that are stored for Google belong to the account the agent is shown,
\* but where an authorization overlapped a refresh or brought no refresh token; and a
\* copy that is behind its event is told to the agent (googleWorkspaceService,
\* transactionCalendarService).
THEOREM GoogleStaysInStep == Spec => []GoogleInStep
<1> DEFINE Inv == /\ part = "google" => Google!IInv
                  /\ part = "calendar" => Events!IInv
<1>1. Init => Inv
    BY GoogleInitially, EventsInitially, AccountsAssumption DEF Init
<1>2. Inv /\ [Next]_vars => Inv'
    BY Chosen, GoogleInductive, EventsInductive, AccountsAssumption
<1>3. Inv => GoogleInStep
    BY GoogleProperties, EventsProperties, AccountsAssumption DEF GoogleInStep
<1> QED
    BY <1>1, <1>2, <1>3, PTL DEF Spec

\* A job that says it is completed has done the work it answers for, also when it took
\* up what another run left.  As long as no run loses the connection of its lock, one
\* run at a time migrates the schema of the search service, and once one is done all
\* collections have the fields, and their values where the script imports them, but for
\* a collection whose field a run dropped before it ended, which no later run makes up
\* for.  The classification has the tags of the properties that were there all the time
\* and that neither an ingest nor a deployment touched, or only of those up to its
\* cursor when the property there was deleted (typesense-migrate.ts, runClassification).
THEOREM CompletedCovers == Spec => []CompletedMeansCovered
<1> DEFINE Inv == /\ part = "migration" => Migration!IInv
                  /\ part = "tags" => Tags!IInv
<1>1. Init => Inv
    BY MigrationInitially, TagsInitially, JobsAssumption DEF Init
<1>2. Inv /\ [Next]_vars => Inv'
    BY Chosen, MigrationInductive, TagsInductive, JobsAssumption
<1>3. Inv => CompletedMeansCovered
    BY MigrationProperties, TagsProperties, JobsAssumption DEF CompletedMeansCovered
<1> QED
    BY <1>1, <1>2, <1>3, PTL DEF Spec

\* What is replaced as a set is one request's set, unless replacements overlapped: the
\* canonical domain, which is one that was proved, and the featured listings of a
\* portal, and the photos of a property (setCanonicalDomain, the route of featured
\* listings, syncPropertyMedia).
THEOREM SetsStayWhole == Spec => []SetsAreReplacedWhole
<1> DEFINE Inv == /\ part = "portals" => Sites!IInv
                  /\ part = "photos" => Photos!IInv
<1>1. Init => Inv
    BY SitesInitially, PhotosInitially, PortalsAssumption, JobsAssumption DEF Init
<1>2. Inv /\ [Next]_vars => Inv'
    BY Chosen, SitesInductive, PhotosInductive, JobsAssumption
<1>3. Inv => SetsAreReplacedWhole
    BY SitesProperties, PhotosProperties DEF SetsAreReplacedWhole
<1> QED
    BY <1>1, <1>2, <1>3, PTL DEF Spec

\* A saved search, whose criteria may change at any time, tells of every property as
\* soon as it can, but for those that come to match behind its lastRunAt or a run's
\* count and those of a mail that was skipped; and the owner who has loaded the last
\* page of the inbox has every lead that matched from the first page on, once, whatever
\* arrived and changed between the pages, but where fetches crossed or the lead of a
\* cursor had stopped matching (cron.ts, users.ts, GET /owner/leads, OwnerLeadsInbox).
THEOREM NothingMissed == Spec => []NothingIsMissed
<1> DEFINE Inv == /\ part = "saved" => Alerts!IInv
                  /\ part = "inbox" => Inbox!IInv
<1>1. Init => Inv
    BY AlertsInitially, InboxInitially, ListsAssumption DEF Init
<1>2. Inv /\ [Next]_vars => Inv'
    BY Chosen, AlertsInductive, InboxInductive, ListsAssumption
<1>3. Inv => NothingIsMissed
    BY AlertsProperties, InboxProperties, ListsAssumption DEF NothingIsMissed
<1> QED
    BY <1>1, <1>2, <1>3, PTL DEF Spec

\* What keeps the types of the component that was chosen.
AccountTypes ==
    /\ part = "token" => Token!IInv
    /\ part = "mail" => Mail!IInv
    /\ part = "google" => Google!IInv
    /\ part = "users" => People!IInv
    /\ part = "portals" => Sites!IInv /\ Sites!Typed
    /\ part = "catalog" => Homes!IInv
    /\ part = "cache" => Cache!IInv

CrmTypes ==
    /\ part = "documents" => Docs!IInv /\ Docs!FolderInv
    /\ part = "setup" => Setup!IInv
    /\ part = "memory" => Memory!IInv
    /\ part = "calendar" => Events!IInv
    /\ part = "tracks" => Tracks!IInv
    /\ part = "links" => Links!IInv
    /\ part = "activity" => Activity!IInv
    /\ part = "index" => Index!IInv

JobTypes ==
    /\ part = "worker" => Worker!IInv
    /\ part = "migration" => Migration!IInv
    /\ part = "tags" => Tags!IInv
    /\ part = "photos" => Photos!IInv
    /\ part = "saved" => Alerts!IInv
    /\ part = "inbox" => Inbox!IInv

LEMMA AccountTypesHold ==
    /\ Init => AccountTypes
    /\ AccountTypes /\ [Next]_vars => AccountTypes'
<1>1. Init => AccountTypes
    BY TokenInitially, MailInitially, GoogleInitially, PeopleInitially, SitesInitially,
       SitesTypedInitially, HomesInitially, CacheInitially, AccountsAssumption,
       PortalsAssumption, PublicAssumption DEF Init, AccountTypes
<1>2. AccountTypes /\ [Next]_vars => AccountTypes'
    BY Chosen, TokenInductive, MailInductive, GoogleInductive, PeopleInductive,
       SitesInductive, SitesTypedInductive, HomesInductive, CacheInductive,
       AccountsAssumption, PortalsAssumption, PublicAssumption DEF AccountTypes
<1> QED
    BY <1>1, <1>2

LEMMA CrmTypesHold ==
    /\ Init => CrmTypes
    /\ CrmTypes /\ [Next]_vars => CrmTypes'
<1>1. Init => CrmTypes
    BY DocsInitially, DocsFolderInitially, SetupInitially, MemoryInitially, EventsInitially,
       TracksInitially, LinksInitially, ActivityInitially, IndexInitially,
       TransactionsAssumption, MemoryAssumption, AccountsAssumption, ContactsAssumption,
       CopiesAssumption DEF Init, CrmTypes
<1>2. CrmTypes /\ [Next]_vars => CrmTypes'
    BY Chosen, DocsInductive, DocsFolderInvStep, SetupInductive, MemoryInductive,
       EventsInductive, TracksInductive, LinksInductive, ActivityInductive, IndexInductive,
       TransactionsAssumption, MemoryAssumption, AccountsAssumption, ContactsAssumption,
       CopiesAssumption DEF CrmTypes
<1> QED
    BY <1>1, <1>2

LEMMA WorkerTypes ==
    /\ Worker!Init => Worker!IInv
    /\ Worker!IInv /\ [Worker!WorkerNext]_(Worker!vars) => Worker!IInv'
    /\ Worker!IInv => Worker!TypeOK
<1>1. Worker!Init => Worker!IInv
    BY Worker!InitIInv, WorkerAssumption
<1>2. ASSUME Worker!IInv, Worker!WorkerNext PROVE Worker!IInv'
    BY <1>2, Worker!WorkerStep, WorkerAssumption
<1>3. ASSUME Worker!IInv, UNCHANGED Worker!vars PROVE Worker!IInv'
    BY <1>3, Worker!StutterStep, WorkerAssumption
<1>4. Worker!IInv => Worker!TypeOK
    BY DEF Worker!IInv
<1> QED
    BY <1>1, <1>2, <1>3, <1>4

LEMMA JobTypesHold ==
    /\ Init => JobTypes
    /\ JobTypes /\ [Next]_vars => JobTypes'
<1>1. Init => JobTypes
    BY WorkerTypes, MigrationInitially, TagsInitially, PhotosInitially, AlertsInitially,
       InboxInitially, JobsAssumption, ListsAssumption DEF Init, JobTypes
<1>2. JobTypes /\ [Next]_vars => JobTypes'
    BY Chosen, WorkerTypes, MigrationInductive, TagsInductive, PhotosInductive,
       AlertsInductive, InboxInductive, JobsAssumption, ListsAssumption DEF JobTypes
<1> QED
    BY <1>1, <1>2

\* The state of every component keeps its types, whatever its requests, runs and faults
\* do: all 21 of MCComponents, each from its inductive invariant.
THEOREM TypesHold == Spec => []TypeOK
<1> DEFINE Inv == AccountTypes /\ CrmTypes /\ JobTypes
<1>1. Init => Inv
    BY AccountTypesHold, CrmTypesHold, JobTypesHold
<1>2. Inv /\ [Next]_vars => Inv'
    BY AccountTypesHold, CrmTypesHold, JobTypesHold
<1>3. Inv => TypeOK
  <2> SUFFICES ASSUME Inv PROVE TypeOK
      OBVIOUS
  <2>1. /\ part = "token" => Token!TypeOK
        /\ part = "mail" => Mail!MailTypeOK
        /\ part = "google" => Google!TypeOK
        /\ part = "users" => People!TypeOK
        /\ part = "portals" => Sites!TypeOK
        /\ part = "catalog" => Homes!TypeOK
        /\ part = "cache" => Cache!TypeOK
      BY TokenProperties, MailProperties, GoogleProperties, PeopleProperties, SitesTyping,
         HomesPromised, CacheProperties, AccountsAssumption, PublicAssumption DEF AccountTypes
  <2>2. /\ part = "documents" => Docs!TypeOK
        /\ part = "setup" => Setup!TypeOK
        /\ part = "memory" => Memory!TypeOK
        /\ part = "calendar" => Events!TypeOK
        /\ part = "tracks" => Tracks!TypeOK
        /\ part = "links" => Links!TypeOK
        /\ part = "activity" => Activity!TypeOK
        /\ part = "index" => Index!TypeOK
    <3>1. part = "setup" => Setup!TypeOK
        BY DEF CrmTypes, Setup!IInv
    <3> QED
        BY <3>1, DocsProperties, MemoryProperties, EventsProperties, TracksProperties,
           LinksProperties, ActivityProperties, IndexProperties, TransactionsAssumption,
           MemoryAssumption, AccountsAssumption, ContactsAssumption DEF CrmTypes
  <2>3. /\ part = "worker" => Worker!TypeOK
        /\ part = "migration" => Migration!TypeOK
        /\ part = "tags" => Tags!TypeOK
        /\ part = "photos" => Photos!TypeOK
        /\ part = "saved" => Alerts!TypeOK
        /\ part = "inbox" => Inbox!TypeOK
      BY WorkerTypes, MigrationProperties, TagsProperties, PhotosProperties, AlertsProperties,
         InboxProperties, JobsAssumption, ListsAssumption DEF JobTypes
  <2> QED
      BY <2>1, <2>2, <2>3 DEF TypeOK
<1> QED
    BY <1>1, <1>2, <1>3, PTL DEF Spec
=============================================================================
