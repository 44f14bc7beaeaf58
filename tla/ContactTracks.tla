---------------------------- MODULE ContactTracks ----------------------------
(***************************************************************************)
(* The tracks of one side of a contact (syncContactTracks).  An update of  *)
(* the contact runs in a database transaction: it looks for the active     *)
(* track, ends every active one and makes the new one.  Transactions read  *)
(* what is committed; only an update that also writes fields of the        *)
(* contact locks the contact's row, so only those wait for each other.     *)
(***************************************************************************)
EXTENDS Naturals, FiniteSets

CONSTANTS
    Stage,    \* stages a track may have; "" asks for none
    Update    \* updates, the numbers 1..n, made once each and in this order

VARIABLES
    active,   \* the active tracks: [by, stage, at]
    tx,       \* update -> [phase, stage, fields, drop]
    raced     \* history: an update of tracks alone overlapped another one

vars == <<active, tx, raced>>

Phases == {"new", "begun", "looked", "dropped", "done"}
New == [phase |-> "new", stage |-> "", fields |-> FALSE, drop |-> {}]

Open(u) == tx[u].phase \in {"begun", "looked", "dropped"}
Others(u) == {v \in Update \ {u} : Open(v)}

TypeOK ==
    /\ active \subseteq [by : Update, stage : Stage, at : Nat]
    /\ tx \in [Update -> [phase : Phases, stage : Stage \cup {""}, fields : BOOLEAN,
                          drop : SUBSET Update]]
    /\ raced \in BOOLEAN

Init == active = {} /\ tx = [u \in Update |-> New] /\ raced = FALSE

-----------------------------------------------------------------------------

\* Mutant: the contact's row is written after its tracks.
Waits_Not(u, fields) == FALSE

\* The update statement on the contact's row waits for those before it.
Waits(u, fields) == fields /\ \E v \in Others(u) : tx[v].fields

\* The transaction begins; with fields it writes the contact's row first.
Begin(u, stage, fields) ==
    /\ tx[u].phase = "new" /\ \A v \in Update : v < u => tx[v].phase # "new"
    /\ ~Waits(u, fields)
    /\ tx' = [tx EXCEPT ![u] = [New EXCEPT !.phase = "begun", !.stage = stage, !.fields = fields]]
    /\ raced' = (raced \/ \E v \in Others(u) : ~fields \/ ~tx[v].fields)
    /\ UNCHANGED active

\* The active track is looked up, the one updated last first; the side stays as
\* it is when it has the stage already.
Look(u) ==
    /\ tx[u].phase = "begun"
    /\ LET same == \E t \in active : t.stage = tx[u].stage /\ \A s \in active : s.at <= t.at
       IN tx' = [tx EXCEPT ![u].phase = IF same THEN "done" ELSE "looked"]
    /\ UNCHANGED <<active, raced>>

\* All active tracks are ended; the statement waits for a transaction that has
\* ended one of them and is not committed.
Drop(u) ==
    /\ tx[u].phase = "looked"
    /\ LET seen == {t.by : t \in active} IN
       /\ \A v \in Others(u) : tx[v].drop \cap seen = {}
       /\ tx' = [tx EXCEPT ![u].phase = "dropped", ![u].drop = seen]
    /\ UNCHANGED <<active, raced>>

\* The updates that are over order the tracks in time.
Over == {u \in Update : tx[u].phase = "done"}

\* The new track is made, if a stage was asked for, and all is committed.
Commit(u) ==
    /\ tx[u].phase = "dropped"
    /\ active' = {t \in active : t.by \notin tx[u].drop}
                     \cup {[by |-> u, stage |-> s, at |-> Cardinality(Over)] :
                             s \in {tx[u].stage} \ {""}}
    /\ tx' = [tx EXCEPT ![u].phase = "done", ![u].drop = {}]
    /\ UNCHANGED raced

\* The transaction fails, or the process stops, and nothing of it remains.
Abort(u) ==
    /\ Open(u)
    /\ tx' = [tx EXCEPT ![u].phase = "done", ![u].drop = {}]
    /\ UNCHANGED <<active, raced>>

Next ==
    \E u \in Update :
        \/ \E stage \in Stage \cup {""}, fields \in BOOLEAN : Begin(u, stage, fields)
        \/ Look(u) \/ Drop(u) \/ Commit(u) \/ Abort(u)

Spec == Init /\ [][Next]_vars

-----------------------------------------------------------------------------

\* A side has at most one active track, unless an update of the tracks alone
\* overlapped another update: the contact's row keeps the others apart.
OneActiveTrack == ~raced => \A s, t \in active : s = t

-----------------------------------------------------------------------------

\* The inductive invariant: as long as no two updates overlapped unseen, one is
\* under way at most, and it ends every track there is.
IInv ==
    /\ TypeOK
    /\ ~raced => /\ \A s, t \in active : s = t
                 /\ \A u, v \in Update : Open(u) /\ Open(v) => u = v
                 /\ \A u \in Update : tx[u].phase = "dropped" => {t.by : t \in active} \subseteq tx[u].drop

\* What the constants have to be.
Bounds == IsFiniteSet(Update) /\ "" \notin Stage

=============================================================================
