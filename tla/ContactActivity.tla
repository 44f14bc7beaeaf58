--------------------------- MODULE ContactActivity ---------------------------
(***************************************************************************)
(* The activity fields a contact repeats from its interactions and tasks   *)
(* (contactActivityDenormService).  A refresh reads four rows, each at a   *)
(* moment of its own, and then writes the contact; the services start one  *)
(* without waiting for it, and not after every change.                     *)
(***************************************************************************)
EXTENDS Integers, FiniteSets, FiniteSetsExt

CONSTANTS
    Contact,             \* positive integers
    Interaction, Task,   \* ids of rows
    Time,                \* moments, positive integers
    Refresh,             \* refreshes that may run
    MaxChanges           \* bound on the changes of rows

VARIABLES
    interaction,   \* id -> [of, type, at]
    task,          \* id -> [of, open, due]
    field,         \* contact -> field -> moment, 0 for null
    refresh,       \* refresh -> [of, got]: the contact and what it has read
    stale,         \* history: contacts whose fields may rightly differ
    changes

vars == <<interaction, task, field, refresh, stale, changes>>

\* lastInteractionAt, lastConsultAt, lastEventAt, nextTaskDueAt
Field == {"interaction", "consult", "event", "task"}
Type == {"CALL", "CONSULT", "MEETING"}
Nobody == 0

NoInteraction == [of |-> Nobody, type |-> "CALL", at |-> 0]
NoTask == [of |-> Nobody, open |-> FALSE, due |-> 0]

Latest(c, types) ==
    Max({0} \cup {interaction[i].at : i \in {j \in Interaction : /\ interaction[j].of = c
                                                                  /\ interaction[j].type \in types}})

\* A task without a due date does not count.
Due(c) == {task[t].due : t \in {u \in Task : task[u].of = c /\ task[u].open}} \ {0}

\* What one read of a refresh finds.
Value(c, f) ==
    CASE f = "interaction" -> Latest(c, Type)
      [] f = "consult" -> Latest(c, {"CONSULT"})
      [] f = "event" -> Latest(c, {"MEETING"})
      [] OTHER -> IF Due(c) = {} THEN 0 ELSE Min(Due(c))

Running(c) == {r \in Refresh : refresh[r].of = c}

TypeOK ==
    /\ \A i \in Interaction : interaction[i].of \in Contact \cup {Nobody}
    /\ \A t \in Task : task[t].of \in Contact \cup {Nobody}
    /\ field \in [Contact -> [Field -> Time \cup {0}]]
    /\ \A r \in Refresh : /\ refresh[r].of \in Contact \cup {Nobody}
                          /\ DOMAIN refresh[r].got \subseteq Field
    /\ stale \subseteq Contact
    /\ changes \in 0..MaxChanges

NotRunning == [of |-> Nobody, got |-> [f \in {} |-> 0]]

Init ==
    /\ interaction = [i \in Interaction |-> NoInteraction]
    /\ task = [t \in Task |-> NoTask]
    /\ field = [c \in Contact |-> [f \in Field |-> 0]]
    /\ refresh = [r \in Refresh |-> NotRunning]
    /\ stale = {}
    /\ changes = 0

-----------------------------------------------------------------------------

\* A change after which the refresh r of contact c is started, if c is one.
Refreshed(r, c) ==
    /\ changes < MaxChanges /\ changes' = changes + 1
    /\ IF c = Nobody
       THEN UNCHANGED <<refresh, stale>>
       ELSE /\ refresh[r].of = Nobody
            /\ refresh' = [refresh EXCEPT ![r] = [NotRunning EXCEPT !.of = c]]
            /\ stale' = IF Running(c) = {} THEN stale ELSE stale \cup {c}
    /\ UNCHANGED field

\* A change of a row of c after which nobody refreshes c.
Unrefreshed(c) ==
    /\ changes < MaxChanges /\ changes' = changes + 1
    /\ stale' = stale \cup {c}
    /\ UNCHANGED <<field, refresh>>

\* addInteraction
AddInteraction(i, r, c, type, at) ==
    /\ interaction[i].of = Nobody
    /\ interaction' = [interaction EXCEPT ![i] = [of |-> c, type |-> type, at |-> at]]
    /\ Refreshed(r, c)
    /\ UNCHANGED task

\* updateInteraction
UpdateInteraction(i, type, at) ==
    /\ interaction[i].of # Nobody
    /\ interaction' = [interaction EXCEPT ![i] = [of |-> @.of, type |-> type, at |-> at]]
    /\ Unrefreshed(interaction[i].of)
    /\ UNCHANGED task

\* deleteInteraction
DeleteInteraction(i) ==
    /\ interaction[i].of # Nobody
    /\ interaction' = [interaction EXCEPT ![i] = NoInteraction]
    /\ Unrefreshed(interaction[i].of)
    /\ UNCHANGED task

\* createTask: a task of no contact is of no account here.
CreateTask(t, r, c, due) ==
    /\ task[t].of = Nobody
    /\ task' = [task EXCEPT ![t] = [of |-> c, open |-> TRUE, due |-> due]]
    /\ Refreshed(r, c)
    /\ UNCHANGED interaction

\* updateTask: only the contact the task has now is refreshed, so that the one
\* it was moved away from keeps its field.
UpdateTask(t, r, c, open, due) ==
    LET old == task[t].of IN
    /\ old # Nobody
    /\ task' = [task EXCEPT ![t] = IF c = Nobody THEN NoTask ELSE [of |-> c, open |-> open, due |-> due]]
    /\ IF c = Nobody THEN Unrefreshed(old)
       ELSE /\ changes < MaxChanges /\ changes' = changes + 1
            /\ refresh[r].of = Nobody
            /\ refresh' = [refresh EXCEPT ![r] = [NotRunning EXCEPT !.of = c]]
            /\ stale' = stale \cup (IF Running(c) = {} THEN {} ELSE {c})
                              \cup (IF old = c THEN {} ELSE {old})
            /\ UNCHANGED field
    /\ UNCHANGED interaction

\* deleteTask
DeleteTask(t, r) ==
    /\ task[t].of # Nobody
    /\ task' = [task EXCEPT ![t] = NoTask]
    /\ Refreshed(r, task[t].of)
    /\ UNCHANGED interaction

-----------------------------------------------------------------------------

\* One of the four reads of a refresh.
Read(r, f) ==
    LET run == refresh[r] IN
    /\ run.of # Nobody /\ f \notin DOMAIN run.got
    /\ refresh' = [refresh EXCEPT ![r].got =
                       [g \in DOMAIN run.got \cup {f} |-> IF g = f THEN Value(run.of, f) ELSE run.got[g]]]
    /\ UNCHANGED <<interaction, task, field, stale, changes>>

\* The write.  One that runs alone and is right ends every difference.
Write(r) ==
    LET run == refresh[r] IN
    /\ run.of # Nobody /\ DOMAIN run.got = Field
    /\ field' = [field EXCEPT ![run.of] = run.got]
    /\ refresh' = [refresh EXCEPT ![r] = NotRunning]
    /\ stale' = IF Running(run.of) = {r} /\ \A f \in Field : run.got[f] = Value(run.of, f)
                THEN stale \ {run.of} ELSE stale
    /\ UNCHANGED <<interaction, task, changes>>

\* A read or the write fails and is only logged, or the process stops.
Fail(r) ==
    /\ refresh[r].of # Nobody
    /\ refresh' = [refresh EXCEPT ![r] = NotRunning]
    /\ stale' = stale \cup {refresh[r].of}
    /\ UNCHANGED <<interaction, task, field, changes>>

Next ==
    \/ \E i \in Interaction, type \in Type, at \in Time :
          \/ UpdateInteraction(i, type, at)
          \/ \E r \in Refresh, c \in Contact : AddInteraction(i, r, c, type, at)
    \/ \E i \in Interaction : DeleteInteraction(i)
    \/ \E t \in Task, r \in Refresh, due \in Time \cup {0} :
          \/ \E c \in Contact : CreateTask(t, r, c, due)
          \/ \E c \in Contact \cup {Nobody}, open \in BOOLEAN : UpdateTask(t, r, c, open, due)
    \/ \E t \in Task, r \in Refresh : DeleteTask(t, r)
    \/ \E r \in Refresh : Write(r) \/ Fail(r) \/ \E f \in Field : Read(r, f)

Spec == Init /\ [][Next]_vars

-----------------------------------------------------------------------------

\* When no refresh of a contact runs, its fields are what its interactions and
\* open tasks say, unless refreshes overlapped or one failed; one refresh alone ends
\* such a difference.  The header of the service asks for a refresh after any change,
\* and this holds only of the changes that have one: an interaction that is edited or
\* deleted, and a task that leaves its contact, leave the old fields where they are.
FieldsFollowRows ==
    \A c \in Contact : Running(c) = {} /\ c \notin stale => \A f \in Field : field[c][f] = Value(c, f)

-----------------------------------------------------------------------------

Interactions == [of : Contact \cup {Nobody}, type : Type, at : Time \cup {0}]
Tasks == [of : Contact \cup {Nobody}, open : BOOLEAN, due : Time \cup {0}]
Runs == [of : Contact \cup {Nobody}, got : UNION {[F -> Time \cup {0}] : F \in SUBSET Field}]

\* What a contact that is not stale keeps to: one refresh at most runs, and what it has
\* read is still so; the fields are right when none does.
Follows(c) ==
    /\ \A r, q \in Running(c) : r = q
    /\ \A r \in Running(c), f \in Field : f \in DOMAIN refresh[r].got => refresh[r].got[f] = Value(c, f)
    /\ Running(c) = {} => \A f \in Field : field[c][f] = Value(c, f)

\* The inductive invariant.
IInv ==
    /\ TypeOK
    /\ interaction \in [Interaction -> Interactions] /\ task \in [Task -> Tasks]
    /\ refresh \in [Refresh -> Runs]
    /\ \A c \in Contact \ stale : Follows(c)

\* What the constants have to be.
Bounds ==
    /\ Contact \subseteq Nat \ {0} /\ Time \subseteq Nat \ {0} /\ MaxChanges \in Nat
    /\ IsFiniteSet(Interaction)

=============================================================================
