---------------------------- MODULE DocumentIndex ----------------------------
(***************************************************************************)
(* The search documents of contacts, transactions, tasks and notes.  Every *)
(* service writes its row and then sends the document on without waiting   *)
(* (upsertDocument, deleteDocument), so documents may arrive in any order; *)
(* a refused one is thrown again in a promise that nobody handles, which   *)
(* ends the process.  An administrator may import all the rows again.      *)
(***************************************************************************)
EXTENDS Naturals

CONSTANTS
    Entity,      \* ids of rows of one collection
    Call,        \* writes on their way to the index
    Typesense,   \* whether the deployment runs a search service
    MaxVersion,  \* bound on the writes of one row
    MaxFaults    \* bound on the calls a running search service refuses

VARIABLES
    alive,   \* the API process
    row,     \* entity -> [there, version]: the row in the database
    doc,     \* entity -> version of the document, 0 when there is none
    call,    \* call -> [op, of, version]
    import,  \* [on, docs]: the rows an administrator's reindex has read
    stale,   \* history: entities whose document may rightly differ
    faults

vars == <<alive, row, doc, call, import, stale, faults>>

Idle == [op |-> "idle", of |-> CHOOSE e \in Entity : TRUE, version |-> 0]

NoImport == [on |-> FALSE, docs |-> [e \in Entity |-> 0]]

\* The document a row has.
Of(r) == IF r.there THEN r.version ELSE 0

\* A write to the document of e is on its way.
Busy(e) == import.on \/ \E c \in Call : call[c].op # "idle" /\ call[c].of = e

TypeOK ==
    /\ alive \in BOOLEAN
    /\ row \in [Entity -> [there : BOOLEAN, version : 0..MaxVersion]]
    /\ doc \in [Entity -> 0..MaxVersion]
    /\ call \in [Call -> [op : {"idle", "read", "upsert", "delete"}, of : Entity,
                          version : 0..MaxVersion]]
    /\ import \in [on : BOOLEAN, docs : [Entity -> 0..MaxVersion]]
    /\ stale \subseteq Entity
    /\ faults \in 0..MaxFaults

Init ==
    /\ alive = TRUE
    /\ row = [e \in Entity |-> [there |-> FALSE, version |-> 0]]
    /\ doc = [e \in Entity |-> 0]
    /\ call = [c \in Call |-> Idle]
    /\ import = NoImport
    /\ stale = {}
    /\ faults = 0

-----------------------------------------------------------------------------

\* The handler of e answers, having sent the write w on its way.
Send(c, e, w) ==
    /\ alive /\ call[c].op = "idle"
    /\ call' = [call EXCEPT ![c] = w]
    /\ stale' = IF Busy(e) THEN stale \cup {e} ELSE stale
    /\ UNCHANGED <<alive, doc, import, faults>>

\* createContact, createTask, createNote, createTransaction
Create(e, c) ==
    /\ row[e].version = 0
    /\ row' = [row EXCEPT ![e] = [there |-> TRUE, version |-> 1]]
    /\ Send(c, e, [op |-> "upsert", of |-> e, version |-> 1])

\* Mutant: the document is made from the row that was read before the write.
Update_Before(e, c) ==
    /\ row[e].there /\ row[e].version < MaxVersion
    /\ row' = [row EXCEPT ![e].version = @ + 1]
    /\ Send(c, e, [op |-> "upsert", of |-> e, version |-> row[e].version])

\* updateTask, updateNote, updateTransaction and a note written again for its
\* event: the document is the row the write returned.
Update(e, c) ==
    /\ row[e].there /\ row[e].version < MaxVersion
    /\ row' = [row EXCEPT ![e].version = @ + 1]
    /\ Send(c, e, [op |-> "upsert", of |-> e, version |-> row[e].version + 1])

\* updateContact: the row is written, then read again for its document.
UpdateContact(e, c) ==
    /\ row[e].there /\ row[e].version < MaxVersion
    /\ row' = [row EXCEPT ![e].version = @ + 1]
    /\ Send(c, e, [op |-> "read", of |-> e, version |-> 0])

ReadBack(c) ==
    /\ alive /\ call[c].op = "read"
    /\ LET r == row[call[c].of] IN
       call' = [call EXCEPT ![c] =
                   IF r.there THEN [@ EXCEPT !.op = "upsert", !.version = r.version] ELSE Idle]
    /\ UNCHANGED <<alive, row, doc, import, stale, faults>>

\* deleteContact, deleteTask, deleteNote, deleteTransaction
Delete(e, c) ==
    /\ row[e].there
    /\ row' = [row EXCEPT ![e].there = FALSE]
    /\ Send(c, e, [op |-> "delete", of |-> e, version |-> 0])

\* addParty, removeParty, a contact made from a submission, a task an action
\* made: what the document shows changes and no document is sent.
Unsent(e) ==
    /\ alive /\ row[e].version < MaxVersion
    /\ row[e].there \/ row[e].version = 0
    /\ row' = [row EXCEPT ![e] = [there |-> TRUE, version |-> @.version + 1]]
    /\ stale' = stale \cup {e}
    /\ UNCHANGED <<alive, doc, call, import, faults>>

\* The search service takes the write; alone and up to date it ends every
\* difference of before.
Arrive(c) ==
    /\ Typesense
    /\ call[c].op \in {"upsert", "delete"}
    /\ LET w == call[c]
           alone == ~import.on /\ \A d \in Call \ {c} : call[d].op = "idle" \/ call[d].of # w.of
       IN /\ doc' = [doc EXCEPT ![w.of] = w.version]
          /\ stale' = IF alone /\ w.version = Of(row[w.of]) THEN stale \ {w.of} ELSE stale
    /\ call' = [call EXCEPT ![c] = Idle]
    /\ UNCHANGED <<alive, row, import, faults>>

\* The write is refused; its promise is rejected, nobody handles it, and the
\* process ends with every write on its way.
Refused(c) ==
    /\ call[c].op \in {"upsert", "delete"}
    /\ Typesense => faults < MaxFaults
    /\ faults' = IF Typesense THEN faults + 1 ELSE faults
    /\ alive' = FALSE
    /\ stale' = stale \cup {e \in Entity : Busy(e)}
    /\ call' = [d \in Call |-> Idle]
    /\ import' = NoImport
    /\ UNCHANGED <<row, doc>>

Restart ==
    /\ ~alive /\ alive' = TRUE
    /\ UNCHANGED <<row, doc, call, import, stale, faults>>

-----------------------------------------------------------------------------

\* POST /api/search/reindex: all rows are read, then imported in one call.
ReindexRead ==
    /\ alive /\ Typesense /\ ~import.on
    /\ import' = [on |-> TRUE, docs |-> [e \in Entity |-> Of(row[e])]]
    /\ stale' = stale \cup {e \in Entity : Busy(e)}
    /\ UNCHANGED <<alive, row, doc, call, faults>>

\* The import writes the documents it has and leaves the others, so that a
\* document without a row stays.
ReindexWrite ==
    /\ import.on
    /\ doc' = [e \in Entity |-> IF import.docs[e] = 0 THEN doc[e] ELSE import.docs[e]]
    /\ stale' = stale \ {e \in Entity : /\ import.docs[e] # 0
                                        /\ import.docs[e] = Of(row[e])
                                        /\ \A c \in Call : call[c].op = "idle" \/ call[c].of # e}
    /\ import' = NoImport
    /\ UNCHANGED <<alive, row, call, faults>>

Next ==
    \/ \E e \in Entity, c \in Call :
          Create(e, c) \/ Update(e, c) \/ UpdateContact(e, c) \/ Delete(e, c)
    \/ \E e \in Entity : Unsent(e)
    \/ \E c \in Call : ReadBack(c) \/ Arrive(c) \/ Refused(c)
    \/ Restart \/ ReindexRead \/ ReindexWrite

Spec == Init /\ [][Next]_vars

-----------------------------------------------------------------------------

\* Once nothing is on its way to the document of a row, the document is the
\* row's, unless two writes of it overlapped, one was lost with the process, or
\* the row changed where no document is sent; one write or import alone ends
\* such a difference.
DocumentFollowsRow ==
    \A e \in Entity : ~Busy(e) /\ e \notin stale => doc[e] = Of(row[e])

\* README.md:11: Typesense is optional, "the core stack runs without" it.  A
\* deployment without it is never stopped by the writes of its own services.
SearchIsOptional == ~Typesense => alive

-----------------------------------------------------------------------------

\* The writes on their way to the document of e.
On(e) == {c \in Call : call[c].op # "idle" /\ call[c].of = e}

\* What an entity that is not stale keeps to: one write at most is on its way, and it
\* will make the document the row's, which it is where none is.
Follows(e) ==
    /\ import.on => On(e) = {} /\ import.docs[e] = Of(row[e]) /\ doc[e] = Of(row[e])
    /\ \A c, d \in On(e) : c = d
    /\ \A c \in On(e) : IF call[c].op = "read" THEN row[e].there
                                               ELSE call[c].version = Of(row[e])
    /\ ~Busy(e) => doc[e] = Of(row[e])

\* The inductive invariant.
IInv == TypeOK /\ \A e \in Entity \ stale : Follows(e)

\* What the constants have to be.
Bounds == Entity # {} /\ MaxVersion \in Nat \ {0} /\ MaxFaults \in Nat

=============================================================================
