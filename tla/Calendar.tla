------------------------------ MODULE Calendar ------------------------------
(***************************************************************************)
(* An event of the agent's calendar (apps/api) and its copies in Google    *)
(* Calendar.  A request commits the event, reads it back, calls Google and *)
(* notes the outcome in the row; requests interleave between these steps.  *)
(* What an event says is its version.                                      *)
(***************************************************************************)
EXTENDS Naturals, FiniteSets

CONSTANTS
    Request,     \* slots for the agent's requests
    MaxVersion,  \* bound: versions of the event
    MaxFaults    \* bound: crashes, failed database calls and calls cut off

VARIABLES
    row,       \* the Event row
    copy,      \* copy[i]: version Google shows of the i-th copy made, 0 deleted
    made,      \* copies made
    connected, \* a Google account is connected
    req,       \* req[c]: a running request
    blurred,   \* history: two calls held what they had read at the same time,
               \* or the event was changed while Google was not connected
    faults,    \* crashes and failed database calls so far
    cut        \* history: calls of Google whose account was disconnected meanwhile

vars == <<row, copy, made, connected, req, blurred, faults, cut>>

-----------------------------------------------------------------------------

MaxCopies == Cardinality(Request) + MaxFaults

NoRow == [exists |-> FALSE, version |-> 0, remote |-> 0, error |-> FALSE]

Idle == [pc |-> "idle", version |-> 0, remote |-> 0]

Pc == {"idle", "commit", "read", "call", "stamp", "store", "error", "recall", "remove"}

TypeOK ==
    /\ row \in [exists: BOOLEAN, version: 0..MaxVersion, remote: Nat, error: BOOLEAN]
    /\ copy \in [1..(MaxCopies + 1) -> 0..MaxVersion]
    /\ made \in Nat
    /\ connected \in BOOLEAN
    /\ req \in [Request -> [pc: Pc, version: 0..MaxVersion, remote: Nat]]
    /\ blurred \in BOOLEAN
    /\ faults \in 0..MaxFaults /\ cut \in 0..MaxFaults

Init ==
    /\ row = NoRow
    /\ copy = [i \in 1..(MaxCopies + 1) |-> 0]
    /\ made = 0
    /\ connected \in BOOLEAN
    /\ req = [c \in Request |-> Idle]
    /\ blurred = FALSE
    /\ faults = 0 /\ cut = 0

At(c, pc) == req[c].pc = pc

Goes(c, pc) == req' = [req EXCEPT ![c].pc = pc]

Answer(c) == req' = [req EXCEPT ![c] = Idle]

-----------------------------------------------------------------------------

\* createEvent: the row with its attendees in one transaction.
Create(c) ==
    /\ At(c, "idle") /\ row.version = 0
    /\ row' = [NoRow EXCEPT !.exists = TRUE, !.version = 1]
    /\ Goes(c, "read")
    /\ UNCHANGED <<copy, made, connected, blurred, faults, cut>>

\* updateEvent finds the event.
Find(c) ==
    /\ At(c, "idle") /\ row.exists
    /\ Goes(c, "commit")
    /\ UNCHANGED <<row, copy, made, connected, blurred, faults, cut>>

\* addEventAttendee and removeEventAttendee change the attendees, then call
\* updateEvent with nothing of their own.
ChangeAttendees(c) ==
    /\ At(c, "idle") /\ row.exists /\ row.version < MaxVersion
    /\ row' = [row EXCEPT !.version = row.version + 1]
    /\ Goes(c, "commit")
    /\ UNCHANGED <<copy, made, connected, blurred, faults, cut>>

\* Its transaction, which rejects when the row is gone.
Commit(c) ==
    /\ At(c, "commit")
    /\ IF row.exists
       THEN /\ \E v \in {row.version, row.version + 1} \cap 0..MaxVersion :
                  row' = [row EXCEPT !.version = v]
            /\ Goes(c, "read")
       ELSE Answer(c) /\ UNCHANGED row
    /\ UNCHANGED <<copy, made, connected, blurred, faults, cut>>

\* getEventForSync; a row that is gone ends in an error.
ReadBack(c) ==
    /\ At(c, "read")
    /\ req' = [req EXCEPT ![c] = IF row.exists
                                 THEN [pc |-> "call", version |-> row.version, remote |-> row.remote]
                                 ELSE Idle]
    /\ blurred' = (blurred \/ \E d \in Request : req[d].pc \in {"call", "stamp", "store", "error"})
    /\ UNCHANGED <<row, copy, made, connected, faults, cut>>

\* syncEventToGoogle creates the copy of an event that has none ...
MakeCopy(c) ==
    /\ At(c, "call") /\ connected /\ req[c].remote = 0
    /\ made' = made + 1
    /\ copy' = [copy EXCEPT ![made + 1] = req[c].version]
    /\ req' = [req EXCEPT ![c].pc = "stamp", ![c].remote = made + 1]
    /\ UNCHANGED <<row, connected, blurred, faults, cut>>

\* ... or patches the one it has, unless that was deleted.
PatchCopy(c) ==
    LET i == req[c].remote
    IN  /\ At(c, "call") /\ connected /\ i # 0
        /\ copy' = IF copy[i] = 0 THEN copy ELSE [copy EXCEPT ![i] = req[c].version]
        /\ Goes(c, IF copy[i] = 0 THEN "error" ELSE "stamp")
        /\ UNCHANGED <<row, made, connected, blurred, faults, cut>>

\* Google has answered: the account's lastSyncedAt is written, as long as it is the one
\* the call was made for.
Stamp(c) ==
    /\ At(c, "stamp")
    /\ Goes(c, "store")
    /\ UNCHANGED <<row, copy, made, connected, blurred, faults, cut>>

\* Google refuses, which is noted; that no account is connected is not.
Refused(c) ==
    /\ At(c, "call")
    /\ IF connected THEN Goes(c, "error") /\ UNCHANGED blurred
       ELSE Answer(c) /\ blurred' = TRUE
    /\ UNCHANGED <<row, copy, made, connected, faults, cut>>

\* The outcome is noted in the row, if there still is one.
Store(c) ==
    /\ At(c, "store")
    /\ row' = IF row.exists THEN [row EXCEPT !.remote = req[c].remote, !.error = FALSE] ELSE row
    /\ Answer(c)
    /\ UNCHANGED <<copy, made, connected, blurred, faults, cut>>

StoreError(c) ==
    /\ At(c, "error")
    /\ row' = IF row.exists THEN [row EXCEPT !.error = TRUE] ELSE row
    /\ Answer(c)
    /\ UNCHANGED <<copy, made, connected, blurred, faults, cut>>

\* deleteEvent: the copy it knows of, whether Google agrees or not, ...
Forget(c) ==
    /\ At(c, "idle") /\ row.exists
    /\ req' = [req EXCEPT ![c] = [Idle EXCEPT !.pc = IF row.remote = 0 THEN "remove" ELSE "recall",
                                              !.remote = row.remote]]
    /\ UNCHANGED <<row, copy, made, connected, blurred, faults, cut>>

Recall(c) ==
    /\ At(c, "recall")
    /\ \/ connected /\ copy' = [copy EXCEPT ![req[c].remote] = 0]
       \/ UNCHANGED copy
    /\ Goes(c, "remove")
    /\ UNCHANGED <<row, made, connected, blurred, faults, cut>>

\* ... then the row.
Remove(c) ==
    /\ At(c, "remove")
    /\ row' = [NoRow EXCEPT !.version = row.version]
    /\ Answer(c)
    /\ UNCHANGED <<copy, made, connected, blurred, faults, cut>>

-----------------------------------------------------------------------------

\* The agent connects a Google account, or disconnects it.  A call that Google has
\* answered by then cannot write its account any more, whatever is connected later: it
\* throws, and the copy it made or patched is not stored.
Connect ==
    /\ ~connected
    /\ connected' = TRUE
    /\ UNCHANGED <<row, copy, made, req, blurred, faults, cut>>

Stamping == {c \in Request : req[c].pc = "stamp"}

Disconnect ==
    /\ connected /\ faults + cut + Cardinality(Stamping) <= MaxFaults
    /\ connected' = FALSE
    /\ req' = [c \in Request |-> IF At(c, "stamp") THEN [req[c] EXCEPT !.pc = "error"] ELSE req[c]]
    /\ cut' = cut + Cardinality(Stamping)
    /\ UNCHANGED <<row, copy, made, blurred, faults>>

\* The process ends, or a database call fails; one after a call of Google is
\* noted as Google's refusal if that can be written.
Fault(c) ==
    /\ ~At(c, "idle") /\ faults + cut < MaxFaults
    /\ faults' = faults + 1
    /\ Answer(c) \/ ((At(c, "stamp") \/ At(c, "store")) /\ Goes(c, "error"))
    /\ UNCHANGED <<row, copy, made, connected, blurred, cut>>

Serve(c) ==
    \/ Create(c) \/ Find(c) \/ ChangeAttendees(c) \/ Commit(c) \/ ReadBack(c)
    \/ MakeCopy(c) \/ PatchCopy(c) \/ Stamp(c) \/ Refused(c) \/ Store(c) \/ StoreError(c)
    \/ Forget(c) \/ Recall(c) \/ Remove(c) \/ Fault(c)

Next == Connect \/ Disconnect \/ \E c \in Request : Serve(c)

Spec == Init /\ [][Next]_vars

-----------------------------------------------------------------------------

\* Google is made at most one copy of an event for each request that may be at work
\* at a time, each fault and each call that a disconnect cut off before its copy was
\* stored, however often the event is changed.
CopiesBounded == made <= Cardinality(Request) + faults + cut

AtRest == \A c \in Request : req[c].pc = "idle"

\* Once no request runs, a copy that does not say what the event says is told
\* by the row's error, unless two calls raced with what they had read, Google
\* was not connected at a change, or a call was lost.
StaleCopyIsTold ==
    AtRest /\ row.exists /\ row.remote # 0 /\ ~blurred /\ faults = 0
      => row.error \/ copy[row.remote] = row.version

-----------------------------------------------------------------------------

\* The requests that read an event without a copy and are to make it, and those
\* that are to note in the row the copy they made or patched.
Calling == {c \in Request : req[c].pc = "call" /\ req[c].remote = 0}
Storing == {c \in Request : req[c].pc \in {"stamp", "store"}}

\* What the number of copies needs: as long as the row names none, each that was
\* made is about to be noted or was lost; and an event is made once.
CopyInv ==
    /\ row.version = 0 => ~row.exists /\ made = 0 /\ AtRest
    /\ row.remote <= made /\ \A c \in Request : req[c].remote <= made
    /\ \A c \in Storing : req[c].remote # 0
    /\ row.exists /\ row.remote = 0 => made <= Cardinality(Storing) + faults + cut
    /\ made + Cardinality(Calling) <= Cardinality(Request) + faults + cut
    /\ faults + cut <= MaxFaults

\* A request that holds what it read, one that will read it again, one that
\* deletes the event.
Holds(c) == req[c].pc \in {"call", "stamp", "store", "error"}
Pending == \E c \in Request : req[c].pc \in {"commit", "read"}
Deleting == \E c \in Request : req[c].pc \in {"recall", "remove"}

\* What StaleCopyIsTold needs, as long as nothing blurs it and the event is not
\* being deleted: one request at most holds what it read, and that is what the row
\* says or will be read again.
StaleInv ==
    /\ \A c, d \in Request : Holds(c) /\ Holds(d) => c = d
    /\ \A c \in Request :
          /\ req[c].pc \in {"call", "stamp", "store"} => req[c].version = row.version \/ Pending
          /\ req[c].pc = "call" => req[c].remote = row.remote
          /\ req[c].pc \in {"stamp", "store"} => copy[req[c].remote] = req[c].version
    /\ (\A c \in Request : ~Holds(c))
          => Pending \/ row.error \/ row.remote = 0 \/ copy[row.remote] = row.version

IInv ==
    /\ TypeOK /\ CopyInv
    /\ row.exists /\ ~blurred /\ faults = 0 /\ ~Deleting => StaleInv

\* What the constants have to be.
Bounds == IsFiniteSet(Request) /\ MaxVersion \in Nat \ {0} /\ MaxFaults \in Nat

=============================================================================
