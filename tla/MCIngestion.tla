----------------------------- MODULE MCIngestion ----------------------------
(***************************************************************************)
(* What ingestion owes when all its failures have passed, checked side by  *)
(* side: the synchronisation of one resource, and the documents of the     *)
(* properties, which a fair handler and the requests of the API rebuild.   *)
(* One part is chosen at the start and moves; the state spaces of the two  *)
(* add up instead of multiplying.                                          *)
(***************************************************************************)
EXTENDS Integers

VARIABLE part

VARIABLES log, cur, clock, db, dl, cursor, running, run, seen, faults

Mls == INSTANCE MlsSync WITH
    Key <- {"k1", "k2"}, Runs <- {1}, PageSize <- 2, Concurrency <- 1,
    MaxRetries <- 2, DeadLetterBatch <- 2, Overlap <- 1, AllowFull <- TRUE,
    MaxChanges <- 2, MaxClock <- 2, MaxFaults <- 1

VARIABLES changed, feed, owed, row, doc, hand, queue, api, indexFaults

Index == INSTANCE PropertyIndex WITH
    MaxListing <- 2, Property <- {"p1", "p2"}, Handler <- {"w1"}, Moves <- TRUE,
    MaxChanges <- 2, MaxFaults <- 1,
    log <- changed, faults <- indexFaults

-----------------------------------------------------------------------------

mlsVars == <<log, cur, clock, db, dl, cursor, running, run, seen, faults>>
indexVars == <<changed, feed, owed, row, doc, hand, queue, api, indexFaults>>

Init == part \in {"mls", "index"} /\ Mls!Init /\ Index!Init

Next ==
    /\ UNCHANGED part
    /\ \/ part = "mls" /\ Mls!Next /\ UNCHANGED indexVars
       \/ part = "index" /\ Index!Next /\ UNCHANGED mlsVars

\* The fairness of MlsSync, of its one run, and that of PropertyIndex.
Fairness ==
    /\ WF_mlsVars(part = "mls" /\ \E full \in BOOLEAN : Mls!Start(1, full))
    /\ WF_mlsVars(part = "mls" /\ Mls!Work(1))
    /\ WF_indexVars(part = "index" /\ Index!ApiWork)
    /\ WF_indexVars(part = "index" /\ Index!Work("w1"))

Spec == Init /\ [][Next]_<<part, mlsVars, indexVars>> /\ Fairness

-----------------------------------------------------------------------------

\* Every change a pull can see is at last applied or dead-lettered (runSync).
EventuallyHandled == Mls!EventuallyHandled

\* Every dead letter is at last replayed or abandoned (retryDeadLetters).
DeadLettersDrain == Mls!DeadLettersDrain

\* A reindex beside a quiet worker makes the collection exact (reindexProperties).
ReindexRepairs == Index!ReindexRepairs

=============================================================================
