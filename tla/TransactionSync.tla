--------------------------- MODULE TransactionSync ---------------------------
(***************************************************************************)
(* The sync runs of one transaction (apps/api): they search the agent's    *)
(* mailbox, classify each mail and store it with its attachments and       *)
(* participants for the agent's review.  Nobody awaits a run: the client   *)
(* polls its row.  A mail stands for one participant of it.                *)
(***************************************************************************)
EXTENDS Naturals, FiniteSets

CONSTANTS
    Message,     \* mails of the mailbox
    PerMessage,  \* attachments of a mail
    Run,         \* slots for sync runs, one row and its process each
    MaxFaults    \* bound: crashes and failed writes of a run's own row

Attachment == Message \X (1..PerMessage)

VARIABLES
    alive,   \* the Transaction row exists
    mail,    \* mail[m]: status of the TransactionDiscoveredMessage of m
    known,   \* the TransactionDiscoveredAttachment rows
    people,  \* people[m]: TransactionDiscoveredContact rows of m
    run,     \* run[r]: status of the TransactionSyncRun of slot r
    sync,    \* sync[r]: the process of that run
    faults   \* faults so far

rowVars == <<alive, mail, known, people, run>>
vars == <<alive, mail, known, people, run, sync, faults>>

-----------------------------------------------------------------------------

NoMail == "no mail"

Asleep == [pc |-> "idle", on |-> NoMail, todo |-> {}]

OnMail == {"classify", "attach", "people", "person"}

Process == [pc: {"idle", "search", "next", "fail"} \cup OnMail,
            on: Message \cup {NoMail}, todo: SUBSET Message]

TypeOK ==
    /\ alive \in BOOLEAN
    /\ mail \in [Message -> {"NONE", "PENDING", "CONFIRMED", "DISMISSED"}]
    /\ known \subseteq Attachment
    /\ people \in [Message -> Nat]
    /\ run \in [Run -> {"NONE", "RUNNING", "COMPLETED", "FAILED"}]
    /\ sync \in [Run -> Process]
    /\ \A r \in Run : sync[r].pc \in OnMail => sync[r].on \in Message
    /\ faults \in Nat

Init ==
    /\ alive = TRUE
    /\ mail = [m \in Message |-> "NONE"]
    /\ known = {}
    /\ people = [m \in Message |-> 0]
    /\ run = [r \in Run |-> "NONE"]
    /\ sync = [r \in Run |-> Asleep]
    /\ faults = 0

-----------------------------------------------------------------------------

Step(r, pc) == sync' = [sync EXCEPT ![r].pc = pc]

At(r, pc, m) == sync[r].pc = pc /\ sync[r].on = m

\* The run turns to its next mail.
Onward(r) == sync' = [sync EXCEPT ![r].pc = "next", ![r].on = NoMail]

\* runTransactionSync: the row, and the processing that nobody awaits.
StartSync(r) ==
    /\ alive /\ sync[r].pc = "idle"
    /\ run' = [run EXCEPT ![r] = "RUNNING"]
    /\ Step(r, "search")
    /\ UNCHANGED <<alive, mail, known, people, faults>>

\* The mails the query finds now, or a refusal.
Search(r) ==
    /\ sync[r].pc = "search"
    /\ \/ \E found \in SUBSET Message :
             sync' = [sync EXCEPT ![r] = [pc |-> "next", on |-> NoMail, todo |-> found]]
       \/ Step(r, "fail")
    /\ UNCHANGED <<rowVars, faults>>

\* processOneMessage: mails that were dismissed are passed over.
TakeMail(r, m) ==
    /\ sync[r].pc = "next" /\ m \in sync[r].todo
    /\ LET rest == sync[r].todo \ {m}
       IN  sync' = [sync EXCEPT ![r] =
                      IF mail[m] = "DISMISSED" THEN [@ EXCEPT !.todo = rest]
                      ELSE [pc |-> "classify", on |-> m, todo |-> rest]]
    /\ UNCHANGED <<rowVars, faults>>

\* Mutant: the update of the upsert starts the review again.
StoreMail_Resets(r, m) ==
    /\ At(r, "classify", m) /\ alive
    /\ mail' = [mail EXCEPT ![m] = "PENDING"]
    /\ Step(r, "attach")
    /\ UNCHANGED <<alive, known, people, run, faults>>

\* Fetched and classified; the upsert leaves the status of a known mail alone.
StoreMail(r, m) ==
    /\ At(r, "classify", m) /\ alive
    /\ mail' = [mail EXCEPT ![m] = IF mail[m] = "NONE" THEN "PENDING" ELSE mail[m]]
    /\ Step(r, "attach")
    /\ UNCHANGED <<alive, known, people, run, faults>>

\* One attachment is upserted, or, when all are known, the participants follow.
StoreAttachment(r, m) ==
    /\ At(r, "attach", m) /\ alive
    /\ \/ \E i \in 1..PerMessage :
             /\ <<m, i>> \notin known
             /\ known' = known \cup {<<m, i>>}
             /\ UNCHANGED sync
       \/ /\ {m} \X (1..PerMessage) \subseteq known
          /\ Step(r, "people")
          /\ UNCHANGED known
    /\ UNCHANGED <<alive, mail, people, run, faults>>

FindPerson(r, m) ==
    /\ At(r, "people", m)
    /\ IF people[m] > 0 THEN Onward(r) ELSE Step(r, "person")
    /\ UNCHANGED <<rowVars, faults>>

AddPerson(r, m) ==
    /\ At(r, "person", m) /\ alive
    /\ people' = [people EXCEPT ![m] = people[m] + 1]
    /\ Onward(r)
    /\ UNCHANGED <<alive, mail, known, run, faults>>

\* Gmail, the classifier or the database fails for one mail; the loop goes on.
MailFails(r, m) ==
    /\ sync[r].pc \in OnMail /\ sync[r].on = m
    /\ Onward(r)
    /\ UNCHANGED <<rowVars, faults>>

Complete(r) ==
    /\ sync[r].pc = "next" /\ sync[r].todo = {}
    /\ run' = [run EXCEPT ![r] = IF alive THEN "COMPLETED" ELSE run[r]]
    /\ sync' = [sync EXCEPT ![r] = Asleep]
    /\ UNCHANGED <<alive, mail, known, people, faults>>

\* The handler of a rejected run.
RecordFailure(r) ==
    /\ sync[r].pc = "fail"
    /\ run' = [run EXCEPT ![r] = IF alive THEN "FAILED" ELSE run[r]]
    /\ sync' = [sync EXCEPT ![r] = Asleep]
    /\ UNCHANGED <<alive, mail, known, people, faults>>

\* A write of the run's own row fails: the first is handled, the second is
\* swallowed and the row stays RUNNING.
RunWriteFails(r) ==
    /\ faults < MaxFaults
    /\ faults' = faults + 1
    /\ \/ sync[r].pc = "next" /\ sync[r].todo = {} /\ Step(r, "fail")
       \/ sync[r].pc = "fail" /\ sync' = [sync EXCEPT ![r] = Asleep]
    /\ UNCHANGED <<rowVars>>

\* confirmDiscoveredMessage and dismissDiscoveredMessage.
Confirm(m) ==
    /\ mail[m] # "NONE"
    /\ mail' = [mail EXCEPT ![m] = "CONFIRMED"]
    /\ UNCHANGED <<alive, known, people, run, sync, faults>>

Dismiss(m) ==
    /\ mail[m] # "NONE"
    /\ mail' = [mail EXCEPT ![m] = "DISMISSED"]
    /\ UNCHANGED <<alive, known, people, run, sync, faults>>

\* deleteTransaction takes every row of it along.
DeleteTransaction ==
    /\ alive
    /\ alive' = FALSE
    /\ mail' = [m \in Message |-> "NONE"]
    /\ known' = {}
    /\ people' = [m \in Message |-> 0]
    /\ run' = [r \in Run |-> "NONE"]
    /\ UNCHANGED <<sync, faults>>

\* The process ends with the runs in it.
Crash ==
    /\ faults < MaxFaults
    /\ faults' = faults + 1
    /\ sync' = [r \in Run |-> Asleep]
    /\ UNCHANGED rowVars

-----------------------------------------------------------------------------

WorkMail(r, m) ==
    \/ TakeMail(r, m) \/ StoreMail(r, m) \/ StoreAttachment(r, m)
    \/ FindPerson(r, m) \/ AddPerson(r, m) \/ MailFails(r, m)

\* What the process of a run does next.
Work(r) ==
    \/ Search(r) \/ Complete(r) \/ RecordFailure(r)
    \/ \E m \in Message : WorkMail(r, m)

Next ==
    \/ \E r \in Run : StartSync(r) \/ Work(r) \/ RunWriteFails(r)
    \/ \E m \in Message : Confirm(m) \/ Dismiss(m)
    \/ DeleteTransaction \/ Crash

Spec == Init /\ [][Next]_vars

\* The promises of a started run settle: Gmail and the classifier answer or
\* fail. The agent owes nothing.
Fairness == \A r \in Run : WF_vars(Work(r))

FairSpec == Spec /\ Fairness

-----------------------------------------------------------------------------

\* "DISMISSED messages are permanent": no sync run brings one back, not even
\* one that looked at the message before it was dismissed.
DismissedStays ==
    [][\A m \in Message :
         mail[m] = "DISMISSED" /\ sync' # sync => mail'[m] = "DISMISSED"]_vars

\* Repeated and overlapping runs add a participant of a mail once, but for
\* runs that look at the same time.
ParticipantsBounded == \A m \in Message : people[m] <= Cardinality(Run)

\* A client that polls a run sees it end: without a crash or a failing
\* database the errors of Gmail and of the classifier are all absorbed.
EveryRunSettles ==
    \A r \in Run : run[r] = "RUNNING" ~> (run[r] # "RUNNING" \/ faults > 0)

-----------------------------------------------------------------------------

\* The runs that are about to add the participant of m.
Adding(m) == {r \in Run : At(r, "person", m)}

\* The inductive invariant: each run adds a participant it did not find, once.
IInv == TypeOK /\ \A m \in Message : people[m] + Cardinality(Adding(m)) <= Cardinality(Run)

\* What the constants have to be.
Bounds == IsFiniteSet(Run)

=============================================================================
