---------------------------- MODULE MCBackground ----------------------------
(***************************************************************************)
(* What the API must get done by itself, checked side by side: the lead    *)
(* response agent, whose module is extended, and instances of the others.  *)
(* They share no state, so one part is chosen at the start and moves;      *)
(* their state spaces add up instead of multiplying.                       *)
(***************************************************************************)
EXTENDS LeadAction

CONSTANTS
    Message, PerMessage, Run, SyncFaults,                     \* Sync
    Transaction, Profile, AtFirst, Scans, Cron, MaxItems, Take, Edits, \* Risk
    Membership, Day, RosterCheck, RosterChanges, AlertFaults, \* Access
    Contact, Property, Deal, Task, Action, Of, Asked, MaxMoves \* Chat

VARIABLE part

-----------------------------------------------------------------------------

VARIABLES alive, mail, known, people, run, sync, syncFaults

Sync == INSTANCE TransactionSync WITH MaxFaults <- SyncFaults, faults <- syncFaults

VARIABLES tx, live, rated, scan, beside, riskChanges

Risk == INSTANCE RiskScan WITH MaxChanges <- Edits, changes <- riskChanges

VARIABLES roster, access, linking, check, day, rosterChanges, alert, taken, sending, mailFaults

Access == INSTANCE MlsAccess WITH
    Run <- RosterCheck, MaxChanges <- RosterChanges, MaxFaults <- AlertFaults,
    run <- check, changes <- rosterChanges, row <- alert, call <- sending,
    faults <- mailFaults

VARIABLES mine, open, step, round, calls, answered, entities, chunks, seen, moves

Chat == INSTANCE AgentChat WITH Transaction <- Deal, Call <- Asked

ASSUME BackgroundAssumption == Sync!Bounds /\ Risk!Bounds /\ Access!Bounds /\ Chat!Bounds

\* A transaction nothing is wrong with.
Calm == [open |-> TRUE, closing |-> {20}, overdue |-> 0, contingencies |-> {},
         missing |-> 0, matched |-> 0]

\* What the configuration gives for Profile, AtFirst and Of: of three transactions,
\* two of them at risk at first, a scan reads two.
Lacking(date) == [Calm EXCEPT !.closing = {date}, !.missing = 1]
AnyOfFour == {Calm, [Calm EXCEPT !.open = FALSE], Lacking(-1), Lacking(10)}
TwoLacking == [t1 |-> Lacking(-1), t2 |-> Lacking(10), t3 |-> Calm]
PropertyOf == [t1 |-> "p1"]

-----------------------------------------------------------------------------

leadVars == vars
syncVars == <<alive, mail, known, people, run, sync, syncFaults>>
riskVars == <<tx, live, rated, scan, beside, riskChanges>>
accessVars == <<roster, access, linking, check, day, rosterChanges, alert, taken, sending,
                mailFaults>>
chatVars == <<mine, open, step, round, calls, answered, entities, chunks, seen, moves>>

allVars == <<part, leadVars, syncVars, riskVars, accessVars, chatVars>>

\* A part that does not move starts in one state, and the roster with nothing amiss;
\* the lead has an agent or has none.
AllInit ==
    /\ part \in {"lead", "sync", "risk", "access", "chat"}
    /\ Init /\ Sync!Init /\ Risk!Init /\ Access!Init /\ Chat!Init
    /\ led = Source \/ (part = "lead" /\ led = {})
    /\ \A t \in DOMAIN tx : tx[t] = IF part = "risk" THEN AtFirst[t] ELSE Calm
    /\ \A m \in DOMAIN roster : roster[m] = "active"
    /\ part = "chat" \/ mine = {}

\* Part p moves, the others stand still.
Only(p) ==
    /\ part = p /\ UNCHANGED part
    /\ IF p = "lead" THEN TRUE ELSE UNCHANGED leadVars
    /\ IF p = "sync" THEN TRUE ELSE UNCHANGED syncVars
    /\ IF p = "risk" THEN TRUE ELSE UNCHANGED riskVars
    /\ IF p = "access" THEN TRUE ELSE UNCHANGED accessVars
    /\ IF p = "chat" THEN TRUE ELSE UNCHANGED chatVars

\* Bound: one lead in a behaviour, an inquiry or a submission; its relation to an
\* agent changes before anybody drafts for it, as nothing reads it after.
OneLead ==
    /\ Cardinality(arrived') <= 1
    /\ led' # led => /\ \A a \in Id : status[a] = "NONE"
                     /\ \A c \in Call : call[c].pc # "draft"

AllNext ==
    \/ Only("lead") /\ Next /\ OneLead
    \/ Only("sync") /\ Sync!Next
    \/ Only("risk") /\ Risk!Next
    \/ Only("access") /\ Access!Next
    \/ Only("chat") /\ Chat!Next

\* The fairness each module accounts for.
AllFairness ==
    /\ \A c \in Call : WF_leadVars(part = "lead" /\ Work(c))
    /\ WF_leadVars(part = "lead" /\ Recover(Recovery))
    /\ \A r \in Run : WF_syncVars(part = "sync" /\ Sync!Work(r))
    /\ \A s \in Scans : WF_riskVars(part = "risk" /\ Risk!Work(s))
    /\ WF_riskVars(part = "risk" /\ Risk!Fetch(Cron))
    /\ \A r \in RosterCheck : WF_accessVars(part = "access" /\ Access!Work(r))
    /\ WF_chatVars(part = "chat" /\ Chat!Work)

AllSpec == AllInit /\ [][AllNext]_allVars /\ AllFairness

-----------------------------------------------------------------------------

\* The states of all parts have their types.
AllTypesOK == TypeOK /\ Sync!TypeOK /\ Risk!TypeOK /\ Access!TypeOK /\ Chat!TypeOK

\* Sync runs that overlap add a participant once for each of them at most.  A
\* transaction has two live risk actions only where scans ran beside each other, and no
\* more than scans run at a time; the header of transactionRiskService promises one, and
\* no unique index of any migration enforces it.
WorkIsBounded == Sync!ParticipantsBounded /\ Risk!RiskActionsBounded

\* Whenever the model is asked again it gets a result for each of its function calls,
\* and every card is of something that was the agent's own when a tool read it
\* (aiChatService); a call of another kind gets none.
CallsAreAnswered == Chat!CallsAreAnswered

\* No sync run brings a dismissed message back (transactionSyncService).
DismissedStays == Sync!DismissedStays

\* What was begun comes to an end: a sync run whose mails fail, a risk of a transaction
\* that a scan reads, which are the first by closing date, and that waits for a scan
\* with room for its action, a chat whose model calls tools again and again.
EveryJobEnds == Sync!EveryRunSettles /\ Risk!EveryRiskQueued /\ Chat!EveryChatEnds

\* Once roster and membership rest, the flag of an account says what the roster says.
FlagSettles == Access!FlagSettles

=============================================================================
