------------------------------ MODULE LeadAction ------------------------------
(***************************************************************************)
(* The AI reply to a lead (apps/api): AIAction rows of the workflow        *)
(* lead_response_v1. enqueue drafts one for a new lead, the recovery cron  *)
(* drafts those that were missed, and the owner executes, dismisses or     *)
(* snoozes a draft. Every request is a call that awaits the database       *)
(* between its steps, so the calls interleave.                             *)
(*                                                                         *)
(* A lead is an inquiry, which records that it was answered (respondedAt,  *)
(* never cleared by any writer), or a contact submission, which does not.  *)
(***************************************************************************)
EXTENDS Integers, FiniteSets

CONSTANTS
    Inquiry,    \* leads of sourceType "inquiry"
    Submission, \* leads of sourceType "contact_submission"
    Caller,     \* slots for requests
    Recovery,   \* the slot of POST /api/cron/lead-response-recovery
    Provider,   \* RESEND_API_KEY is set
    MaxDrafts,  \* bound: actions ever created for one lead
    MaxFaults   \* bound: crashes, database errors, failed drafts, lost answers

ASSUME LeadAssumption == Inquiry \cap Submission = {}

ASSUME RecoveryAssumption == Recovery \notin Caller

ASSUME ProviderAssumption == Provider \in BOOLEAN

ASSUME BoundAssumption == MaxDrafts \in Nat /\ MaxFaults \in Nat

Source == Inquiry \cup Submission

Call == Caller \cup {Recovery}

Id == Source \X (1..MaxDrafts)  \* the n-th action drafted for a lead

VARIABLES
    arrived,   \* the leads stored so far
    led,       \* the leads whose context names an agent
    responded, \* the inquiries with a respondedAt
    status,    \* status[a]: AIActionStatus, "NONE" before the row exists
    lease,     \* lease[a]: lockedUntil is in the future
    call,      \* call[c]: a running request
    mails,     \* history: how often the provider took action a's mail
    faults     \* faults so far

vars == <<arrived, led, responded, status, lease, call, mails, faults>>

-----------------------------------------------------------------------------

Status == {"NONE", "PENDING", "EXECUTING", "EXECUTED", "SENT", "DISMISSED",
           "SNOOZED", "FAILED", "EXPIRED"}

\* Mutant: an action whose execution is stuck may be executed again.
Executable_Stuck == {"PENDING", "FAILED", "EXECUTING"}

\* APPROVED is listed beside these in the source, but nothing sets it.
Executable == {"PENDING", "FAILED"}

Live == {"PENDING", "EXECUTING", "SNOOZED"}

Terminal == {"EXECUTED", "SENT", "DISMISSED", "EXPIRED"}

InHand == {"send", "crm", "failed", "final"}

OnAction == InHand \cup {"check", "expire", "acquire", "dismiss", "snooze"}

OnLead == {"enqueue", "draft"}

None == << >>

Request == [pc: {"idle", "filter", "each"} \cup OnLead \cup OnAction,
            lead: Source \cup {None}, act: Id \cup {None}, mail: BOOLEAN,
            todo: SUBSET Source, more: BOOLEAN]

Idle == [pc |-> "idle", lead |-> None, act |-> None, mail |-> FALSE,
         todo |-> {}, more |-> FALSE]

\* Where a request goes when its work on one lead is over: the cron to its
\* next lead, any other to its end.
Over(c) == IF c = Recovery THEN [call[c] EXCEPT !.pc = "each", !.lead = None] ELSE Idle

TypeOK ==
    /\ arrived \subseteq Source
    /\ led \subseteq Source
    /\ responded \subseteq Inquiry
    /\ status \in [Id -> Status]
    /\ lease \in [Id -> BOOLEAN]
    /\ call \in [Call -> Request]
    /\ \A c \in Call : call[c].pc \in OnAction => call[c].act \in Id
    /\ \A c \in Call : call[c].pc \in OnLead => call[c].lead \in Source
    /\ mails \in [Id -> Nat]
    /\ faults \in Nat
    /\ \A a \in Id : lease[a] => status[a] \notin Executable \cup {"NONE"}

Init ==
    /\ arrived = {}
    /\ led \in SUBSET Source
    /\ responded = {}
    /\ status = [a \in Id |-> "NONE"]
    /\ lease = [a \in Id |-> FALSE]
    /\ call = [c \in Call |-> Idle]
    /\ mails = [a \in Id |-> 0]
    /\ faults = 0

-----------------------------------------------------------------------------

\* A lead is stored and its request goes on to enqueue it. The submission's
\* own processing comes first and may fail, which Abort covers.
Arrive(c, s) ==
    /\ c \in Caller /\ call[c].pc = "idle" /\ s \notin arrived
    /\ arrived' = arrived \cup {s}
    /\ call' = [call EXCEPT ![c] = [Idle EXCEPT !.pc = "enqueue", !.lead = s]]
    /\ UNCHANGED <<led, responded, status, lease, mails, faults>>

Drafts(s) == {n \in 1..MaxDrafts : status[<<s, n>>] # "NONE"}

HasLive(s) == \E n \in 1..MaxDrafts : status[<<s, n>>] \in Live

\* A submission is linked to its contact, or the contact is deleted (onDelete: SetNull):
\* assembleContext finds an agent where it found none, or none any more.  An inquiry
\* keeps its account, whose owner nothing adds or removes.
Relate(s) ==
    /\ s \in Submission \cap arrived
    /\ led' = IF s \in led THEN led \ {s} ELSE led \cup {s}
    /\ UNCHANGED <<arrived, responded, status, lease, call, mails, faults>>

\* enqueue: a lead whose context names no agent is left alone, and so is one with a
\* live action.
Enqueue(c) ==
    /\ call[c].pc = "enqueue"
    /\ call' = [call EXCEPT ![c] =
                   IF call[c].lead \notin led \/ HasLive(call[c].lead) THEN Over(c)
                   ELSE [call[c] EXCEPT !.pc = "draft"]]
    /\ UNCHANGED <<arrived, led, responded, status, lease, mails, faults>>

\* The model has answered: persist, on the strength of the earlier look.
Persist(c, n) ==
    LET s == call[c].lead
    IN  /\ call[c].pc = "draft" /\ Drafts(s) = 1..(n - 1)
        /\ status' = [status EXCEPT ![<<s, n>>] = "PENDING"]
        /\ call' = [call EXCEPT ![c] = Over(c)]
        /\ UNCHANGED <<arrived, led, responded, lease, mails, faults>>

\* generateProposal or persist throws and enqueue swallows it. Beyond
\* MaxDrafts every draft ends so.
DraftFails(c) ==
    /\ call[c].pc = "draft"
    /\ \/ faults < MaxFaults /\ faults' = faults + 1
       \/ Drafts(call[c].lead) = 1..MaxDrafts /\ faults' = faults
    /\ call' = [call EXCEPT ![c] = Over(c)]
    /\ UNCHANGED <<arrived, led, responded, status, lease, mails>>

-----------------------------------------------------------------------------

\* The leads of one kind the cron goes through.
Scan(kind) == (kind \cap arrived) \ responded

\* The recovery cron: inquiries first.
Recover(c) ==
    /\ c = Recovery /\ call[c].pc = "idle"
    /\ call' = [call EXCEPT ![c] = [Idle EXCEPT !.pc = "filter", !.more = TRUE,
                                                !.todo = Scan(Inquiry)]]
    /\ UNCHANGED <<arrived, led, responded, status, lease, mails, faults>>

\* Mutant: the leads that have a live action are the ones kept.
Filter_Inverted(c) ==
    /\ call[c].pc = "filter"
    /\ call' = [call EXCEPT ![c].pc = "each",
                            ![c].todo = {s \in call[c].todo : HasLive(s)}]
    /\ UNCHANGED <<arrived, led, responded, status, lease, mails, faults>>

\* Leads with a live action are passed over.
Filter(c) ==
    /\ call[c].pc = "filter"
    /\ call' = [call EXCEPT ![c].pc = "each",
                            ![c].todo = {s \in call[c].todo : ~HasLive(s)}]
    /\ UNCHANGED <<arrived, led, responded, status, lease, mails, faults>>

\* The next lead of the loop; after the inquiries, the submissions.
EachLead(c) ==
    /\ call[c].pc = "each"
    /\ \/ \E s \in call[c].todo :
             call' = [call EXCEPT ![c].pc = "enqueue", ![c].lead = s,
                                  ![c].todo = call[c].todo \ {s}]
       \/ /\ call[c].todo = {} /\ call[c].more
          /\ call' = [call EXCEPT ![c] = [Idle EXCEPT !.pc = "filter",
                                                      !.todo = Scan(Submission)]]
       \/ /\ call[c].todo = {} /\ ~call[c].more
          /\ call' = [call EXCEPT ![c] = Idle]
    /\ UNCHANGED <<arrived, led, responded, status, lease, mails, faults>>

-----------------------------------------------------------------------------

\* executeLeadResponse revalidates the action; the owner chose whether to
\* send the mail.
Execute(c, a, mail) ==
    /\ c \in Caller /\ call[c].pc = "idle"
    /\ status[a] \in Executable /\ ~lease[a]
    /\ call' = [call EXCEPT ![c] = [Idle EXCEPT !.pc = "check", !.act = a, !.mail = mail]]
    /\ UNCHANGED <<arrived, led, responded, status, lease, mails, faults>>

\* checkAlreadyResponded.
CheckResponded(c) ==
    /\ call[c].pc = "check"
    /\ call' = [call EXCEPT ![c].pc = IF call[c].act[1] \in responded
                                      THEN "expire" ELSE "acquire"]
    /\ UNCHANGED <<arrived, led, responded, status, lease, mails, faults>>

\* The row is written whatever became of it since.
Expire(c) ==
    /\ call[c].pc = "expire"
    /\ status' = [status EXCEPT ![call[c].act] = "EXPIRED"]
    /\ call' = [call EXCEPT ![c] = Idle]
    /\ UNCHANGED <<arrived, led, responded, lease, mails, faults>>

\* Mutant: the lease is written without a second look at the row.
Acquire_Unchecked(c) ==
    /\ call[c].pc = "acquire"
    /\ status' = [status EXCEPT ![call[c].act] = "EXECUTING"]
    /\ lease' = [lease EXCEPT ![call[c].act] = TRUE]
    /\ call' = [call EXCEPT ![c].pc = IF call[c].mail THEN "send" ELSE "crm"]
    /\ UNCHANGED <<arrived, led, responded, mails, faults>>

\* The conditional update that takes the lease, or loses it to another call.
Acquire(c) ==
    LET a    == call[c].act
        free == status[a] \in Executable /\ ~lease[a]
    IN  /\ call[c].pc = "acquire"
        /\ status' = [status EXCEPT ![a] = IF free THEN "EXECUTING" ELSE status[a]]
        /\ lease' = [lease EXCEPT ![a] = free \/ lease[a]]
        /\ call' = [call EXCEPT ![c] =
                       IF free THEN [call[c] EXCEPT !.pc = IF call[c].mail THEN "send" ELSE "crm"]
                       ELSE Idle]
        /\ UNCHANGED <<arrived, led, responded, mails, faults>>

\* Ninety seconds pass, with the call still at work or not.
LeaseExpires(a) ==
    /\ lease[a]
    /\ lease' = [lease EXCEPT ![a] = FALSE]
    /\ UNCHANGED <<arrived, led, responded, status, call, mails, faults>>

\* The provider takes the mail; without one sendEmail skips it and returns.
Send(c) ==
    /\ call[c].pc = "send"
    /\ mails' = [mails EXCEPT ![call[c].act] =
                   IF Provider THEN mails[call[c].act] + 1 ELSE mails[call[c].act]]
    /\ call' = [call EXCEPT ![c].pc = "crm"]
    /\ UNCHANGED <<arrived, led, responded, status, lease, faults>>

\* Mutant: the error of the provider is logged and the execution goes on.
SendFails_Swallowed(c) ==
    /\ call[c].pc = "send"
    /\ call' = [call EXCEPT ![c].pc = "crm"]
    /\ UNCHANGED <<arrived, led, responded, status, lease, mails, faults>>

\* The provider refuses, the action has no address, or, a fault, the
\* provider took the mail and its answer was lost.
SendFails(c) ==
    /\ call[c].pc = "send"
    /\ \/ UNCHANGED <<mails, faults>>
       \/ /\ Provider /\ faults < MaxFaults /\ faults' = faults + 1
          /\ mails' = [mails EXCEPT ![call[c].act] = mails[call[c].act] + 1]
    /\ call' = [call EXCEPT ![c].pc = "failed"]
    /\ UNCHANGED <<arrived, led, responded, status, lease>>

-----------------------------------------------------------------------------

\* The CRM transaction commits. Of its writes, only markSourceResponded is
\* read again by the workflow.
Crm(c) ==
    /\ call[c].pc = "crm"
    /\ responded' = IF call[c].mail THEN responded \cup ({call[c].act[1]} \cap Inquiry)
                    ELSE responded
    /\ call' = [call EXCEPT ![c].pc = "final"]
    /\ UNCHANGED <<arrived, led, status, lease, mails, faults>>

\* Mutant: the transaction's error is swallowed.
CrmFails_Swallowed(c) ==
    /\ call[c].pc = "crm" /\ faults < MaxFaults
    /\ faults' = faults + 1
    /\ call' = [call EXCEPT ![c].pc = "final"]
    /\ UNCHANGED <<arrived, led, responded, status, lease, mails>>

\* It rolls back: the execution is partial.
CrmFails(c) ==
    /\ call[c].pc = "crm" /\ faults < MaxFaults
    /\ faults' = faults + 1
    /\ call' = [call EXCEPT ![c].pc = "failed"]
    /\ UNCHANGED <<arrived, led, responded, status, lease, mails>>

\* Mutant: the lease is not given back.
MarkFailed_KeepsLease(c) ==
    /\ call[c].pc = "failed"
    /\ status' = [status EXCEPT ![call[c].act] = "FAILED"]
    /\ call' = [call EXCEPT ![c] = Idle]
    /\ UNCHANGED <<arrived, led, responded, lease, mails, faults>>

\* markFailed, and the same update for a partial execution.
MarkFailed(c) ==
    /\ call[c].pc = "failed"
    /\ status' = [status EXCEPT ![call[c].act] = "FAILED"]
    /\ lease' = [lease EXCEPT ![call[c].act] = FALSE]
    /\ call' = [call EXCEPT ![c] = Idle]
    /\ UNCHANGED <<arrived, led, responded, mails, faults>>

\* Final: SENT or EXECUTED, unconditionally.
Finalize(c) ==
    /\ call[c].pc = "final"
    /\ status' = [status EXCEPT ![call[c].act] = IF call[c].mail THEN "SENT" ELSE "EXECUTED"]
    /\ lease' = [lease EXCEPT ![call[c].act] = FALSE]
    /\ call' = [call EXCEPT ![c] = Idle]
    /\ UNCHANGED <<arrived, led, responded, mails, faults>>

\* dismissAction and snoozeAction read the row, then write it.
Decide(c, a, pc) ==
    /\ c \in Caller /\ call[c].pc = "idle"
    /\ status[a] \notin Terminal \cup {"NONE"}
    /\ call' = [call EXCEPT ![c] = [Idle EXCEPT !.pc = pc, !.act = a]]
    /\ UNCHANGED <<arrived, led, responded, status, lease, mails, faults>>

Dismiss(c) ==
    /\ call[c].pc = "dismiss"
    /\ status' = [status EXCEPT ![call[c].act] = "DISMISSED"]
    /\ call' = [call EXCEPT ![c] = Idle]
    /\ UNCHANGED <<arrived, led, responded, lease, mails, faults>>

Snooze(c) ==
    /\ call[c].pc = "snooze"
    /\ status' = [status EXCEPT ![call[c].act] = "SNOOZED"]
    /\ call' = [call EXCEPT ![c] = Idle]
    /\ UNCHANGED <<arrived, led, responded, lease, mails, faults>>

\* The owner answers by another way: users.ts, agentInquiries.ts, ownerLeads.ts.
RespondByHand(i) ==
    /\ i \in (Inquiry \cap arrived) \ responded
    /\ responded' = responded \cup {i}
    /\ UNCHANGED <<arrived, led, status, lease, call, mails, faults>>

\* The process dies, or a database call throws: the request is gone and what
\* it had written stays.
Abort(c) ==
    /\ call[c].pc # "idle" /\ faults < MaxFaults
    /\ faults' = faults + 1
    /\ call' = [call EXCEPT ![c] = Idle]
    /\ UNCHANGED <<arrived, led, responded, status, lease, mails>>

-----------------------------------------------------------------------------

Drafting(c) ==
    \/ Enqueue(c) \/ DraftFails(c)
    \/ \E n \in 1..MaxDrafts : Persist(c, n)

Executing(c) ==
    \/ CheckResponded(c) \/ Expire(c) \/ Acquire(c)
    \/ Send(c) \/ SendFails(c) \/ Crm(c) \/ CrmFails(c)
    \/ MarkFailed(c) \/ Finalize(c)

\* What a running request does next.
Work(c) ==
    Drafting(c) \/ Filter(c) \/ EachLead(c) \/ Executing(c) \/ Dismiss(c) \/ Snooze(c)

Next ==
    \/ \E c \in Call : Work(c) \/ Abort(c) \/ Recover(c)
    \/ \E c \in Call, s \in Source : Arrive(c, s)
    \/ \E s \in Submission : Relate(s)
    \/ \E c \in Call, a \in Id, mail \in BOOLEAN : Execute(c, a, mail)
    \/ \E c \in Call, a \in Id, pc \in {"dismiss", "snooze"} : Decide(c, a, pc)
    \/ \E a \in Id : LeaseExpires(a)
    \/ \E i \in Inquiry : RespondByHand(i)

Spec == Init /\ [][Next]_vars

\* Awaited calls go on, and the cron is invoked again and again.
Fairness ==
    /\ \A c \in Call : WF_vars(Work(c))
    /\ WF_vars(Recover(Recovery))

FairSpec == Spec /\ Fairness

-----------------------------------------------------------------------------

\* The lease holds: no two requests are past the acquisition of the same
\* action, although the lease may lapse under a slow call, the owner may
\* dismiss or snooze the action meanwhile, and a check made before another
\* call's acquisition may write EXPIRED over it.
LeaseExclusive ==
    \A c, d \in Call :
        c # d /\ call[c].pc \in InHand /\ call[d].pc \in InHand
            => call[c].act # call[d].act

\* One action mails its lead a second time only after a fault: an answer
\* lost, or a CRM transaction that failed, made the sent action FAILED.
ResendNeedsFault == \A a \in Id : mails[a] <= 1 + faults

\* A SENT action did what it says: with a provider its mail was taken, and
\* an inquiry is recorded as answered.
SentIsDone ==
    \A a \in Id : status[a] = "SENT" =>
        /\ Provider => mails[a] > 0
        /\ a[1] \in Inquiry => a[1] \in responded

\* "Email failure: do not apply responded CRM changes": an execution marks
\* an inquiry answered only when some mail about it was taken.
RespondedIsMailed ==
    [][Provider /\ call' # call =>
         \A i \in responded' \ responded : \E n \in 1..MaxDrafts : mails[<<i, n>>] > 0]_vars

\* No lead that has an agent is forgotten: although enqueue swallows its errors and
\* crashes lose it, each one gets a draft or is answered by hand, as long as its
\* context names an agent.  One without is left alone by every run of the cron.  The
\* cron looks back 48 hours, taken to be longer than the faults last.
EveryLeadIsDrafted ==
    \A s \in Source : s \in arrived \cap led ~> (Drafts(s) # {} \/ s \in responded \/ s \notin led)

\* The inductive invariant.

\* The action a request works on exists, and while a request is past the
\* acquisition nobody else may acquire it.
HandInv ==
    \A c \in Call :
        /\ call[c].pc \in OnAction => status[call[c].act] # "NONE"
        /\ call[c].pc \in InHand => status[call[c].act] \notin Executable

\* An action that may be executed, or is about to mail or to fail, has mailed
\* no more often than there were faults.
MailInv ==
    /\ \A a \in Id : status[a] = "NONE" => mails[a] = 0
    /\ \A a \in Id : status[a] \in Executable => mails[a] <= faults
    /\ \A c \in Call : call[c].pc \in {"send", "failed"} => mails[call[c].act] <= faults

\* What a request has done before it writes SENT.
DoneInv ==
    \A c \in Call :
        LET a == call[c].act
        IN  /\ call[c].pc = "send" => call[c].mail
            /\ call[c].pc \in {"crm", "final"} /\ call[c].mail /\ Provider => mails[a] > 0
            /\ call[c].pc = "final" /\ call[c].mail /\ a[1] \in Inquiry => a[1] \in responded

IInv ==
    /\ TypeOK
    /\ HandInv
    /\ LeaseExclusive
    /\ MailInv
    /\ ResendNeedsFault
    /\ DoneInv
    /\ SentIsDone

\* What the comment on enqueue promises of a partial unique index: a lead
\* has at most one live action.
OneLiveAction ==
    \A s \in Source : Cardinality({n \in 1..MaxDrafts : status[<<s, n>>] \in Live}) <= 1

=============================================================================
