--------------------------- MODULE LifecycleMail ---------------------------
(***************************************************************************)
(* sendAccountLifecycleEmail (services/lifecycleEmailService.ts): a mail   *)
(* of one kind goes to an account once.  The row of EmailDelivery, unique  *)
(* in account and kind, is made before the mail is sent and deleted again  *)
(* when the provider does not take it.                                     *)
(***************************************************************************)
EXTENDS Integers

CONSTANTS
    Kind,           \* the kinds of mail for one account
    Caller,         \* calls that may be running at a time
    MaxFaults       \* bound on lost answers, failed deletes and stops

VARIABLES
    row,            \* row[k]: "none", "made" or, with the provider's id, "sent"
    taken,          \* taken[k]: mails of the kind that the provider took
    call,           \* call[c]: the step of call c and its kind
    faults

mailVars == <<row, taken, call, faults>>

\* The kind of an idle call means nothing.
NoCall == [step |-> "idle", kind |-> CHOOSE k \in Kind : TRUE]

MailInit ==
    /\ row = [k \in Kind |-> "none"]
    /\ taken = [k \in Kind |-> 0]
    /\ call = [c \in Caller |-> NoCall]
    /\ faults = 0

Step(c, from, to) == call[c].step = from /\ call' = [call EXCEPT ![c].step = to]

\* Some handler asks for a mail.
Ask(c, k) ==
    /\ call[c].step = "idle"
    /\ call' = [call EXCEPT ![c] = [step |-> "create", kind |-> k]]
    /\ UNCHANGED <<row, taken, faults>>

\* Mutant: a row that exists stops nobody.
MakeRow_Again(c) ==
    /\ Step(c, "create", "send")
    /\ row' = [row EXCEPT ![call[c].kind] = "made"]
    /\ UNCHANGED <<taken, faults>>

\* The row is made, or there is one (P2002) and the mail is skipped.
MakeRow(c) ==
    /\ \/ /\ row[call[c].kind] = "none"
          /\ Step(c, "create", "send")
          /\ row' = [row EXCEPT ![call[c].kind] = "made"]
       \/ /\ row[call[c].kind] # "none"
          /\ Step(c, "create", "idle")
          /\ UNCHANGED row
    /\ UNCHANGED <<taken, faults>>

\* The provider takes the mail.
Send(c) ==
    /\ Step(c, "send", "record")
    /\ taken' = [taken EXCEPT ![call[c].kind] = @ + 1]
    /\ UNCHANGED <<row, faults>>

\* It refuses it, or is not configured.
Refuse(c) ==
    /\ Step(c, "send", "cleanup")
    /\ UNCHANGED <<row, taken, faults>>

\* It takes it and the answer is lost.
LoseAnswer(c) ==
    /\ faults < MaxFaults
    /\ Step(c, "send", "cleanup")
    /\ taken' = [taken EXCEPT ![call[c].kind] = @ + 1]
    /\ faults' = faults + 1
    /\ UNCHANGED row

\* cleanupDelivery: the kind may be sent again.
Cleanup(c) ==
    /\ Step(c, "cleanup", "idle")
    /\ row' = [row EXCEPT ![call[c].kind] = "none"]
    /\ UNCHANGED <<taken, faults>>

\* The provider's id is kept.
Record(c) ==
    /\ Step(c, "record", "idle")
    /\ row' = [row EXCEPT ![call[c].kind] = "sent"]
    /\ UNCHANGED <<taken, faults>>

\* The process stops, or the database fails; a failed delete is only logged.
Stop(c) ==
    /\ call[c].step # "idle" /\ faults < MaxFaults
    /\ call' = [call EXCEPT ![c].step = "idle"]
    /\ faults' = faults + 1
    /\ UNCHANGED <<row, taken>>

Work(c) == MakeRow(c) \/ Send(c) \/ Refuse(c) \/ Cleanup(c) \/ Record(c)

MailNext == \E c \in Caller : Work(c) \/ LoseAnswer(c) \/ Stop(c)

\* The mails by themselves, whoever asks for them.
Next == MailNext \/ \E c \in Caller, k \in Kind : Ask(c, k)

MailSpec == MailInit /\ [][Next]_mailVars

-----------------------------------------------------------------------------

MailTypeOK ==
    /\ row \in [Kind -> {"none", "made", "sent"}]
    /\ taken \in [Kind -> 0..MaxFaults + 1]
    /\ call \in [Caller -> [step : {"idle", "create", "send", "record", "cleanup"}, kind : Kind]]
    /\ faults \in 0..MaxFaults

\* However many handlers ask for it, a mail is repeated only after a fault.
OneMailPerKind == \A k \in Kind : taken[k] <= 1 + faults

AtWork(k) == \E c \in Caller : call[c].step \notin {"idle", "create"} /\ call[c].kind = k

\* Without a fault, a row that no call is working on stands for a mail that was
\* taken: a refused mail never blocks the next attempt.
RowMeansMail ==
    \A k \in Kind : row[k] # "none" /\ ~AtWork(k) => taken[k] > 0 \/ faults > 0

-----------------------------------------------------------------------------

Steps == {"idle", "create", "send", "record", "cleanup"}

Typed ==
    /\ row \in [Kind -> {"none", "made", "sent"}]
    /\ taken \in [Kind -> Nat]
    /\ call \in [Caller -> [step : Steps, kind : Kind]]
    /\ faults \in 0..MaxFaults

Works(c, k) == call[c].step \notin {"idle", "create"} /\ call[c].kind = k

\* One call works on a mail of a kind, and holds the row of it.
Alone ==
    /\ \A c, d \in Caller, k \in Kind : Works(c, k) /\ Works(d, k) => c = d
    /\ \A c \in Caller, k \in Kind : Works(c, k) => row[k] = "made"

\* Whoever may still send has only the faults behind it.
Counted ==
    /\ \A k \in Kind : taken[k] <= 1 + faults
    /\ \A k \in Kind : row[k] = "none" => taken[k] <= faults
    /\ \A c \in Caller, k \in Kind : Works(c, k) /\ call[c].step # "record" => taken[k] <= faults

\* A call that records has sent, and a row left alone stands for a mail or a fault.
Stands ==
    /\ \A c \in Caller : call[c].step = "record" => taken[call[c].kind] > 0
    /\ RowMeansMail

\* The inductive invariant.
IInv == Typed /\ Alone /\ Counted /\ Stands

\* What the constants have to be.
Bounds == MaxFaults \in Nat /\ Kind # {}

=============================================================================
