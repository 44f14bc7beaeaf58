--------------------------- MODULE InquiryDelivery ---------------------------
(***************************************************************************)
(* The outbox of inquiry alerts (apps/api): the InquiryDelivery rows that  *)
(* createInquiry writes in its transaction, and the dispatchers that send  *)
(* them: the scheduler inside the API process and the calls of             *)
(* POST /api/cron/inquiry-deliveries, each with its own `now`.             *)
(*                                                                         *)
(* Instants are kept relative to the present, so time runs on without      *)
(* bound: due is nextAttemptAt minus the present, held the present minus   *)
(* lockedAt, age the present minus a dispatcher's `now`.                   *)
(***************************************************************************)
EXTENDS Integers, Sequences, FiniteSets

CONSTANTS
    Dispatcher,  \* slots for calls of dispatchInquiryDeliveries
    Scheduler,   \* the slot of startInquiryDeliveryScheduler
    MaxRows,     \* bound: rows ever queued
    MaxAttempts, \* maxAttempts
    RetryDelays, \* RETRY_DELAYS_MS, in ticks
    StaleLock,   \* the 15 minutes after which a lock may be taken over
    Limit,       \* take
    MaxAge,      \* bound: the longest a call lasts, in ticks
    MaxFaults    \* bound: crashes, database errors and lost answers

ASSUME DispatcherAssumption == Scheduler \in Dispatcher

ASSUME TimingAssumption ==
    /\ StaleLock \in Nat \ {0}
    /\ MaxAge \in Nat
    /\ RetryDelays \in Seq(Nat) /\ RetryDelays # << >>

ASSUME LimitAssumption ==
    /\ MaxRows \in Nat
    /\ MaxAttempts \in Nat \ {0}
    /\ Limit \in Nat \ {0}
    /\ MaxFaults \in Nat

Id == 1..MaxRows  \* in the order of createdAt

VARIABLES
    state,    \* state[i]: InquiryDeliveryState, "NONE" before the row exists
    attempts, \* attempts[i]
    due,      \* due[i]: ticks until nextAttemptAt
    held,     \* held[i]: ticks since lockedAt
    call,     \* call[d]: a running dispatchInquiryDeliveries
    mails,    \* history: how often the provider took delivery i
    faults    \* faults so far

rowVars == <<state, attempts, due, held>>
vars == <<state, attempts, due, held, call, mails, faults>>

-----------------------------------------------------------------------------

State == {"NONE", "PENDING", "PROCESSING", "RETRY", "DELIVERED", "DEAD_LETTER"}

Waiting == {"PENDING", "RETRY"}

Final == {"DELIVERED", "DEAD_LETTER"}

InHand == {"claimed", "sending", "accepted", "failed"}

Idle == [pc |-> "idle", age |-> 0, todo |-> {}, item |-> 0, read |-> 0]

Call == [pc: {"idle", "loop"} \cup InHand, age: 0..MaxAge, todo: SUBSET Id,
         item: 0..MaxRows, read: Nat]

TypeOK ==
    /\ state \in [Id -> State]
    /\ attempts \in [Id -> Nat]
    /\ due \in [Id -> Int]
    /\ held \in [Id -> 0..MaxAge + StaleLock]
    /\ call \in [Dispatcher -> Call]
    /\ \A d \in Dispatcher : call[d].pc \in InHand => call[d].item \in Id
    /\ mails \in [Id -> Nat]
    /\ faults \in Nat

Init ==
    /\ state = [i \in Id |-> "NONE"]
    /\ attempts = [i \in Id |-> 0]
    /\ due = [i \in Id |-> 0]
    /\ held = [i \in Id |-> 0]
    /\ call = [d \in Dispatcher |-> Idle]
    /\ mails = [i \in Id |-> 0]
    /\ faults = 0

-----------------------------------------------------------------------------

\* createInquiry: the alert is queued in the transaction of the inquiry.
Enqueue(i) ==
    /\ state[i] = "NONE"
    /\ \A j \in Id : j < i => state[j] # "NONE"
    /\ state' = [state EXCEPT ![i] = "PENDING"]
    /\ UNCHANGED <<attempts, due, held, call, mails, faults>>

\* A tick of time. Only the instants the code still reads are followed, and
\* none further than the comparisons of the longest call can tell apart.
Tick ==
    /\ \A d \in Dispatcher : call[d].pc # "idle" => call[d].age < MaxAge
    /\ due' = [i \in Id |-> IF state[i] \in Waiting /\ due[i] > -MaxAge
                            THEN due[i] - 1 ELSE due[i]]
    /\ held' = [i \in Id |-> IF state[i] = "PROCESSING" /\ held[i] < MaxAge + StaleLock
                             THEN held[i] + 1 ELSE held[i]]
    /\ call' = [d \in Dispatcher |-> IF call[d].pc = "idle" THEN call[d]
                                     ELSE [call[d] EXCEPT !.age = call[d].age + 1]]
    /\ UNCHANGED <<state, attempts, mails, faults>>

\* Mutant: a row left PROCESSING is never taken over.
Claimable_NoTakeover(i, age) == state[i] \in Waiting /\ due[i] <= -age

\* The where clause of the claim, for a call whose `now` is age ticks ago.
Claimable(i, age) ==
    \/ state[i] \in Waiting /\ due[i] <= -age
    \/ state[i] = "PROCESSING" /\ held[i] >= age + StaleLock

\* The scheduler's `running` flag is that its slot is not idle. A call that
\* finds no candidate changes nothing.
Begin(d) ==
    LET D == {i \in Id : Claimable(i, 0)}
        C == {i \in D : Cardinality({j \in D : j < i}) < Limit}
    IN  /\ call[d].pc = "idle"
        /\ C # {}
        /\ call' = [call EXCEPT ![d] = [Idle EXCEPT !.pc = "loop", !.todo = C]]
        /\ UNCHANGED <<rowVars, mails, faults>>

\* The candidate the loop comes to next.
IsNext(d, i) ==
    /\ call[d].pc = "loop"
    /\ i \in call[d].todo
    /\ \A j \in call[d].todo : i <= j

\* Mutant: the claimed candidate is not remembered.
Claim_Forgets(d, i) ==
    /\ IsNext(d, i)
    /\ Claimable(i, call[d].age)
    /\ state' = [state EXCEPT ![i] = "PROCESSING"]
    /\ held' = [held EXCEPT ![i] = call[d].age]
    /\ call' = [call EXCEPT ![d] = [@ EXCEPT !.pc = "claimed", !.todo = call[d].todo \ {i}]]
    /\ UNCHANGED <<attempts, due, mails, faults>>

\* updateMany claims the next candidate, stamped with the call's `now`.
Claim(d, i) ==
    /\ IsNext(d, i)
    /\ Claimable(i, call[d].age)
    /\ state' = [state EXCEPT ![i] = "PROCESSING"]
    /\ held' = [held EXCEPT ![i] = call[d].age]
    /\ call' = [call EXCEPT ![d] = [@ EXCEPT !.pc = "claimed", !.item = i,
                                             !.todo = call[d].todo \ {i}]]
    /\ UNCHANGED <<attempts, due, mails, faults>>

\* Mutant: the count updateMany returns is not looked at.
Skip_Uncounted(d, i) ==
    /\ IsNext(d, i)
    /\ ~Claimable(i, call[d].age)
    /\ call' = [call EXCEPT ![d] = [@ EXCEPT !.pc = "claimed", !.item = i,
                                             !.todo = call[d].todo \ {i}]]
    /\ UNCHANGED <<rowVars, mails, faults>>

\* The claim matched no row: another call won.
Skip(d, i) ==
    /\ IsNext(d, i)
    /\ ~Claimable(i, call[d].age)
    /\ call' = [call EXCEPT ![d] = [@ EXCEPT !.todo = call[d].todo \ {i}]]
    /\ UNCHANGED <<rowVars, mails, faults>>

\* findUniqueOrThrow, in a transaction of its own.
Read(d) ==
    /\ call[d].pc = "claimed"
    /\ call' = [call EXCEPT ![d] = [@ EXCEPT !.pc = "sending",
                                             !.read = attempts[call[d].item]]]
    /\ UNCHANGED <<rowVars, mails, faults>>

\* Mutant: an answer without `ok` is taken for a failure.
Accept_NeedsOk(d) ==
    /\ call[d].pc = "sending"
    /\ mails' = [mails EXCEPT ![call[d].item] = @ + 1]
    /\ \E ok \in BOOLEAN :
          call' = [call EXCEPT ![d] = [@ EXCEPT !.pc = IF ok THEN "accepted" ELSE "failed"]]
    /\ UNCHANGED <<rowVars, faults>>

\* The provider takes the mail, and says so.
Accept(d) ==
    /\ call[d].pc = "sending"
    /\ mails' = [mails EXCEPT ![call[d].item] = @ + 1]
    /\ call' = [call EXCEPT ![d] = [@ EXCEPT !.pc = "accepted"]]
    /\ UNCHANGED <<rowVars, faults>>

\* The provider refuses it, is down, or is not configured.
Refuse(d) ==
    /\ call[d].pc = "sending"
    /\ call' = [call EXCEPT ![d] = [@ EXCEPT !.pc = "failed"]]
    /\ UNCHANGED <<rowVars, mails, faults>>

\* The provider takes it and the answer is lost.
AnswerLost(d) ==
    /\ faults < MaxFaults
    /\ call[d].pc = "sending"
    /\ mails' = [mails EXCEPT ![call[d].item] = @ + 1]
    /\ call' = [call EXCEPT ![d] = [@ EXCEPT !.pc = "failed"]]
    /\ faults' = faults + 1
    /\ UNCHANGED rowVars

Delivered(d) ==
    LET i == call[d].item IN
    /\ call[d].pc = "accepted"
    /\ state' = [state EXCEPT ![i] = "DELIVERED"]
    /\ attempts' = [attempts EXCEPT ![i] = @ + 1]
    /\ held' = [held EXCEPT ![i] = 0]
    /\ call' = [call EXCEPT ![d] = [@ EXCEPT !.pc = "loop", !.item = 0, !.read = 0]]
    /\ UNCHANGED <<due, mails, faults>>

\* The update of a sent delivery throws inside the try: it counts as a failure.
UpdateError(d) ==
    /\ faults < MaxFaults
    /\ call[d].pc = "accepted"
    /\ call' = [call EXCEPT ![d] = [@ EXCEPT !.pc = "failed"]]
    /\ faults' = faults + 1
    /\ UNCHANGED <<rowVars, mails>>

Delay(n) == RetryDelays[IF n < Len(RetryDelays) THEN n ELSE Len(RetryDelays)]

\* Mutant: one attempt more than maxAttempts.
Failed_OneMore(d) ==
    LET i == call[d].item
        n == call[d].read + 1
    IN  /\ call[d].pc = "failed"
        /\ attempts' = [attempts EXCEPT ![i] = n]
        /\ state' = [state EXCEPT ![i] = IF n > MaxAttempts THEN "DEAD_LETTER" ELSE "RETRY"]
        /\ due' = [due EXCEPT ![i] = IF n > MaxAttempts THEN @ ELSE Delay(n) - call[d].age]
        /\ held' = [held EXCEPT ![i] = 0]
        /\ call' = [call EXCEPT ![d] = [@ EXCEPT !.pc = "loop", !.item = 0, !.read = 0]]
        /\ UNCHANGED <<mails, faults>>

\* The catch: try again later, counted from the call's `now`, or give up. The
\* update is by id alone, whatever has become of the row meanwhile.
Failed(d) ==
    LET i == call[d].item
        n == call[d].read + 1
        dead == n >= MaxAttempts
    IN  /\ call[d].pc = "failed"
        /\ attempts' = [attempts EXCEPT ![i] = n]
        /\ state' = [state EXCEPT ![i] = IF dead THEN "DEAD_LETTER" ELSE "RETRY"]
        /\ due' = [due EXCEPT ![i] = IF dead THEN @ ELSE Delay(n) - call[d].age]
        /\ held' = [held EXCEPT ![i] = 0]
        /\ call' = [call EXCEPT ![d] = [@ EXCEPT !.pc = "loop", !.item = 0, !.read = 0]]
        /\ UNCHANGED <<mails, faults>>

End(d) ==
    /\ call[d].pc = "loop" /\ call[d].todo = {}
    /\ call' = [call EXCEPT ![d] = Idle]
    /\ UNCHANGED <<rowVars, mails, faults>>

\* The process dies, or a query outside the try throws out of the call.
Abort(d) ==
    /\ faults < MaxFaults
    /\ call[d].pc # "idle"
    /\ call' = [call EXCEPT ![d] = Idle]
    /\ faults' = faults + 1
    /\ UNCHANGED <<rowVars, mails>>

-----------------------------------------------------------------------------

Step(d) == \/ \E i \in Id : Claim(d, i) \/ Skip(d, i)
           \/ Read(d) \/ Accept(d) \/ Refuse(d)
           \/ Delivered(d) \/ Failed(d) \/ End(d)

Next ==
    \/ \E i \in Id : Enqueue(i)
    \/ Tick
    \/ \E d \in Dispatcher :
          Begin(d) \/ Step(d) \/ AnswerLost(d) \/ UpdateError(d) \/ Abort(d)

Spec == Init /\ [][Next]_vars

\* Time passes, the scheduler's interval fires, and a call's promises settle.
Fairness == /\ WF_vars(Tick)
            /\ WF_vars(Begin(Scheduler))
            /\ \A d \in Dispatcher : WF_vars(Step(d))

FairSpec == Spec /\ Fairness

-----------------------------------------------------------------------------
(* Properties.                                                             *)

Holds(d, i) == call[d].pc \in InHand /\ call[d].item = i

\* A claim is exclusive: no two calls are at work on one delivery, as long as
\* no call outlives a lock (MaxAge < StaleLock).
ClaimsExclusive ==
    \A d, e \in Dispatcher, i \in Id : Holds(d, i) /\ Holds(e, i) => d = e

\* The owner gets one mail, and one more at most for each crash, failed update
\* or lost answer: overlapping calls and takeovers alone never duplicate it.
OneMailPerFault == \A i \in Id : mails[i] <= 1 + faults

StatusOf(s) == CASE s = "NONE" -> "none"
                 [] s \in Waiting \cup {"PROCESSING"} -> "queued"
                 [] s = "DELIVERED" -> "delivered"
                 [] s = "DEAD_LETTER" -> "dead"

Status == [i \in Id |-> StatusOf(state[i])]

Taken == {i \in Id : mails[i] > 0}

outbox == INSTANCE Outbox WITH status <- Status, tries <- attempts, taken <- Taken

\* The dispatchers implement the outbox: attempts are counted one by one up to
\* maxAttempts, DELIVERED says the provider took the mail, final states stay.
ImplementsOutbox == outbox!Spec

\* A delivered alert is not sent again: the dispatcher is idempotent.
DeliveredIsFinal ==
    [][\A i \in Id : state[i] = "DELIVERED" => state'[i] = "DELIVERED"]_vars

\* Every queued alert is at last delivered or dead-lettered, whatever crashes,
\* lost answers and takeovers come first.
EveryAlertSettles == \A i \in Id : state[i] # "NONE" ~> state[i] \in Final

-----------------------------------------------------------------------------
(* The inductive invariant behind ClaimsExclusive, OneMailPerFault and        *)
(* ImplementsOutbox, when MaxAge < StaleLock.                                 *)

\* A row never says DELIVERED of a mail the provider did not take.
DeliveredIsMailed == \A i \in Id : state[i] = "DELIVERED" => mails[i] > 0

\* A call that holds a delivery stamped its lock, nobody has touched the row
\* since, and what the call read of it is still so.
HoldInv ==
    \A d \in Dispatcher, i \in Id :
        Holds(d, i) =>
            /\ state[i] = "PROCESSING"
            /\ held[i] = call[d].age
            /\ call[d].pc # "claimed" => call[d].read = attempts[i]
            /\ call[d].pc = "accepted" => mails[i] > 0

\* A row that may still be tried has attempts left; DELIVERED rows were mailed.
RowInv ==
    /\ \A i \in Id : state[i] \notin Final => attempts[i] < MaxAttempts
    /\ DeliveredIsMailed

\* Where a mail no fault pays for is accounted for.
Owed(i) == state[i] = "DELIVERED" \/ \E d \in Dispatcher : Holds(d, i) /\ call[d].pc = "accepted"

MailInv ==
    \A i \in Id : mails[i] <= 1 + faults /\ (~Owed(i) => mails[i] <= faults)

IInv == TypeOK /\ ClaimsExclusive /\ HoldInv /\ RowInv /\ MailInv
==============================================================================
