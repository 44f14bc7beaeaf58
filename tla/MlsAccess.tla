----------------------------- MODULE MlsAccess -----------------------------
(***************************************************************************)
(* An account's access to its MLS board                                    *)
(* (services/mlsVerificationService.ts, routes/agentMls.ts, the daily      *)
(* mls-status-check of routes/cron.ts).  Linking a membership checks the   *)
(* roster that mls-service keeps; the check compares each access with it,  *)
(* flags the inactive, clears the active and mails an alert on a new flag. *)
(*                                                                         *)
(* The check works on the accesses as they were when it began, row by row, *)
(* and updates by id.                                                      *)
(***************************************************************************)
EXTENDS Integers

CONSTANTS
    Membership,     \* MLS ids
    Day,            \* dates, from 1
    Run,            \* checks that may overlap
    MaxChanges,     \* bound on the changes of the roster
    MaxFaults

VARIABLES
    roster,         \* roster[m]: what the roster says of an id
    access,         \* the account's access: membership and flag
    linking,        \* an id that was found active and is about to be linked
    run,            \* run[r]: what check r read
    day, changes,
    row, taken, call, faults

Alert == Membership \X Day

Mail == INSTANCE LifecycleMail WITH Kind <- Alert, Caller <- Run

vars == <<roster, access, linking, run, day, changes, row, taken, call, faults>>
mailVars == <<row, taken, call, faults>>

Standing == {"active", "inactive", "absent", "ambiguous"}
None == "none"

\* status: what this check found; on: the day of the flag it wrote.
Idle == [step |-> "idle", membership |-> None, flagged |-> FALSE, status |-> "absent", on |-> 1]

Init ==
    /\ roster \in [Membership -> Standing]
    /\ access = [membership |-> None, flagged |-> FALSE]
    /\ linking = None
    /\ run = [r \in Run |-> Idle]
    /\ day = 1
    /\ changes = 0
    /\ Mail!MailInit

-----------------------------------------------------------------------------

\* verifyAndLinkMlsAccess: exactly one entry of the roster, and an active one.
Verify(m) ==
    /\ linking = None
    /\ roster[m] = "active"
    /\ linking' = m
    /\ UNCHANGED <<roster, access, run, day, changes, mailVars>>

\* The upsert writes the membership and leaves the flag.
Link ==
    /\ linking # None
    /\ access' = [access EXCEPT !.membership = linking]
    /\ linking' = None
    /\ UNCHANGED <<roster, run, day, changes, mailVars>>

\* checkMlsStatuses reads the accesses of the board.
Check(r) ==
    /\ run[r].step = "idle" /\ call[r].step = "idle"
    /\ access.membership # None
    /\ run' = [run EXCEPT ![r] = [Idle EXCEPT !.step = "read", !.membership = access.membership,
                                              !.flagged = access.flagged]]
    /\ UNCHANGED <<roster, access, linking, day, changes, mailVars>>

\* It reads the roster for those memberships.
ReadRoster(r) ==
    /\ run[r].step = "read"
    /\ run' = [run EXCEPT ![r].step = "compare", ![r].status = roster[run[r].membership]]
    /\ UNCHANGED <<roster, access, linking, day, changes, mailVars>>

\* Mutant: a flag is never taken back.
Compare_Sticks(r) ==
    LET bad == run[r].status # "active" IN
    /\ run[r].step = "compare"
    /\ IF run[r].status # "ambiguous" /\ bad /\ ~run[r].flagged
       THEN /\ access' = [access EXCEPT !.flagged = TRUE]
            /\ run' = [run EXCEPT ![r].step = "alert", ![r].on = day]
       ELSE UNCHANGED access /\ run' = [run EXCEPT ![r] = Idle]
    /\ UNCHANGED <<roster, linking, day, changes, mailVars>>

\* A change is written by id, whatever the access has become; an ambiguous id is
\* left as it is.
Compare(r) ==
    LET bad == run[r].status # "active" IN
    /\ run[r].step = "compare"
    /\ IF run[r].status # "ambiguous" /\ bad # run[r].flagged
       THEN /\ access' = [access EXCEPT !.flagged = bad]
            /\ run' = IF bad THEN [run EXCEPT ![r].step = "alert", ![r].on = day]
                      ELSE [run EXCEPT ![r] = Idle]
       ELSE UNCHANGED access /\ run' = [run EXCEPT ![r] = Idle]
    /\ UNCHANGED <<roster, linking, day, changes, mailVars>>

\* sendInternalMlsStatusFlaggedAlert: one kind per membership and day of the flag;
\* its failure is only logged.
SendAlert(r) ==
    /\ run[r].step = "alert"
    /\ Mail!Ask(r, <<run[r].membership, run[r].on>>)
    /\ run' = [run EXCEPT ![r] = Idle]
    /\ UNCHANGED <<roster, access, linking, day, changes>>

\* The process stops in the middle of a check.
StopCheck(r) ==
    /\ run[r].step # "idle" /\ faults < MaxFaults
    /\ run' = [run EXCEPT ![r] = Idle]
    /\ faults' = faults + 1
    /\ UNCHANGED <<roster, access, linking, day, changes, row, taken, call>>

\* The daily synchronisation of the roster, and the next day.
Sync(m, s) ==
    /\ changes < MaxChanges /\ roster[m] # s
    /\ roster' = [roster EXCEPT ![m] = s]
    /\ changes' = changes + 1
    /\ UNCHANGED <<access, linking, run, day, mailVars>>

NextDay ==
    /\ day + 1 \in Day
    /\ day' = day + 1
    /\ UNCHANGED <<roster, access, linking, run, changes, mailVars>>

Deliver ==
    /\ Mail!MailNext
    /\ UNCHANGED <<roster, access, linking, run, day, changes>>

Work(r) ==
    \/ Check(r) \/ ReadRoster(r) \/ Compare(r) \/ SendAlert(r)
    \/ (Mail!Work(r) /\ UNCHANGED <<roster, access, linking, run, day, changes>>)

Next ==
    \/ \E m \in Membership : Verify(m) \/ \E s \in Standing : Sync(m, s)
    \/ Link \/ NextDay \/ Deliver
    \/ \E r \in Run : Check(r) \/ ReadRoster(r) \/ Compare(r) \/ SendAlert(r) \/ StopCheck(r)

\* The check is called every day and a check that runs goes on.
Fairness == \A r \in Run : WF_vars(Work(r))

FairSpec == Init /\ [][Next]_vars /\ Fairness

-----------------------------------------------------------------------------

Typed ==
    /\ roster \in [Membership -> Standing]
    /\ access \in [membership : Membership \cup {None}, flagged : BOOLEAN]
    /\ linking \in Membership \cup {None}
    /\ run \in [Run -> [step : {"idle", "read", "compare", "alert"}, flagged : BOOLEAN,
                        membership : Membership \cup {None}, status : Standing, on : Day]]
    /\ day \in Day /\ changes \in 0..MaxChanges

TypeOK == Typed /\ Mail!MailTypeOK

OneMailPerKind == Mail!OneMailPerKind
RowMeansMail == Mail!RowMeansMail

Agrees ==
    \/ access.membership = None
    \/ roster[access.membership] = "ambiguous"
    \/ access.flagged = (roster[access.membership] # "active")

\* Once the roster and the membership stop changing, the flag comes to say what
\* the roster says and stays so, whatever overlapping checks wrote from what
\* they had read before.
FlagSettles == <>[][UNCHANGED <<roster, access.membership>>]_vars => <>[]Agrees

-----------------------------------------------------------------------------

\* A check that goes on has a membership to look up.
Looks == \A r \in Run : run[r].step # "idle" => run[r].membership \in Membership

\* The inductive invariant.
IInv == Typed /\ Looks /\ Mail!IInv

\* What the constants have to be.
Bounds == Membership # {} /\ 1 \in Day /\ MaxChanges \in Nat /\ MaxFaults \in Nat

=============================================================================
