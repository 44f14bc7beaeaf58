------------------------------- MODULE Outbox -------------------------------
(***************************************************************************)
(* What an outbox of notifications promises, whoever sends them: a queued  *)
(* notification is tried at most MaxAttempts times, is delivered only when *)
(* the provider took it, and never leaves its final status.                *)
(***************************************************************************)
EXTENDS Naturals

CONSTANTS Id, MaxAttempts

VARIABLES
    status, \* status[i]: "none", "queued", "delivered" or "dead"
    tries,  \* tries[i]: attempts that are over
    taken   \* the notifications the provider has taken, perhaps twice

vars == <<status, tries, taken>>

Init ==
    /\ status = [i \in Id |-> "none"]
    /\ tries = [i \in Id |-> 0]
    /\ taken = {}

Queue(i) ==
    /\ status[i] = "none"
    /\ status' = [status EXCEPT ![i] = "queued"]
    /\ UNCHANGED <<tries, taken>>

Take(i) ==
    /\ status[i] = "queued"
    /\ taken' = taken \cup {i}
    /\ UNCHANGED <<status, tries>>

\* The attempt under way is over: delivered, given up, or to be tried again.
Attempt(i, outcome) ==
    /\ status[i] = "queued"
    /\ outcome = "delivered" => i \in taken
    /\ outcome = "dead" => tries[i] + 1 = MaxAttempts
    /\ outcome = "queued" => tries[i] + 1 < MaxAttempts
    /\ status' = [status EXCEPT ![i] = outcome]
    /\ tries' = [tries EXCEPT ![i] = tries[i] + 1]
    /\ UNCHANGED taken

Next == \E i \in Id :
    \/ Queue(i)
    \/ Take(i)
    \/ \E outcome \in {"delivered", "dead", "queued"} : Attempt(i, outcome)

Spec == Init /\ [][Next]_vars
=============================================================================
