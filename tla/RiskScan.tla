------------------------------ MODULE RiskScan ------------------------------
(***************************************************************************)
(* The scans for transactions at risk (apps/api): the daily cron and the   *)
(* agent's own request read the agent's open transactions, judge each and  *)
(* queue an action for those at risk that have none.  Dates are days from  *)
(* now.                                                                    *)
(***************************************************************************)
EXTENDS Integers, Sequences, FiniteSets

CONSTANTS
    Transaction, \* the agent's transactions
    Profile,     \* what may be said of a transaction: records as Calm below
    Scans,        \* scans that may overlap
    Cron,        \* the one the cron starts
    MaxItems,    \* actions a scan queues at most
    Take,        \* transactions a scan reads at most
    MaxChanges   \* bound: edits, decisions and failures

VARIABLES
    tx,      \* tx[t]: the transaction with its tasks and documents
    live,    \* live[t]: its actions that are pending, approved, executing or snoozed
    rated,   \* rated[t]: severity of the action created last
    scan,    \* scan[s]: a running scan
    beside,  \* history: transactions queued by one scan while another was running
    changes  \* changes so far

vars == <<tx, live, rated, scan, beside, changes>>

-----------------------------------------------------------------------------

\* No date: the empty set; a date: its one element.
Calm == [open |-> TRUE, closing |-> {}, overdue |-> 0, contingencies |-> {},
         missing |-> 0, matched |-> 0]

Within(dates, n) == \E d \in dates : d <= n

Raised(rule, high) == [rule |-> rule, severity |-> IF high THEN "HIGH" ELSE "MEDIUM"]

\* collectRiskFactors; a closing date that has passed makes the rest urgent
\* and is no factor itself.
Factors(p) ==
    UNION {{Raised("OVERDUE_TASK", Within(p.closing, 14)) : i \in 1..p.overdue},
           {Raised("CONTINGENCY_EXPIRING", d <= 3) : d \in p.contingencies \cap 0..7},
           {Raised("CLOSING_DATE_NEAR", d <= 7) : d \in p.closing \cap 0..14},
           IF p.missing > 0 THEN {Raised("MISSING_DOCUMENT", Within(p.closing, 14))} ELSE {},
           IF p.matched > 0 THEN {Raised("UNVERIFIED_DOCUMENT", FALSE)} ELSE {}}

HighestSeverity(p) ==
    IF \E f \in Factors(p) : f.severity = "HIGH" THEN "HIGH"
    ELSE IF Factors(p) # {} THEN "MEDIUM" ELSE "NONE"

AtRisk(p) == Factors(p) # {}

\* Order of the query: by closing date, without one last.
Before(t, u) ==
    \E d \in tx[t].closing : \A e \in tx[u].closing : d < e

-----------------------------------------------------------------------------

Severity == {"NONE", "MEDIUM", "HIGH"}

Calmly == [t \in Transaction |-> "NONE"]

Idle == [pc |-> "idle", todo |-> <<>>, judged |-> Calmly, active |-> {}, left |-> 0]

TypeOK ==
    /\ tx \in [Transaction -> Profile]
    /\ live \in [Transaction -> Nat]
    /\ rated \in [Transaction -> Severity]
    /\ scan \in [Scans -> [pc: {"idle", "fetched", "analyse"}, todo: Seq(Transaction),
                          judged: [Transaction -> Severity],
                          active: SUBSET Transaction, left: 0..MaxItems]]
    /\ beside \subseteq Transaction
    /\ changes \in 0..MaxChanges

Init ==
    /\ tx \in [Transaction -> Profile]
    /\ live = [t \in Transaction |-> 0]
    /\ rated = Calmly
    /\ scan = [s \in Scans |-> Idle]
    /\ beside = {}
    /\ changes = 0

Open == {t \in Transaction : tx[t].open}

Injective(todo) == \A i, j \in DOMAIN todo : todo[i] = todo[j] => i = j

\* The first open transactions in the order of the query.
Page(todo) ==
    LET n    == Len(todo)
        read == {todo[i] : i \in 1..n}
    IN  /\ Injective(todo)
        /\ \A i, j \in 1..n : i < j => ~Before(todo[j], todo[i])
        /\ \A t \in Open \ read : n = Take /\ \A u \in read : ~Before(t, u)

\* fetchActiveTransactions, with the tasks and documents as they are now.
Fetch(s) ==
    /\ scan[s].pc = "idle"
    /\ \E n \in 0..Take : \E todo \in [1..n -> Open] :
          /\ Page(todo)
          /\ scan' = [scan EXCEPT ![s] =
                [Idle EXCEPT !.pc = "fetched", !.todo = todo, !.left = MaxItems,
                    !.judged = [t \in Transaction |-> HighestSeverity(tx[t])]]]
    /\ UNCHANGED <<tx, live, rated, beside, changes>>

\* Mutant: the actions of the last scan are forgotten.
ReadActive_Blind(s) ==
    /\ scan[s].pc = "fetched"
    /\ scan' = [scan EXCEPT ![s].pc = "analyse"]
    /\ UNCHANGED <<tx, live, rated, beside, changes>>

\* The transactions that have an action, in one query before the loop.
ReadActive(s) ==
    /\ scan[s].pc = "fetched"
    /\ scan' = [scan EXCEPT ![s].pc = "analyse",
                            ![s].active = {t \in Transaction : live[t] > 0}]
    /\ UNCHANGED <<tx, live, rated, beside, changes>>

Turn(s) == scan[s].pc = "analyse" /\ scan[s].left > 0 /\ scan[s].todo # <<>>

Needed(s) ==
    LET t == Head(scan[s].todo) IN scan[s].judged[t] # "NONE" /\ t \notin scan[s].active

\* analyzeAndQueue creates the action of the next transaction; one at high risk
\* is summarised by the model first, whose failure is absorbed.
Queue(s) ==
    /\ Turn(s) /\ Needed(s)
    /\ LET t == Head(scan[s].todo)
       IN  /\ live' = [live EXCEPT ![t] = live[t] + 1]
           /\ rated' = [rated EXCEPT ![t] = scan[s].judged[t]]
           /\ beside' = IF \E z \in Scans \ {s} : scan[z].pc # "idle"
                        THEN beside \cup {t} ELSE beside
    /\ scan' = [scan EXCEPT ![s].todo = Tail(scan[s].todo), ![s].left = scan[s].left - 1]
    /\ UNCHANGED <<tx, changes>>

\* Mutant: a transaction that needs no action counts against the limit.
Skip_Counts(s) ==
    /\ Turn(s) /\ ~Needed(s)
    /\ scan' = [scan EXCEPT ![s].todo = Tail(scan[s].todo), ![s].left = scan[s].left - 1]
    /\ UNCHANGED <<tx, live, rated, beside, changes>>

Skip(s) ==
    /\ Turn(s) /\ ~Needed(s)
    /\ scan' = [scan EXCEPT ![s].todo = Tail(scan[s].todo)]
    /\ UNCHANGED <<tx, live, rated, beside, changes>>

Finish(s) ==
    /\ scan[s].pc = "analyse"
    /\ scan[s].left = 0 \/ scan[s].todo = <<>>
    /\ scan' = [scan EXCEPT ![s] = Idle]
    /\ UNCHANGED <<tx, live, rated, beside, changes>>

-----------------------------------------------------------------------------

Count == changes < MaxChanges /\ changes' = changes + 1

\* A query fails, which ends the scan, or the creation of one action, which
\* does not.
Fail(s) ==
    /\ Count
    /\ \/ scan[s].pc \in {"fetched", "analyse"} /\ scan' = [scan EXCEPT ![s] = Idle]
       \/ /\ Turn(s) /\ Needed(s)
          /\ scan' = [scan EXCEPT ![s].todo = Tail(scan[s].todo)]
    /\ UNCHANGED <<tx, live, rated, beside>>

\* The agent works on a transaction, or a date comes nearer.
Edit(t) ==
    /\ Count
    /\ \E p \in Profile \ {tx[t]} : tx' = [tx EXCEPT ![t] = p]
    /\ UNCHANGED <<live, rated, scan, beside>>

\* The agent dismisses an action, or lets it be executed.
Decide(t) ==
    /\ Count /\ live[t] > 0
    /\ live' = [live EXCEPT ![t] = live[t] - 1]
    /\ UNCHANGED <<tx, rated, scan, beside>>

Work(s) == ReadActive(s) \/ Queue(s) \/ Skip(s) \/ Finish(s)

Next ==
    \/ \E s \in Scans : Fetch(s) \/ Work(s) \/ Fail(s)
    \/ \E t \in Transaction : Edit(t) \/ Decide(t)

Spec == Init /\ [][Next]_vars

\* Scans go on, and the cron starts the next one when its last one ended.
Fairness == WF_vars(Fetch(Cron)) /\ \A s \in Scans : WF_vars(Work(s))

FairSpec == Spec /\ Fairness

-----------------------------------------------------------------------------

\* The service promises one action per transaction and workflow (lines 17-18), which no
\* unique index of any migration enforces.  What it keeps without one: a transaction
\* has a second live action only where a scan queued it while another was running, and
\* never more of them than scans run at a time.
RiskActionsBounded ==
    \A t \in Transaction :
       /\ live[t] > 1 => t \in beside
       /\ live[t] <= Cardinality(Scans)

\* The other open transactions that do not come after t: fewer than Take, and every
\* scan reads t.
Ahead(t) == {u \in Open \ {t} : ~Before(t, u)}

Reached(t) == tx[t].open /\ AtRisk(tx[t]) /\ Cardinality(Ahead(t)) < Take

\* The limit on the actions of a scan delays an action and never withholds it: a
\* transaction at risk that stays among the first Take by closing date is queued at
\* last, however many others are.  Beyond them it may never be: those that have
\* their action, and those at no risk, are read again by every scan (findMany's take).
EveryRiskQueued == \A t \in Transaction : Reached(t) ~> (live[t] > 0 \/ ~Reached(t))

-----------------------------------------------------------------------------

\* The scans that may still queue an action for t.
Wants(t) ==
    {s \in Scans : /\ scan[s].pc = "analyse" /\ t \notin scan[s].active
                  /\ \E i \in DOMAIN scan[s].todo : scan[s].todo[i] = t}

\* The inductive invariant: a scan comes to a transaction once, whoever wants to
\* queue an action for it saw none that lives, and once it has one that no other scan
\* ran beside, nobody wants to.
IInv ==
    /\ TypeOK
    /\ \A s \in Scans : Injective(scan[s].todo)
    /\ \A t \in Transaction : live[t] + Cardinality(Wants(t)) <= Cardinality(Scans)
    /\ \A t \in Transaction \ beside : live[t] <= 1 /\ (live[t] = 1 => Wants(t) = {})

\* What the constants have to be.
Bounds == IsFiniteSet(Scans) /\ Take \in Nat /\ MaxItems \in Nat /\ MaxChanges \in Nat

=============================================================================
