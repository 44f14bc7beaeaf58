----------------------------- MODULE MemoryScan -----------------------------
(***************************************************************************)
(* The scans for neglected contacts (apps/api).  Five rules propose        *)
(* contacts of the agent's account, each contact is kept under its most    *)
(* urgent rule, and the most urgent ones are queued unless they have an    *)
(* action of this agent.  Several agents share the contacts.               *)
(***************************************************************************)
EXTENDS Naturals, Sequences, FiniteSets

CONSTANTS
    Contact,
    Agent,      \* agents of one account
    Profile,    \* what may be said of a contact: records as Fresh below
    Scan,       \* scans that may overlap
    MaxItems,   \* contacts a scan proposes at most
    Take,       \* Take[rule]: rows a rule reads at most
    MaxChanges  \* bound: edits, decisions and failures

Rule == 1..5  \* overdue task, active, qualified, stale lead, past client

VARIABLES
    contact, \* contact[c]: the contact with its open tasks
    live,    \* live[a][c]: actions of agent a for c that are not decided
    scan,    \* scan[s]: a running scan
    beside,  \* history: agents and contacts whose action was queued by one scan
             \* while another of the agent was running
    changes  \* changes so far

vars == <<contact, live, scan, beside, changes>>

-----------------------------------------------------------------------------

\* Days since the last interaction and consultation, Never for none; of the tasks
\* that are overdue, the agent and the days.
Never == 1000

Fresh == [type |-> "LEAD", stage |-> "NEW", silent |-> 0, consult |-> Never, overdue |-> {}]

\* The priority each rule gives its candidates.
Priority == <<3, 2, 2, 1, 1>>

\* What a query may return: at most n of the rows that match, the oldest first.
Pages(rows, n, age) ==
    {read \in SUBSET rows :
        /\ Cardinality(read) <= n
        /\ \A x \in rows \ read : Cardinality(read) = n /\ \A y \in read : age[y] >= age[x]}

AnyOrder == [c \in Contact |-> 0]

\* "asc" reads the longest silent first, but PostgreSQL puts those without an
\* interaction last.
Silence == [c \in Contact |-> IF contact[c].silent = Never THEN 0 ELSE contact[c].silent]

\* The first query reads tasks, and more than one may be of the same contact.
FindOverdueTasks(a) ==
    LET tasks == UNION {{<<c, t>> : t \in {u \in contact[c].overdue : u[1] = a}} : c \in Contact}
    IN  {{task[1] : task \in read} : read \in Pages(tasks, Take[1], [task \in tasks |-> task[2][2]])}

FindActiveNoActivity ==
    Pages({c \in Contact : contact[c].stage = "ACTIVE" /\ contact[c].silent > 7},
          Take[2], AnyOrder)

FindQualifiedNoConsult ==
    Pages({c \in Contact : /\ contact[c].type = "LEAD" /\ contact[c].stage = "QUALIFIED"
                           /\ contact[c].consult > 30},
          Take[3], AnyOrder)

FindStaleLeads ==
    Pages({c \in Contact : /\ contact[c].type = "LEAD" /\ contact[c].silent > 14
                           /\ contact[c].stage \in {"NEW", "CONTACTED", "QUALIFIED"}},
          Take[4], Silence)

FindPastClientCheckins ==
    Pages({c \in Contact : contact[c].type = "CLIENT" /\ contact[c].silent > 90},
          Take[5], Silence)

\* "De-duplicate by contactId - highest priority rule wins", the first of equals.
RuleOf(found, c) ==
    CHOOSE r \in Rule : c \in found[r] /\ \A q \in Rule : c \in found[q] => r <= q

Found(found) == UNION {found[r] : r \in Rule}

\* The sorted list is cut at MaxItems.
Cut(found, todo) ==
    LET priority(c) == Priority[RuleOf(found, c)]
        kept        == {todo[i] : i \in 1..Len(todo)}
    IN  /\ Len(todo) <= MaxItems
        /\ Len(todo) < MaxItems => kept = Found(found)
        /\ \A i, j \in 1..Len(todo) : i < j => priority(todo[i]) >= priority(todo[j])
        /\ \A c \in Found(found) \ kept, d \in kept : priority(c) <= priority(d)

-----------------------------------------------------------------------------

Idle(a) == [pc |-> "idle", agent |-> a, todo |-> <<>>, active |-> {}]

TypeOK ==
    /\ contact \in [Contact -> Profile]
    /\ live \in [Agent -> [Contact -> Nat]]
    /\ scan \in [Scan -> [pc: {"idle", "found", "queue"}, agent: Agent,
                          todo: Seq(Contact), active: SUBSET Contact]]
    /\ \A s \in Scan : Len(scan[s].todo) <= MaxItems
    /\ beside \subseteq Agent \X Contact
    /\ changes \in 0..MaxChanges

Init ==
    /\ contact \in [Contact -> Profile]
    /\ live = [a \in Agent |-> [c \in Contact |-> 0]]
    /\ scan \in [Scan -> {Idle(a) : a \in Agent}]
    /\ beside = {}
    /\ changes = 0

Injective(todo) == \A i, j \in DOMAIN todo : todo[i] = todo[j] => i = j

\* findCandidates: the five queries run side by side.
FindCandidates(s, a) ==
    /\ scan[s].pc = "idle"
    /\ \E r1 \in FindOverdueTasks(a), r2 \in FindActiveNoActivity,
          r3 \in FindQualifiedNoConsult, r4 \in FindStaleLeads, r5 \in FindPastClientCheckins :
          LET found == <<r1, r2, r3, r4, r5>>
          IN  \E n \in 0..MaxItems : \E todo \in [1..n -> Found(found)] :
                 /\ Injective(todo) /\ Cut(found, todo)
                 /\ scan' = [scan EXCEPT ![s] = [Idle(a) EXCEPT !.pc = "found", !.todo = todo]]
    /\ UNCHANGED <<contact, live, beside, changes>>

\* The contacts for which this agent has an action.
ReadActive(s) ==
    /\ scan[s].pc = "found"
    /\ scan' = [scan EXCEPT ![s].pc = "queue",
                            ![s].active = {c \in Contact : live[scan[s].agent][c] > 0}]
    /\ UNCHANGED <<contact, live, beside, changes>>

Turn(s) == scan[s].pc = "queue" /\ scan[s].todo # <<>>

\* maybeCreateAction.
Queue(s) ==
    LET c == Head(scan[s].todo)
        a == scan[s].agent
    IN  /\ Turn(s)
        /\ IF c \in scan[s].active THEN UNCHANGED <<live, beside>>
           ELSE /\ live' = [live EXCEPT ![a][c] = live[a][c] + 1]
                /\ beside' = IF \E z \in Scan \ {s} : scan[z].pc # "idle" /\ scan[z].agent = a
                             THEN beside \cup {<<a, c>>} ELSE beside
        /\ scan' = [scan EXCEPT ![s].todo = Tail(scan[s].todo)]
        /\ UNCHANGED <<contact, changes>>

Finish(s) ==
    /\ scan[s].pc = "queue" /\ scan[s].todo = <<>>
    /\ scan' = [scan EXCEPT ![s] = Idle(scan[s].agent)]
    /\ UNCHANGED <<contact, live, beside, changes>>

-----------------------------------------------------------------------------

Count == changes < MaxChanges /\ changes' = changes + 1

\* A query fails, which ends the scan, or the creation of one action, which
\* does not.
Fail(s) ==
    /\ Count
    /\ \/ scan[s].pc # "idle" /\ scan' = [scan EXCEPT ![s] = Idle(scan[s].agent)]
       \/ /\ Turn(s)
          /\ scan' = [scan EXCEPT ![s].todo = Tail(scan[s].todo)]
    /\ UNCHANGED <<contact, live, beside>>

\* Days pass, or an agent works with a contact.
Edit(c) ==
    /\ Count
    /\ \E p \in Profile \ {contact[c]} : contact' = [contact EXCEPT ![c] = p]
    /\ UNCHANGED <<live, scan, beside>>

\* The agent dismisses an action, or lets it be executed.
Decide(a, c) ==
    /\ Count /\ live[a][c] > 0
    /\ live' = [live EXCEPT ![a][c] = live[a][c] - 1]
    /\ UNCHANGED <<contact, scan, beside>>

Next ==
    \/ \E s \in Scan :
          \/ \E a \in Agent : FindCandidates(s, a)
          \/ ReadActive(s) \/ Queue(s) \/ Finish(s) \/ Fail(s)
    \/ \E c \in Contact : Edit(c) \/ \E a \in Agent : Decide(a, c)

Spec == Init /\ [][Next]_vars

-----------------------------------------------------------------------------

\* The service promises at most one active action per contact (lines 15-16), which no
\* unique index enforces.  What it keeps: an agent has a second one for a contact only
\* where a scan queued it while another scan of the agent was running, and never more
\* of them than scans run at a time.
ContactActionsBounded ==
    \A a \in Agent, c \in Contact :
       /\ live[a][c] > 1 => <<a, c>> \in beside
       /\ live[a][c] <= Cardinality(Scan)

-----------------------------------------------------------------------------

\* The scans that are going to queue an action of agent a for contact c.
Wants(a, c) ==
    {s \in Scan : /\ scan[s].pc = "queue" /\ scan[s].agent = a
                  /\ c \notin scan[s].active
                  /\ \E i \in DOMAIN scan[s].todo : scan[s].todo[i] = c}

\* The inductive invariant: an action is one of a scan that looked while there was
\* none, a scan comes to a contact once, and nobody is going to queue an action where
\* there is one that no other scan ran beside.
IInv ==
    /\ TypeOK
    /\ \A s \in Scan : Injective(scan[s].todo)
    /\ \A a \in Agent, c \in Contact :
          /\ live[a][c] + Cardinality(Wants(a, c)) <= Cardinality(Scan)
          /\ <<a, c>> \notin beside =>
                live[a][c] <= 1 /\ (live[a][c] = 1 => Wants(a, c) = {})

\* What the constants have to be.
Bounds == IsFiniteSet(Scan) /\ MaxItems \in Nat /\ MaxChanges \in Nat

=============================================================================
