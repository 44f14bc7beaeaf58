-------------------------- MODULE TransactionSetup --------------------------
(***************************************************************************)
(* Setting a transaction up from milestone dates (apps/api).  The default  *)
(* template is made by whichever request first needs it, inside that       *)
(* request's database transaction; templates of an older release have no   *)
(* document definitions and are completed the same way.                    *)
(*                                                                         *)
(* Dates are days.  A milestone is its sortOrder; a task or event of the   *)
(* template is named, and hangs on a milestone with an offset in days.     *)
(***************************************************************************)
EXTENDS Integers, FiniteSets

CONSTANTS
    Milestones, \* number of milestones of the template
    Required,   \* milestones that must have a date
    Item,       \* the template's tasks and events
    Anchor,     \* Anchor[i]: the milestone an item hangs on
    Offset,     \* Offset[i]: its offset
    Request,    \* slots for requests
    LastDay,    \* bound: dates are 1..LastDay
    MaxCreated  \* bound: transactions ever created

Milestone == 1..Milestones

VARIABLES
    template, \* the default template: absent, without documents, or whole
    created,  \* the transactions created, in order of creation
    req       \* req[c]: a request between its look at the template and its commit

vars == <<template, created, req>>

-----------------------------------------------------------------------------

NoDate == 0

Dates == [Milestone -> {NoDate} \cup 1..LastDay]

\* The default template of the code: every milestone is required.
Missing(dates) == {m \in Required : dates[m] = NoDate}

\* validateMilestoneDateOrder: neighbours that both have a date are compared.
OrderErrors(dates) ==
    {m \in Milestone \ {1} : dates[m - 1] # NoDate /\ dates[m] # NoDate
                                /\ dates[m] < dates[m - 1]}

\* buildPreviewModel: what is scheduled, and when.
PreviewPlan(dates) ==
    LET scheduled == {i \in Item : dates[Anchor[i]] # NoDate}
    IN  [i \in scheduled |-> dates[Anchor[i]] + Offset[i]]

\* The rows createTransactionFromMilestones makes, computed by code of its own
\* from a map of definition ids to dates.
MadePlan(dates) ==
    LET dateOf == [m \in {n \in Milestone : dates[n] # NoDate} |-> dates[m]]
    IN  [i \in {j \in Item : Anchor[j] \in DOMAIN dateOf} |-> dateOf[Anchor[i]] + Offset[i]]

-----------------------------------------------------------------------------

Kind == {"get", "preview", "create"}

Idle == [kind |-> "none", saw |-> "none"]

TypeOK ==
    /\ template \in {"none", "bare", "whole"}
    /\ \A t \in created : t.dates \in Dates /\ t.slots \in {"bare", "whole"}
    /\ req \in [Request -> [kind: {"none"} \cup Kind, saw: {"none", "bare", "whole"}]]

Init ==
    /\ template \in {"none", "bare"}
    /\ created = {}
    /\ req = [c \in Request |-> Idle]

\* The request's database transaction begins and looks for the template.
Look(c, kind) ==
    /\ req[c].kind = "none"
    /\ req' = [req EXCEPT ![c] = [kind |-> kind, saw |-> template]]
    /\ UNCHANGED <<template, created>>

\* ensureDefaultTemplate returns a template with its documents.
Ensured == "whole"

\* Its inserts reject when another request committed the same keys after the
\* look.
Clash(c) == req[c].saw # "whole" /\ template # req[c].saw

\* getSetupTemplate and previewTransactionMilestonePlan commit the template.
CommitTemplate(c) ==
    /\ req[c].kind \in {"get", "preview"} /\ ~Clash(c)
    /\ template' = Ensured
    /\ req' = [req EXCEPT ![c] = Idle]
    /\ UNCHANGED created

Accepted(dates) == Missing(dates) = {} /\ OrderErrors(dates) = {}

\* createTransactionFromMilestones with its template, milestones, tasks,
\* events and document slots.
CommitCreate(c, dates) ==
    /\ req[c].kind = "create" /\ ~Clash(c)
    /\ Accepted(dates) /\ Cardinality(created) < MaxCreated
    /\ template' = Ensured
    /\ created' = created \cup {[dates |-> dates, plan |-> MadePlan(dates),
                                 slots |-> Ensured]}
    /\ req' = [req EXCEPT ![c] = Idle]

\* The transaction is rolled back: the dates are refused, the inserts clash,
\* or the database fails.
Rollback(c) ==
    /\ req[c].kind # "none"
    /\ req' = [req EXCEPT ![c] = Idle]
    /\ UNCHANGED <<template, created>>

Next ==
    \E c \in Request :
       \/ \E kind \in Kind : Look(c, kind)
       \/ CommitTemplate(c) \/ Rollback(c)
       \/ \E dates \in Dates : CommitCreate(c, dates)

Spec == Init /\ [][Next]_vars

-----------------------------------------------------------------------------

\* Comparing neighbours is enough: in a transaction that was created no
\* milestone lies before any earlier one.
CreatedInOrder ==
    \A t \in created : \A m, n \in Milestone : m < n => t.dates[m] <= t.dates[n]

\* The plan the agent was shown for these dates is the plan that was made.
PlanAsShown == \A t \in created : t.plan = PreviewPlan(t.dates)

\* Every transaction starts with the slots of a complete template, although
\* the template may be absent, or incomplete, or being completed elsewhere.
CreatedWithSlots == \A t \in created : t.slots = "whole"

-----------------------------------------------------------------------------

\* The inductive invariant: whatever was created had been accepted.
IInv ==
    /\ TypeOK
    /\ \A t \in created :
          Accepted(t.dates) /\ t.plan = MadePlan(t.dates) /\ t.slots = "whole"

\* What the constants have to be: every milestone of the template is required.
Template ==
    /\ Milestones \in Nat /\ LastDay \in Nat
    /\ Milestone \subseteq Required
    /\ Anchor \in [Item -> Milestone]

=============================================================================
