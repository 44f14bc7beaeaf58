------------------------------ MODULE LeadInbox ------------------------------
(***************************************************************************)
(* The leads of a portal, their status, and the owner's inbox in the       *)
(* browser (OwnerLeadsInbox) that loads them page by page.                 *)
(*                                                                         *)
(* Three routes write the status.  PATCH /owner/leads/:id reads the lead   *)
(* and then writes it by its id; PATCH /portals/:id/inquiries/:inquiryId   *)
(* writes with the condition; a response, from a route or from the drafted *)
(* reply, writes whatever the status is.                                   *)
(*                                                                         *)
(* A page is read from the database with a cursor, the id of the last lead *)
(* shown: the rows from its place on that match, less the first of them.   *)
(* The first is the cursor's own row as long as that row matches.          *)
(***************************************************************************)
EXTENDS Integers, FiniteSets, FiniteSetsExt, Sequences

CONSTANTS
    Lead,       \* ids, positive integers in the order of their arrival
    PageSize,
    Filter,     \* filters the owner selects, "all" or a status
    Mark,       \* statuses the requests ask for
    Load,       \* fetches of the inbox
    Patch,      \* requests to change a status by PATCH /owner/leads/:id
    MaxChanges  \* bound on changes made elsewhere

Statuses == {"NEW", "READ", "RESPONDED", "ARCHIVED"}

VARIABLES
    lead,      \* id -> [status, respondedAt]; status "none" before it arrives
    patch,     \* request -> [step, lead, status, respondedAt]
    inbox,     \* [filter, shown, next, loading]: the filter selected, the pages listed, each
               \* the set of its ids, the cursor or 0, and whether the next page may not be
               \* asked for
    load,      \* fetch -> [step, filter, cursor, rows, next]
    owed,      \* history: leads that matched since the first page of the list was read
    slipped,   \* history: the row of a cursor did not match when a page was read by it
    crossed,   \* history: two fetches were out at once
    changes

vars == <<lead, patch, inbox, load, owed, slipped, crossed, changes>>

NoLead == [status |-> "none", respondedAt |-> FALSE]
NoLoad == [step |-> "new", filter |-> "all", cursor |-> 0, rows |-> {}, next |-> 0]
NoPatch == [step |-> "new", lead |-> 0, status |-> "NEW"]

Init ==
    /\ lead = [l \in Lead |-> NoLead]
    /\ patch = [p \in Patch |-> NoPatch]
    /\ inbox = [filter |-> "all", shown |-> <<>>, next |-> 0, loading |-> FALSE]
    /\ load = [n \in Load |-> NoLoad]
    /\ owed = {} /\ slipped = FALSE /\ crossed = FALSE
    /\ changes = 0

Matches(l, filter) == lead[l].status # "none" /\ filter \in {"all", lead[l].status}

-----------------------------------------------------------------------------
\* The status of a lead.

\* An inquiry is stored: it is the newest.
Arrive(l) ==
    /\ lead[l] = NoLead /\ \A k \in Lead : k < l => lead[k] # NoLead
    /\ lead' = [lead EXCEPT ![l].status = "NEW"]
    /\ UNCHANGED <<patch, inbox, load, owed, slipped, crossed, changes>>

\* A lead's row is written: it is no longer owed where it ceases to match.
Write(l, row) ==
    /\ lead' = [lead EXCEPT ![l] = row]
    /\ owed' = IF inbox.filter \in {"all", row.status} THEN owed ELSE owed \ {l}

\* PUT /:id/respond of the agent, or the drafted reply that was mailed.
Respond(l) ==
    /\ lead[l] # NoLead /\ changes < MaxChanges
    /\ Write(l, [status |-> "RESPONDED", respondedAt |-> TRUE])
    /\ changes' = changes + 1
    /\ UNCHANGED <<patch, inbox, load, slipped, crossed>>

\* PATCH /portals/:id/inquiries/:inquiryId, which no responded status lets pass.
PatchInquiry(l, status) ==
    /\ lead[l].status \notin {"none", "RESPONDED"} /\ changes < MaxChanges
    /\ status \notin {"RESPONDED", lead[l].status}
    /\ Write(l, [lead[l] EXCEPT !.status = status])
    /\ changes' = changes + 1
    /\ UNCHANGED <<patch, inbox, load, slipped, crossed>>

\* PATCH /owner/leads/:id reads the lead; a responded one may only be archived.
ReadLead(p, l, status) ==
    /\ patch[p].step = "new" /\ lead[l] # NoLead
    /\ lead[l].respondedAt => status \in {"RESPONDED", "ARCHIVED"}
    /\ patch' = [patch EXCEPT ![p] = [step |-> "write", lead |-> l, status |-> status]]
    /\ UNCHANGED <<lead, inbox, load, owed, slipped, crossed, changes>>

\* It writes the status by id, and the time of a response that had none.
WriteLead(p) ==
    LET l == patch[p].lead IN
    /\ patch[p].step = "write"
    /\ Write(l, [status |-> patch[p].status,
                 respondedAt |-> lead[l].respondedAt \/ patch[p].status = "RESPONDED"])
    /\ patch' = [patch EXCEPT ![p].step = "done"]
    /\ UNCHANGED <<inbox, load, slipped, crossed, changes>>

-----------------------------------------------------------------------------
\* The inbox.

Loading == {n \in Load : load[n].step \in {"out", "served"}}

\* load(): a filter selected anew, also while a fetch is out, or the next page,
\* whose button is disabled until any fetch ends.
Send(n, filter, cursor) ==
    /\ load[n].step = "new" /\ \A m \in Load : m < n => load[m].step # "new"
    /\ load' = [load EXCEPT ![n] = [step |-> "out", filter |-> filter, cursor |-> cursor,
                                     rows |-> {}, next |-> 0]]
    /\ crossed' = (crossed \/ Loading # {})

ChangeFilter(n, filter) ==
    /\ Send(n, filter, 0)
    /\ inbox' = [inbox EXCEPT !.filter = filter, !.loading = TRUE]
    /\ UNCHANGED <<lead, patch, owed, slipped, changes>>

LoadMore(n) ==
    /\ inbox.next # 0 /\ ~inbox.loading
    /\ Send(n, inbox.filter, inbox.next)
    /\ inbox' = [inbox EXCEPT !.loading = TRUE]
    /\ UNCHANGED <<lead, patch, owed, slipped, changes>>

\* The rows from a cursor on, newest first; the first of them is skipped.
From(filter, cursor) ==
    LET rows == {l \in Lead : Matches(l, filter) /\ (cursor # 0 => l <= cursor)}
    IN  IF cursor = 0 \/ rows = {} THEN rows ELSE rows \ {Max(rows)}

\* A page is the newest of them, listed in their order.
PageOf(rows) == {l \in rows : Cardinality({k \in rows : k > l}) < PageSize}

\* Mutant: the cursor is the id of the extra row that was read.
Cursor_Extra(page, rows) == IF rows # page THEN Max(rows \ page) ELSE 0

\* The id of the last row of the page, when one more row was there.
Cursor(page, rows) == IF rows # page THEN Min(page) ELSE 0

\* GET /owner/leads: one more row than the page holds is read.
Serve(n) ==
    LET asked == load[n]
        rows == From(asked.filter, asked.cursor)
        page == PageOf(rows)
    IN  /\ asked.step = "out"
        /\ load' = [load EXCEPT ![n] = [step |-> "served", filter |-> asked.filter,
                                         cursor |-> asked.cursor, rows |-> page,
                                         next |-> Cursor(page, rows)]]
        /\ IF asked.cursor = 0
           THEN /\ owed' = {l \in Lead : Matches(l, asked.filter)}
                /\ slipped' = FALSE
           ELSE /\ slipped' = (slipped \/ ~Matches(asked.cursor, asked.filter))
                /\ UNCHANGED owed
        /\ UNCHANGED <<lead, patch, inbox, crossed, changes>>

\* setData: a first page replaces the list, whatever filter is selected by now;
\* another is appended.
Show(n) ==
    LET got == load[n] IN
    /\ got.step = "served"
    /\ inbox' = [inbox EXCEPT !.shown = IF got.cursor = 0 THEN <<got.rows>> ELSE Append(@, got.rows),
                              !.next = got.next, !.loading = FALSE]
    /\ load' = [load EXCEPT ![n].step = "done"]
    /\ UNCHANGED <<lead, patch, owed, slipped, crossed, changes>>

\* The fetch fails: the list and its cursor stay.
LoadFails(n) ==
    /\ n \in Loading
    /\ load' = [load EXCEPT ![n].step = "failed"]
    /\ inbox' = [inbox EXCEPT !.loading = FALSE]
    /\ UNCHANGED <<lead, patch, owed, slipped, crossed, changes>>

Next ==
    \/ \E l \in Lead :
          Arrive(l) \/ Respond(l) \/ \E status \in Mark : PatchInquiry(l, status)
    \/ \E p \in Patch : WriteLead(p) \/ \E l \in Lead, status \in Mark : ReadLead(p, l, status)
    \/ \E n \in Load :
          \/ LoadMore(n) \/ Serve(n) \/ Show(n) \/ LoadFails(n)
          \/ \E filter \in Filter : ChangeFilter(n, filter)

Spec == Init /\ [][Next]_vars

-----------------------------------------------------------------------------

TypeOK ==
    /\ \A l \in Lead : lead[l].status \in Statuses \cup {"none"} /\ lead[l].respondedAt \in BOOLEAN
    /\ \A p \in Patch : patch[p].step \in {"new", "write", "done"} /\ patch[p].lead \in Lead \cup {0}
    /\ inbox.filter \in Filter \cup {"all"} /\ inbox.shown \in Seq(SUBSET Lead)
    /\ inbox.next \in Lead \cup {0}
    /\ inbox.loading \in BOOLEAN
    /\ \A n \in Load : load[n].step \in {"new", "out", "served", "done", "failed"}
    /\ owed \subseteq Lead /\ slipped \in BOOLEAN /\ crossed \in BOOLEAN

\* The list whose first page was the last one to be asked for.
Settled ==
    /\ Loading = {} /\ inbox.next = 0
    /\ \E n \in Load : load[n].step = "done"
    /\ \A n \in Load : load[n].step # "failed"

\* The leads of a list of pages.
Ids(pages) == {l \in Lead : \E i \in DOMAIN pages : l \in pages[i]}
Apart(pages) == \A i, j \in DOMAIN pages : pages[i] \cap pages[j] # {} => i = j

\* However many leads arrive and change between the pages, an owner who has loaded
\* the last page has every lead that matched from the first page on, and none twice,
\* unless fetches crossed or the row of a cursor had stopped matching, which makes
\* the next page skip a lead.
ListedOnce ==
    (Settled /\ ~crossed /\ ~slipped)
        => owed \subseteq Ids(inbox.shown) /\ Apart(inbox.shown)

-----------------------------------------------------------------------------

\* Nothing has gone wrong that would be another list's.
Clean == ~crossed /\ \A n \in Load : load[n].step # "failed"

Loads == [step : {"new", "out", "served", "done", "failed"}, filter : Filter \cup {"all"},
          cursor : Lead \cup {0}, rows : SUBSET Lead, next : Lead \cup {0}]

Lists == [filter : Filter \cup {"all"}, shown : Seq(SUBSET Lead), next : Lead \cup {0},
          loading : BOOLEAN]
Leads == [status : Statuses \cup {"none"}, respondedAt : BOOLEAN]
Patches == [step : {"new", "write", "done"}, lead : Lead \cup {0}, status : Statuses]

\* A fetch that is out is the one the inbox waits for, from where its list ends.
Awaited(q) ==
    /\ inbox.loading /\ q.filter = inbox.filter
    /\ q.cursor # 0 => q.cursor = inbox.next

\* A page that was served goes on where the list ends, and with what is listed it has
\* all that is owed from its cursor on.
Continues(q) ==
    /\ \A l \in q.rows : q.next <= l /\ (q.cursor # 0 => l < q.cursor)
    /\ q.cursor # 0 => q.next <= q.cursor
    /\ ~slipped => \A l \in owed : l \in q.rows \/ l < q.next
                                   \/ (q.cursor # 0 /\ l \in Ids(inbox.shown))

\* The inductive invariant.
IInv ==
    /\ TypeOK /\ load \in [Load -> Loads]
    /\ lead \in [Lead -> Leads] /\ patch \in [Patch -> Patches]
    /\ \A p \in Patch : patch[p].step = "write" => patch[p].lead \in Lead
    /\ inbox \in Lists
    /\ Clean =>
          /\ \A m, n \in Loading : m = n
          /\ \A n \in Loading : Awaited(load[n])
          /\ (\A n \in Loading : load[n].cursor # 0) =>
                Apart(inbox.shown) /\ \A l \in Ids(inbox.shown) : inbox.next <= l
          /\ (\A n \in Loading : load[n].cursor # 0 \/ load[n].step = "served") =>
                \A l \in owed : Matches(l, inbox.filter)
          /\ ~slipped /\ (\A n \in Loading : load[n].cursor # 0 /\ load[n].step = "out") =>
                \A l \in owed : l \in Ids(inbox.shown) \/ l < inbox.next
          /\ \A n \in Loading : load[n].step = "served" => Continues(load[n])

\* What the constants have to be.
Bounds ==
    /\ Lead \subseteq Nat \ {0} /\ IsFiniteSet(Lead)
    /\ PageSize \in Nat \ {0} /\ Mark \subseteq Statuses

=============================================================================
