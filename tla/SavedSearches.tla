---------------------------- MODULE SavedSearches ----------------------------
(***************************************************************************)
(* One saved search of a portal user (routes/users.ts) and the cron route  *)
(* that mails its owner when properties were added since lastRunAt         *)
(* (routes/cron.ts).  A run counts, mails, and then writes the time it is  *)
(* by then; what is added between the count and the write is older than    *)
(* lastRunAt and was not counted.  The owner may change the criteria at    *)
(* any time, which changes neither lastRunAt nor what a run has read.      *)
(*                                                                         *)
(* Which homes criteria find is fixed here: of what changes in a home only *)
(* its first listing that is active is followed, and no price or place.    *)
(***************************************************************************)
EXTENDS Naturals

CONSTANTS
    Home,         \* properties
    Criteria,     \* [alert, count]: the homes that criteria find as the cron route
                  \* reads them, and as POST /:id/run does
    Run,          \* requests and cron calls that may overlap
    MaxTime

VARIABLES
    now,
    created,   \* home -> createdAt, 0 when it is not there
    active,    \* homes with an active listing
    search,    \* [state, last, criteria]: lastRunAt, 0 for null
    run,       \* run -> [step, last, found]: what the criteria find, then what it counted
    told,      \* history: homes that were in a mail or in a count shown
    passed     \* history: homes that came to match behind lastRunAt or where a running
               \* count does not see them, and those of a mail that was skipped

vars == <<now, created, active, search, run, told, passed>>

Matches == [alert : SUBSET Home, count : SUBSET Home]

Idle == [step |-> "idle", last |-> 0, found |-> {}]
NoSearch == [state |-> "none", last |-> 0, criteria |-> [alert |-> {}, count |-> {}]]

TypeOK ==
    /\ now \in 1..MaxTime
    /\ created \in [Home -> 0..MaxTime]
    /\ active \subseteq Home /\ told \subseteq Home /\ passed \subseteq Home
    /\ search \in [state : {"none", "saved", "gone"}, last : 0..MaxTime,
                   criteria : Matches]
    /\ run \in [Run -> [step : {"idle", "alert", "count", "send", "write"},
                        last : 0..MaxTime, found : SUBSET Home]]

Init ==
    /\ now = 1
    /\ created = [h \in Home |-> 0]
    /\ active = {} /\ told = {} /\ passed = {}
    /\ search = NoSearch
    /\ run = [r \in Run |-> Idle]

-----------------------------------------------------------------------------

Tick ==
    /\ now < MaxTime
    /\ now' = now + 1
    /\ UNCHANGED <<created, active, search, run, told, passed>>

\* The search was stamped just now, or a run neither has the home in its count nor
\* will have it, and is going to write a later lastRunAt.
Blind(h) == search.last = now \/ \E r \in Run : run[r].step # "idle" /\ h \notin run[r].found

\* A property is added, with an active listing or without.
AddHome(h, b) ==
    /\ created[h] = 0
    /\ created' = [created EXCEPT ![h] = now]
    /\ active' = IF b THEN active \cup {h} ELSE active
    /\ passed' = IF Blind(h) THEN passed \cup {h} ELSE passed
    /\ UNCHANGED <<now, search, run, told>>

\* Its listing becomes active later: the date of the property is what counts.
Activate(h) ==
    /\ created[h] # 0 /\ h \notin active
    /\ active' = active \cup {h}
    /\ passed' = IF Blind(h) \/ created[h] <= search.last THEN passed \cup {h} ELSE passed
    /\ UNCHANGED <<now, created, search, run, told>>

\* POST /saved-searches; a new one has no lastRunAt.
Save(c) ==
    /\ search = NoSearch
    /\ search' = [search EXCEPT !.state = "saved", !.criteria = c]
    /\ UNCHANGED <<now, created, active, run, told, passed>>

\* What both readings of the criteria find.
Both(c) == c.alert \cap c.count

\* PUT /saved-searches/:id keeps lastRunAt.
Change(c) ==
    /\ search.state = "saved"
    /\ search' = [search EXCEPT !.criteria = c]
    /\ passed' = passed \cup {h \in (Both(c) \ Both(search.criteria)) \cap active :
                               Blind(h) \/ created[h] <= search.last}
    /\ UNCHANGED <<now, created, active, run, told>>

\* DELETE /saved-searches/:id
Delete ==
    /\ search.state = "saved"
    /\ search' = [search EXCEPT !.state = "gone"]
    /\ UNCHANGED <<now, created, active, run, told, passed>>

Becomes(r, state) == run' = [run EXCEPT ![r] = state]

\* The cron route reads the searches with their criteria, or the user's route reads
\* its own.
Find(r, step) ==
    /\ run[r].step = "idle" /\ search.state = "saved"
    /\ Becomes(r, [step |-> step, last |-> search.last, found |-> search.criteria[step]])
    /\ UNCHANGED <<now, created, active, search, told, passed>>

\* The active ones added since lastRunAt; none, and the search is passed over.
Alert(r) ==
    LET new == {h \in run[r].found \cap active : created[h] > run[r].last} IN
    /\ run[r].step = "alert"
    /\ Becomes(r, IF new = {} THEN Idle ELSE [run[r] EXCEPT !.step = "send", !.found = new])
    /\ UNCHANGED <<now, created, active, search, told, passed>>

\* sendEmail takes the mail, or throws and the search keeps its time; without an API
\* key it skips the mail and says so, to a caller that stamps the search all the same.
Send(r, outcome) ==
    /\ run[r].step = "send"
    /\ told' = IF outcome = "taken" THEN told \cup run[r].found ELSE told
    /\ passed' = IF outcome = "skipped" THEN passed \cup run[r].found ELSE passed
    /\ Becomes(r, IF outcome = "refused" THEN Idle ELSE [run[r] EXCEPT !.step = "write"])
    /\ UNCHANGED <<now, created, active, search>>

\* POST /:id/run counts all that match, whenever they were added.
Count(r) ==
    LET found == {h \in run[r].found : created[h] # 0} IN
    /\ run[r].step = "count"
    /\ Becomes(r, [run[r] EXCEPT !.step = "write", !.found = found])
    /\ told' = told \cup found
    /\ UNCHANGED <<now, created, active, search, passed>>

\* lastRunAt becomes the present time; a search deleted since fails the write.
Stamp(r) ==
    /\ run[r].step = "write"
    /\ search' = IF search.state = "saved" THEN [search EXCEPT !.last = now] ELSE search
    /\ Becomes(r, Idle)
    /\ UNCHANGED <<now, created, active, told, passed>>

\* A query fails, or the process stops.
Fail(r) ==
    /\ run[r].step # "idle"
    /\ Becomes(r, Idle)
    /\ UNCHANGED <<now, created, active, search, told, passed>>

Next ==
    \/ Tick \/ Delete
    \/ \E c \in Criteria : Save(c) \/ Change(c)
    \/ \E h \in Home : Activate(h) \/ \E b \in BOOLEAN : AddHome(h, b)
    \/ \E r \in Run :
          \/ Alert(r) \/ Count(r) \/ Stamp(r) \/ Fail(r)
          \/ \E step \in {"alert", "count"} : Find(r, step)
          \/ \E outcome \in {"taken", "skipped", "refused"} : Send(r, outcome)

Spec == Init /\ [][Next]_vars

-----------------------------------------------------------------------------

\* A property that both readings of the criteria find and that is active has been
\* told of, or is newer than lastRunAt and will be.  The code passes over those that
\* come to match, by being added, by their listing or by a change of the criteria, with
\* a date lastRunAt is not before or where a run under way does not count them, and
\* those of a mail that was skipped.
NothingIsMissed ==
    \A h \in Both(search.criteria) \cap active :
        search.state = "saved" => h \in told \cup passed \/ created[h] > search.last

-----------------------------------------------------------------------------

\* A home that a run does not count is told of, or passed over.
Leaves(q, h) == q.step # "idle" => h \in told \cup passed \cup q.found

\* The inductive invariant: no run counts from later than lastRunAt, and one that is
\* going to stamp leaves nothing to step over.
IInv ==
    /\ TypeOK /\ NothingIsMissed
    /\ search.last <= now
    /\ \A h \in Home : created[h] <= now
    /\ \A h \in active : created[h] # 0
    /\ search.state = "none" => search.last = 0 /\ \A r \in Run : run[r].step = "idle"
    /\ \A r \in Run : /\ run[r].step = "alert" => run[r].last <= search.last
                      /\ run[r].step = "write" => run[r].found \subseteq told \cup passed
    /\ search.state = "saved" =>
          \A r \in Run, h \in Both(search.criteria) \cap active : Leaves(run[r], h)

\* What the constants have to be.
Bounds == Criteria \subseteq Matches /\ MaxTime \in Nat \ {0}

=============================================================================
