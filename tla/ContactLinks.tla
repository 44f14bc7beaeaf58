----------------------------- MODULE ContactLinks -----------------------------
(***************************************************************************)
(* Contacts, the submissions of the public contact form, and the portal    *)
(* users both belong to (contactService, portalBridgeService, the link     *)
(* routes of agentContacts).  A submission finds or makes the contact of   *)
(* its address; an address and a user belong to one contact at most, which *)
(* the database enforces; automatic links read, look and then write by id. *)
(***************************************************************************)
EXTENDS Naturals, FiniteSets

CONSTANTS
    Contact,      \* ids of contacts
    Email,        \* normalized addresses
    UserEmail,    \* portal user -> address; users of two portals may share one
    Submission, Request,
    MaxRequests   \* bound on the requests of agents

VARIABLES
    contact,      \* contact -> [email, user]; NoContact before it is made, Gone after
    submission,   \* submission -> [phase, email, of]
    req,          \* request -> [op, of, user]: a link request or an automatic link
    lost,         \* history: submissions that met a race or a fault
    raced,        \* history: contacts linked, or given a user, while another link of
                  \* theirs was on its way
    requests

vars == <<contact, submission, req, lost, raced, requests>>

None == "none"
NoContact == [email |-> "absent", user |-> None]
Gone == [email |-> "gone", user |-> None]
User == DOMAIN UserEmail
Live == {c \in Contact : contact[c] \notin {NoContact, Gone}}

Phases == {"none", "sent", "make", "found", "linked", "done"}
Idle == [op |-> "idle", of |-> None, user |-> None]

TypeOK ==
    /\ contact \in [Contact -> [email : Email \cup {"absent", "gone", None}, user : User \cup {None}]]
    /\ submission \in [Submission -> [phase : Phases, email : Email \cup {None},
                                      of : Contact \cup {None}]]
    /\ req \in [Request -> [op : {"idle", "look", "write"}, of : Contact \cup {None},
                            user : User \cup {None}]]
    /\ lost \subseteq Submission /\ raced \subseteq Contact /\ requests \in 0..MaxRequests

Init ==
    /\ contact = [c \in Contact |-> NoContact]
    /\ submission = [s \in Submission |-> [phase |-> "none", email |-> None, of |-> None]]
    /\ req = [r \in Request |-> Idle]
    /\ lost = {} /\ raced = {} /\ requests = 0

\* The unique indexes on the address and on the user of an account's contacts.
EmailFree(c, e) == e = None \/ \A d \in Live \ {c} : contact[d].email # e
UserFree(c, u) == u = None \/ \A d \in Live \ {c} : contact[d].user # u

Asked == requests < MaxRequests /\ requests' = requests + 1

-----------------------------------------------------------------------------

\* createContact; an address that is taken fails.  The automatic link runs on.
CreateContact(c, e, r) ==
    /\ Asked /\ contact[c] = NoContact /\ EmailFree(c, e) /\ req[r].op = "idle"
    /\ contact' = [contact EXCEPT ![c] = [email |-> e, user |-> None]]
    /\ req' = [req EXCEPT ![r] = IF e = None THEN Idle ELSE [op |-> "look", of |-> c, user |-> None]]
    /\ UNCHANGED <<submission, lost, raced>>

\* updateContact writes whatever columns the body of the request names, the address
\* and the user among them, and looks at no link that is on its way.
UpdateContact(c, e, u) ==
    /\ Asked /\ c \in Live /\ EmailFree(c, e) /\ UserFree(c, u)
    /\ contact' = [contact EXCEPT ![c] = [email |-> e, user |-> u]]
    /\ raced' = IF u # contact[c].user /\ \E q \in Request : req[q].op = "write" /\ req[q].of = c
                THEN raced \cup {c} ELSE raced
    /\ UNCHANGED <<submission, req, lost>>

\* deleteContact: its submissions lose their contact.
DeleteContact(c) ==
    /\ Asked /\ c \in Live
    /\ contact' = [contact EXCEPT ![c] = Gone]
    /\ LET attached == {s \in Submission : /\ submission[s].of = c
                                           /\ submission[s].phase \in {"linked", "done"}}
       IN /\ lost' = lost \cup attached
          /\ submission' = [s \in Submission |->
                IF s \in attached THEN [submission[s] EXCEPT !.of = None] ELSE submission[s]]
    /\ UNCHANGED <<req, raced>>

\* A contact linked to another user is left alone.
MayLink(c, u) == contact[c].user \in {None, u}

\* PUT /:id/link: the contact and the user are read.
LinkLook(c, u, r) ==
    /\ Asked /\ c \in Live /\ MayLink(c, u) /\ req[r].op = "idle"
    /\ req' = [req EXCEPT ![r] = [op |-> "write", of |-> c, user |-> u]]
    /\ UNCHANGED <<contact, submission, lost, raced>>

\* tryLinkContactToUser: the contact is read, then one of the users with its
\* address; there may be none.
AutoLook(r) ==
    /\ req[r].op = "look"
    /\ LET c == req[r].of IN
       IF c \in Live /\ contact[c].email # None /\ contact[c].user = None
          /\ \E u \in User : UserEmail[u] = contact[c].email
       THEN \E u \in {v \in User : UserEmail[v] = contact[c].email} :
               req' = [req EXCEPT ![r] = [op |-> "write", of |-> c, user |-> u]]
       ELSE req' = [req EXCEPT ![r] = Idle]
    /\ UNCHANGED <<contact, submission, lost, raced, requests>>

\* Either link is written by id, whatever has happened to the contact since; a
\* user another contact has, and a contact that is gone, fail.
LinkWrite(r) ==
    /\ req[r].op = "write"
    /\ LET c == req[r].of u == req[r].user IN
       /\ contact' = IF c \in Live /\ UserFree(c, u) THEN [contact EXCEPT ![c].user = u] ELSE contact
       /\ raced' = IF \E q \in Request \ {r} : req[q].op = "write" /\ req[q].of = c
                   THEN raced \cup {c} ELSE raced
    /\ req' = [req EXCEPT ![r] = Idle]
    /\ UNCHANGED <<submission, lost, requests>>

\* DELETE /:id/link
Unlink(c) ==
    /\ Asked /\ c \in Live /\ contact[c].user # None
    /\ contact' = [contact EXCEPT ![c].user = None]
    /\ UNCHANGED <<submission, req, lost, raced>>

-----------------------------------------------------------------------------

\* POST /api/contact stores the submission and answers.
Submit(s, e) ==
    /\ submission[s].phase = "none"
    /\ submission' = [submission EXCEPT ![s] = [phase |-> "sent", email |-> e, of |-> None]]
    /\ UNCHANGED <<contact, req, lost, raced, requests>>

\* processContactSubmission looks for the contact of the address.
Find(s) ==
    /\ submission[s].phase = "sent"
    /\ \/ \E c \in Live : /\ contact[c].email = submission[s].email
                          /\ submission' = [submission EXCEPT ![s].phase = "found", ![s].of = c]
       \/ /\ \A c \in Live : contact[c].email # submission[s].email
          /\ submission' = [submission EXCEPT ![s].phase = "make"]
    /\ UNCHANGED <<contact, req, lost, raced, requests>>

\* The contact is made; when the address was taken since, the submission is
\* given up, which is only logged.
Make(s, c) ==
    /\ submission[s].phase = "make" /\ contact[c] = NoContact
    /\ IF EmailFree(c, submission[s].email)
       THEN /\ contact' = [contact EXCEPT ![c] = [email |-> submission[s].email, user |-> None]]
            /\ submission' = [submission EXCEPT ![s].phase = "found", ![s].of = c]
            /\ UNCHANGED lost
       ELSE /\ submission' = [submission EXCEPT ![s].phase = "done"]
            /\ lost' = lost \cup {s}
            /\ UNCHANGED contact
    /\ UNCHANGED <<req, raced, requests>>

\* The submission gets its contact; one that is gone fails.
Attach(s) ==
    /\ submission[s].phase = "found"
    /\ IF submission[s].of \in Live
       THEN submission' = [submission EXCEPT ![s].phase = "linked"] /\ UNCHANGED lost
       ELSE /\ submission' = [submission EXCEPT ![s].phase = "done", ![s].of = None]
            /\ lost' = lost \cup {s}
    /\ UNCHANGED <<contact, req, raced, requests>>

\* The interaction is noted, and the automatic link runs, awaited.
Finish(s, r) ==
    /\ submission[s].phase = "linked" /\ req[r].op = "idle"
    /\ submission' = [submission EXCEPT ![s].phase = "done"]
    /\ req' = [req EXCEPT ![r] = IF submission[s].of = None \/ contact[submission[s].of].user # None
                                 THEN Idle ELSE [op |-> "look", of |-> submission[s].of, user |-> None]]
    /\ UNCHANGED <<contact, lost, raced, requests>>

\* No agent is set up for new contacts, a query fails, or the process stops.
GiveUp(s) ==
    /\ submission[s].phase \in {"sent", "make", "found"}
    /\ submission' = [submission EXCEPT ![s].phase = "done", ![s].of = None]
    /\ lost' = lost \cup {s}
    /\ UNCHANGED <<contact, req, raced, requests>>

Next ==
    \/ \E c \in Contact :
          \/ \E e \in Email \cup {None}, u \in User \cup {None} : UpdateContact(c, e, u)
          \/ \E e \in Email \cup {None}, r \in Request : CreateContact(c, e, r)
          \/ \E u \in User, r \in Request : LinkLook(c, u, r)
          \/ DeleteContact(c) \/ Unlink(c)
          \/ \E s \in Submission : Make(s, c)
    \/ \E r \in Request : AutoLook(r) \/ LinkWrite(r)
    \/ \E s \in Submission :
          \/ \E e \in Email : Submit(s, e)
          \/ Find(s) \/ Attach(s) \/ GiveUp(s)
          \/ \E r \in Request : Finish(s, r)

Spec == Init /\ [][Next]_vars

-----------------------------------------------------------------------------

\* A submission that has been dealt with has a contact, unless another request
\* made the contact of its address meanwhile, the contact went, or a query
\* failed: nothing takes such a submission up again.
SubmissionsLand ==
    \A s \in Submission : submission[s].phase = "done" /\ s \notin lost => submission[s].of \in Live

\* A contact passes from one portal user to another only where the agent's update of
\* it names the other, or where a link of it was on its way, read before the contact
\* had a user, while another link or an update gave it one.
LinkKept ==
    \A c \in Contact : /\ contact[c].user # None
                       /\ contact'[c].user \notin {None, contact[c].user}
                       => \/ c \in raced'
                          \/ \E e \in Email \cup {None} : UpdateContact(c, e, contact'[c].user)

-----------------------------------------------------------------------------

Record == [email : Email \cup {None}, user : User \cup {None}]

\* The inductive invariant: a submission has its contact from when it is linked
\* until the contact goes, and a link on its way finds the user it was read with,
\* or the contact is counted among the raced ones.
IInv ==
    /\ TypeOK
    /\ \A c \in Contact : contact[c] \in Record \/ contact[c] \in {NoContact, Gone}
    /\ \A s \in Submission :
          submission[s].phase \in {"linked", "done"} /\ s \notin lost => submission[s].of \in Live
    /\ \A r \in Request : req[r].op # "idle" => req[r].of \in Contact
    /\ \A r \in Request :
          req[r].op = "write" => /\ req[r].user \in User
                                 /\ \/ req[r].of \in raced
                                    \/ contact[req[r].of].user \in {None, req[r].user}

\* What the constants have to be: what stands for no contact is no address.
Bounds == "absent" \notin Email /\ "gone" \notin Email /\ MaxRequests \in Nat

=============================================================================
