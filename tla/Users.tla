------------------------------- MODULE Users -------------------------------
(***************************************************************************)
(* Sign-up, sign-in and the administration of users (routes/auth.ts,       *)
(* routes/portalAuth.ts, routes/users.ts, services/bootstrapAdmin.ts).     *)
(*                                                                         *)
(* One table holds agents (no portal) and the consumers of each portal.    *)
(* An address is unique within its space; a Google account is linked to    *)
(* one user.  A session is a signed copy of the user's row: it says what   *)
(* the row said when it was signed.  Handlers read, hash a password or     *)
(* call Google, and then write, so that others act in between.             *)
(***************************************************************************)
EXTENDS Integers, Sequences, FiniteSets

CONSTANTS
    Portal,         \* portals, all of the account that Owner owns
    Email,          \* addresses; a Google account is named by its address
    OwnerEmail,     \* the owner's
    Request,        \* calls of the API, numbered from 1
    MaxUsers,       \* bound on the rows ever made
    MaxResets       \* bound on the password links ever mailed

VARIABLES
    portal,         \* portal[p]: "active", "inactive" or "gone"
    user,           \* the rows, in the order of their making
    identity,       \* identity[e]: the user linked to a Google account, or 0
    session,        \* the sessions ever signed
    links,          \* number of password links mailed
    req             \* req[r]: what request r knows between two steps

vars == <<portal, user, identity, session, links, req>>

Agents == "agents"
Space == Portal \cup {Agents}
Role == {"USER", "AGENT", "ADMIN"}
Owner == 1
Secret == {"none", "old", "new"}

Row(e, s, role, secret) ==
    [live |-> TRUE, email |-> e, space |-> s, role |-> role, secret |-> secret, reset |-> 0]

\* A request that is not about an address.
NoEmail == ""

\* A request knows the portal and address it is about and the row it read.
Idle == [step |-> "idle", space |-> Agents, email |-> NoEmail, id |-> 0,
         row |-> Row(NoEmail, Agents, "USER", "none")]

Live == {u \in DOMAIN user : user[u].live}

\* Mutant: the agents' sign-in does not ask for portalId null.
Found_AnySpace(e, s) == {u \in Live : user[u].email = e /\ (s = Agents \/ user[u].space = s)}

\* The rows with an address in a space.
Found(e, s) == {u \in Live : user[u].email = e /\ user[u].space = s}

\* The unique indexes on (email) and on (portalId, email).
Unique(rows) ==
    \A u, v \in DOMAIN rows :
        (u # v /\ rows[u].live /\ rows[v].live)
            => <<rows[u].email, rows[u].space>> # <<rows[v].email, rows[v].space>>

\* signUserToken: the session that a call at space s signs for user u.
Signed(s, u, row) == [at |-> s, user |-> u, role |-> row.role, space |-> row.space]

-----------------------------------------------------------------------------

Init ==
    /\ portal \in [Portal -> {"active"}]
    /\ user = <<Row(OwnerEmail, Agents, "AGENT", "old")>>
    /\ identity = [e \in Email |-> 0]
    /\ session = {}
    /\ links = 0
    /\ req = [r \in Request |-> Idle]

\* Calls are numbered as they come in.
Free(r) == req[r].step = "idle" /\ \A q \in Request : q < r => req[q].step # "idle"

Answers(r, answer) == req' = [req EXCEPT ![r] = [Idle EXCEPT !.step = answer]]

\* A row is made if the indexes allow it; otherwise the request is refused (P2002).
Create(r, row) ==
    IF Unique(Append(user, row))
    THEN /\ user' = Append(user, row)
         /\ session' = session \cup {Signed(req[r].space, Len(user) + 1, row)}
         /\ Answers(r, "done")
    ELSE UNCHANGED <<user, session>> /\ Answers(r, "refused")

-----------------------------------------------------------------------------
(***************************************************************************)
(* Sign-up.                                                                *)
(***************************************************************************)

\* POST /auth/register-agent: account, user and membership in one transaction.
RegisterAgent(r, e) ==
    /\ Free(r)
    /\ Len(user) < MaxUsers
    /\ Create(r, Row(e, Agents, "AGENT", "old"))
    /\ UNCHANGED <<portal, identity, links>>

\* The consumer routes and the Google callback look their portal up first.
EnterPortal(r, p, e, step) ==
    /\ Free(r)
    /\ IF portal[p] = "active"
       THEN req' = [req EXCEPT ![r] = [Idle EXCEPT !.step = step, !.space = p, !.email = e]]
       ELSE Answers(r, "refused")
    /\ UNCHANGED <<portal, user, identity, session, links>>

\* POST /portals/:slug/auth/register: the row is made after the hash; a portal
\* deleted meanwhile fails the foreign key.
RegisterConsumer(r) ==
    /\ req[r].step = "register"
    /\ Len(user) < MaxUsers
    /\ IF portal[req[r].space] = "gone"
       THEN Answers(r, "refused") /\ UNCHANGED <<user, session>>
       ELSE Create(r, Row(req[r].email, req[r].space, "USER", "old"))
    /\ UNCHANGED <<portal, identity, links>>

-----------------------------------------------------------------------------
(***************************************************************************)
(* Sign-in with a password.                                                *)
(***************************************************************************)

\* The rows a sign-in at space s may find: a portal also lets in the owner of
\* its account.
Candidates(e, s) ==
    Found(e, s) \cup
    (IF s \in Portal THEN {u \in Live : u = Owner /\ user[u].email = e} ELSE {})

\* findFirst without an order takes any of them; the row is kept while the
\* password is compared.
FindUser(r, s, e) ==
    LET found == Candidates(e, s) IN
    IF \A u \in found : user[u].secret = "none"
    THEN Answers(r, "refused")
    ELSE \E u \in found :
            req' = [req EXCEPT ![r] = [step |-> "compare", space |-> s, email |-> e,
                                       id |-> u, row |-> user[u]]]

\* POST /auth/login, agent-space only.
LoginAgent(r, e) ==
    /\ Free(r)
    /\ FindUser(r, Agents, e)
    /\ UNCHANGED <<portal, user, identity, session, links>>

\* POST /portals/:slug/auth/login, after the portal was looked up.
LoginConsumer(r) ==
    /\ req[r].step = "login"
    /\ FindUser(r, req[r].space, req[r].email)
    /\ UNCHANGED <<portal, user, identity, session, links>>

\* bcrypt.compare; the session is signed from the row that was read.
Compare(r, secret) ==
    /\ req[r].step = "compare"
    /\ IF secret = req[r].row.secret
       THEN /\ session' = session \cup {Signed(req[r].space, req[r].id, req[r].row)}
            /\ Answers(r, "done")
       ELSE Answers(r, "refused") /\ UNCHANGED session
    /\ UNCHANGED <<portal, user, identity, links>>

\* POST /auth/refresh: the row as it is now; a deleted user is turned away.
Refresh(r, s) ==
    /\ Free(r)
    /\ IF s.user \in Live
       THEN /\ session' = session \cup {Signed(s.at, s.user, user[s.user])}
            /\ Answers(r, "done")
       ELSE Answers(r, "refused") /\ UNCHANGED session
    /\ UNCHANGED <<portal, user, identity, links>>

-----------------------------------------------------------------------------
(***************************************************************************)
(* Sign-in with Google (GET /auth/google/callback).                        *)
(***************************************************************************)

\* The linked user if it belongs to this space, else the user with the address,
\* else, at a portal, a new one.
GoogleFind(r) ==
    LET e == req[r].email
        s == req[r].space
        linked == {u \in Live : u = identity[e] /\ user[u].space = s}
        found == IF linked # {} THEN linked ELSE Found(e, s)
    IN
    /\ req[r].step = "google"
    /\ IF found = {}
       THEN IF s = Agents THEN Answers(r, "refused")
            ELSE req' = [req EXCEPT ![r].step = "create"]
       ELSE \E u \in found :
               req' = [req EXCEPT ![r].step = IF linked # {} THEN "update" ELSE "link", ![r].id = u]
    /\ UNCHANGED <<portal, user, identity, session, links>>

\* The agent flow starts without a portal.
GoogleAgent(r, e) ==
    /\ Free(r)
    /\ req' = [req EXCEPT ![r] = [Idle EXCEPT !.step = "google", !.email = e]]
    /\ UNCHANGED <<portal, user, identity, session, links>>

\* The link is made unless the Google account has one; the row is updated and
\* the session is signed from it as it is now.
GoogleUpdate(r) ==
    LET u == req[r].id
        e == req[r].email
    IN
    /\ req[r].step \in {"update", "link"}
    /\ IF u \in Live
       THEN /\ identity' = [identity EXCEPT ![e] =
                              IF @ = 0 /\ req[r].step = "link" THEN u ELSE @]
            /\ session' = session \cup {Signed(req[r].space, u, user[u])}
            /\ Answers(r, "done")
       ELSE Answers(r, "refused") /\ UNCHANGED <<identity, session>>
    /\ UNCHANGED <<portal, user, links>>

\* A new consumer and its link, in one transaction: a portal deleted meanwhile,
\* an address taken meanwhile or a link that exists rolls it back.
GoogleCreate(r) ==
    LET e == req[r].email IN
    /\ req[r].step = "create"
    /\ Len(user) < MaxUsers
    /\ IF portal[req[r].space] = "gone" \/ identity[e] # 0
       THEN Answers(r, "refused") /\ UNCHANGED <<user, identity, session>>
       ELSE /\ Create(r, Row(e, req[r].space, "USER", "none"))
            /\ identity' = IF user' = user THEN identity
                           ELSE [identity EXCEPT ![e] = Len(user')]
    /\ UNCHANGED <<portal, links>>

-----------------------------------------------------------------------------
(***************************************************************************)
(* Passwords, and the first administrator.                                 *)
(***************************************************************************)

\* POST /auth/forgot-password: a new link replaces the one before.
ForgotPassword(r, e) ==
    /\ Free(r)
    /\ links < MaxResets
    /\ \E u \in Found(e, Agents) :
          /\ user[u].secret # "none"
          /\ user' = [user EXCEPT ![u].reset = links + 1]
    /\ links' = links + 1
    /\ Answers(r, "done")
    /\ UNCHANGED <<portal, identity, session>>

\* POST /auth/reset-password: the row must hold the link; the password is
\* hashed before it is written.
CheckLink(r, u, link) ==
    /\ Free(r)
    /\ IF u \in Live /\ user[u].reset = link
       THEN req' = [req EXCEPT ![r] = [Idle EXCEPT !.step = "reset", !.id = u, !.row = user[u]]]
       ELSE Answers(r, "refused")
    /\ UNCHANGED <<portal, user, identity, session, links>>

ResetPassword(r) ==
    LET u == req[r].id IN
    /\ req[r].step = "reset"
    /\ IF u \in Live
       THEN /\ user' = [user EXCEPT ![u].secret = "new", ![u].reset = 0]
            /\ Answers(r, "done")
       ELSE Answers(r, "refused") /\ UNCHANGED user
    /\ UNCHANGED <<portal, identity, session, links>>

\* ensureBootstrapAdmin, at every start of a server: look, hash, create.
LookForAdmin(r, e) ==
    /\ Free(r)
    /\ IF \E u \in Live : user[u].role = "ADMIN"
       THEN Answers(r, "done")
       ELSE req' = [req EXCEPT ![r] = [Idle EXCEPT !.step = "boot", !.email = e]]
    /\ UNCHANGED <<portal, user, identity, session, links>>

BootstrapAdmin(r) ==
    LET rows == Append(user, Row(req[r].email, Agents, "ADMIN", "old")) IN
    /\ req[r].step = "boot"
    /\ Len(user) < MaxUsers
    /\ user' = IF Unique(rows) THEN rows ELSE user
    /\ Answers(r, "done")
    /\ UNCHANGED <<portal, identity, session, links>>

-----------------------------------------------------------------------------
(***************************************************************************)
(* Administration.  The role is the one the session was signed with.       *)
(***************************************************************************)

IsAdmin(r, s) == Free(r) /\ s.role = "ADMIN"

\* PUT /users/:id: the role, or the address if the indexes allow it.
UpdateUser(r, s, u, role, e) ==
    LET rows == [user EXCEPT ![u].role = role, ![u].email = e] IN
    /\ IsAdmin(r, s)
    /\ u \in Live
    /\ IF Unique(rows) THEN user' = rows /\ Answers(r, "done")
       ELSE Answers(r, "refused") /\ UNCHANGED user
    /\ UNCHANGED <<portal, identity, session, links>>

\* DELETE /users/:id: not oneself; the links go with the row.
DeleteUser(r, s, u) ==
    /\ IsAdmin(r, s)
    /\ u \in Live /\ u # s.user
    /\ user' = [user EXCEPT ![u].live = FALSE]
    /\ identity' = [e \in Email |-> IF identity[e] = u THEN 0 ELSE identity[e]]
    /\ Answers(r, "done")
    /\ UNCHANGED <<portal, session, links>>

\* The owner switches a portal on and off.
SwitchPortal(p) ==
    /\ portal[p] # "gone"
    /\ portal' = [portal EXCEPT ![p] = IF @ = "active" THEN "inactive" ELSE "active"]
    /\ UNCHANGED <<user, identity, session, links, req>>

\* Deleting a portal sets its consumers' portal to null.  They join the agents,
\* unless an agent has the address of one: then nothing is deleted.
DeletePortal(p) ==
    LET rows == [u \in DOMAIN user |->
                    IF user[u].live /\ user[u].space = p THEN [user[u] EXCEPT !.space = Agents]
                    ELSE user[u]]
    IN
    /\ portal[p] # "gone"
    /\ Unique(rows)
    /\ portal' = [portal EXCEPT ![p] = "gone"]
    /\ user' = rows
    /\ UNCHANGED <<identity, session, links, req>>

-----------------------------------------------------------------------------

Next ==
    \/ \E r \in Request, e \in Email :
          RegisterAgent(r, e) \/ LoginAgent(r, e) \/ GoogleAgent(r, e)
          \/ ForgotPassword(r, e) \/ LookForAdmin(r, e)
    \/ \E r \in Request, p \in Portal, e \in Email, step \in {"register", "login", "google"} :
          EnterPortal(r, p, e, step)
    \/ \E r \in Request, secret \in {"old", "new"} : Compare(r, secret)
    \/ \E r \in Request :
          \/ RegisterConsumer(r) \/ LoginConsumer(r)
          \/ GoogleFind(r) \/ GoogleUpdate(r) \/ GoogleCreate(r)
          \/ ResetPassword(r) \/ BootstrapAdmin(r)
    \/ \E r \in Request, u \in DOMAIN user, link \in 1..links : CheckLink(r, u, link)
    \/ \E r \in Request, s \in session :
          \/ Refresh(r, s)
          \/ \E u \in DOMAIN user :
                \/ DeleteUser(r, s, u)
                \/ \E role \in Role, e \in Email : UpdateUser(r, s, u, role, e)
    \/ \E p \in Portal : SwitchPortal(p) \/ DeletePortal(p)

Spec == Init /\ [][Next]_vars

-----------------------------------------------------------------------------

Rows == [live : BOOLEAN, email : Email \cup {NoEmail}, space : Space, role : Role,
         secret : Secret, reset : 0..MaxResets]

TypeOK ==
    /\ portal \in [Portal -> {"active", "inactive", "gone"}]
    /\ Len(user) \in 1..MaxUsers
    /\ \A u \in DOMAIN user : user[u] \in Rows
    /\ identity \in [Email -> 0..Len(user)]
    /\ session \subseteq [at : Space, user : DOMAIN user, role : Role, space : Space]
    /\ links \in 0..MaxResets
    /\ \A r \in Request :
          /\ req[r].step \in {"idle", "done", "refused", "register", "login", "google", "compare",
                              "update", "link", "create", "reset", "boot"}
          /\ req[r].space \in Space /\ req[r].email \in Email \cup {NoEmail}
          /\ req[r].id \in 0..Len(user) /\ req[r].row \in Rows

\* A session is for the space where it was asked for: the agents' sign-in
\* never opens one for a portal's consumer, and a portal opens one only for its
\* own consumers and its owner, unless the portal has been deleted since.
SessionInScope ==
    \A s \in session :
        \/ s.space = s.at
        \/ s.at \in Portal /\ (s.user = Owner \/ portal[s.at] = "gone")

-----------------------------------------------------------------------------

\* What a session opened at a space may say of its user.
Scope(at, u, space) ==
    \/ space = at
    \/ at \in Portal /\ (u = Owner \/ portal[at] = "gone")

Call == [step : {"idle", "done", "refused", "register", "login", "google", "compare",
                 "update", "link", "create", "reset", "boot"},
         space : Space, email : Email \cup {NoEmail}, id : 0..Len(user), row : Rows]

\* A user whose row, as it is now, may be signed at a space.
Signable(at, u) == u \in DOMAIN user /\ Scope(at, u, user[u].space)

\* What a request knows is in scope.
Fit(q) ==
    /\ q.step = "idle" => q.space = Agents
    /\ q.step \in {"compare", "update", "link"} => Signable(q.space, q.id)
    /\ q.step = "compare" => Scope(q.space, q.id, q.row.space)
    /\ q.step = "reset" => q.id \in DOMAIN user

\* The inductive invariant: a session is in scope by what it says and by what its
\* user's row says now, which a refresh would sign; so is what a request is about
\* to sign, by the row it read and by that row as it is now.
IInv ==
    /\ TypeOK /\ user \in Seq(Rows) /\ req \in [Request -> Call]
    /\ \A s \in session : Scope(s.at, s.user, s.space) /\ Signable(s.at, s.user)
    /\ \A r \in Request : Fit(req[r])

\* What the constants have to be.
Bounds == OwnerEmail \in Email /\ MaxUsers \in Nat \ {0} /\ MaxResets \in Nat

=============================================================================
