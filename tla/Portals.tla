------------------------------ MODULE Portals ------------------------------
(***************************************************************************)
(* A portal, its custom domains and its featured listings                  *)
(* (routes/agentPortals.ts, services/agentPortalsService.ts,               *)
(* portalDomainService.ts, portalReadinessService.ts, the suspension in    *)
(* routes/adminAccounts.ts and packages/db/scripts/ensurePortal.ts).       *)
(*                                                                         *)
(* Every handler reads the portal, checks, and writes by id.  The two      *)
(* replacing writes, of the canonical domain and of the featured list, are *)
(* transactions of two statements under READ COMMITTED: what the first     *)
(* statement takes away is what was committed when it ran.                 *)
(***************************************************************************)
EXTENDS Integers, FiniteSets

CONSTANTS
    Portal,         \* rows a portal may be made in
    Slug,           \* slugs; Site is the one compiled into the deployment
    Site,
    Domain,         \* rows a domain may be made in
    HostOf,         \* the hostname of each of them
    Listing,        \* listings that may be featured
    Patch,          \* bodies of an update: functions from some Fields to BOOLEAN
    Request         \* calls of the API, numbered from 1

VARIABLES
    portal,         \* portal[p]: the row, or Missing
    published,      \* a published collection of the account matches listings
    domain,         \* domain[d]: the row, or Missing
    dns,            \* domains whose TXT record the owner added to the DNS
    featured,       \* featured[p]: the rows, <<listing, position>>
    noticed,        \* portals whose launch was announced
    raced,          \* two replacing transactions have overlapped
    req             \* req[r]: what request r knows between two steps

vars == <<portal, published, domain, dns, featured, noticed, raced, req>>
rows == <<portal, domain, featured, noticed, raced>>
world == <<published, dns>>

\* What an owner can write that the checks look at: isActive, agentEmail and
\* the pair brokerageName, brokeragePhone.
Fields == {"active", "email", "brokerage"}

\* A row that was not made yet, or was deleted: its id never comes back.
Missing == [slug |-> "missing"]
Gone == [slug |-> "gone"]

Row(slug, f) == [slug |-> slug, fields |-> f, routed |-> FALSE, suspended |-> FALSE]

Blank == [f \in Fields |-> FALSE]

\* What a body leaves out stays as it was.
Merged(patch, fields) == [f \in Fields |-> IF f \in DOMAIN patch THEN patch[f] ELSE fields[f]]

Idle == [step |-> "idle", portal |-> 0, slug |-> "none", fields |-> Blank, patch |-> Blank,
         domain |-> 0, seen |-> {}, list |-> <<>>]

Exists(p) == portal[p] \notin {Missing, Gone}
Registered(d) == domain[d] \notin {Missing, Gone}
Taken(slug) == \E p \in Portal : portal[p].slug = slug

-----------------------------------------------------------------------------

\* Domains that were proved for a portal; the first of them may be canonical.
Proved(p, proved, first) ==
    [d \in Domain |->
        IF d \in proved
        THEN [portal |-> p, status |-> "ACTIVE", canonical |-> first /\ \A c \in proved : c >= d]
        ELSE Missing]

\* Empty, or as a deployment leaves it and its owner has used it: the portal of
\* the configuration, with domains that were proved, of which one may be canonical.
Start ==
    \/ /\ portal = [p \in Portal |-> Missing]
       /\ domain = [d \in Domain |-> Missing]
    \/ \E p \in Portal, proved \in SUBSET Domain, first \in BOOLEAN :
          /\ \A q \in Portal : q >= p
          /\ \A c, d \in proved : HostOf[c] = HostOf[d] => c = d
          /\ portal = [q \in Portal |-> IF q = p THEN Row(Site, [f \in Fields |-> TRUE]) ELSE Missing]
          /\ domain = Proved(p, proved, first)

Init ==
    /\ Start
    /\ published = TRUE
    /\ dns \in SUBSET Domain
    /\ featured = [p \in Portal |-> {}]
    /\ noticed = {}
    /\ raced = FALSE
    /\ req = [r \in Request |-> Idle]

\* Calls are numbered as they come in.
Free(r) == req[r].step = "idle" /\ \A q \in Request : q < r => req[q].step # "idle"

Answers(r, answer) == req' = [req EXCEPT ![r] = [Idle EXCEPT !.step = answer]]
Continues(r, state) == req' = [req EXCEPT ![r] = state]

-----------------------------------------------------------------------------
(***************************************************************************)
(* The portal.                                                             *)
(***************************************************************************)

\* getPortalReadiness, for a portal that shows listings of the database: no gate
\* is blocked.  Whether contact routing was tested is not one of the gates.
Ready(f) == f["email"] /\ f["brokerage"] /\ published

\* POST /: the slug must be free and an active portal needs its agent's email.
\* validateActivation looks at readiness only for a portal that has an id.
CreatePortal(r, slug, patch) ==
    LET f == Merged(patch, Blank) IN
    /\ Free(r)
    /\ IF Taken(slug) \/ (f["active"] /\ ~f["email"])
       THEN Answers(r, "refused")
       ELSE Continues(r, [Idle EXCEPT !.step = "create", !.slug = slug, !.fields = f])
    /\ UNCHANGED <<rows, world>>

StorePortal(r) ==
    LET s == req[r].slug IN
    /\ req[r].step = "create"
    /\ IF Taken(s)
       THEN Answers(r, "refused") /\ UNCHANGED <<portal, noticed>>
       ELSE \E p \in Portal :
               /\ portal[p] = Missing
               /\ \A q \in Portal : q < p => portal[q] # Missing
               /\ portal' = [portal EXCEPT ![p] = Row(s, req[r].fields)]
               /\ noticed' = IF req[r].fields["active"] THEN noticed \cup {p} ELSE noticed
               /\ Answers(r, "done")
    /\ UNCHANGED <<domain, featured, raced, world>>

\* PUT and PATCH /:id: checkOwnership reads the row; what would be the outcome
\* must be ready if the update activates the portal.
UpdatePortal(r, p, patch) ==
    LET owned == portal[p].fields
        merged == Merged(patch, owned)
    IN
    /\ Free(r) /\ Exists(p)
    /\ IF "active" \in DOMAIN patch /\ merged["active"] /\ ~Ready(merged)
       THEN Answers(r, "refused")
       ELSE Continues(r, [Idle EXCEPT !.step = "update", !.portal = p,
                                      !.fields = owned, !.patch = patch])
    /\ UNCHANGED <<rows, world>>

\* The update writes the fields of the body and no others.
StoreUpdate(r) ==
    LET p == req[r].portal IN
    /\ req[r].step = "update"
    /\ IF Exists(p)
       THEN /\ portal' = [portal EXCEPT ![p].fields = Merged(req[r].patch, portal[p].fields)]
            /\ noticed' = IF portal'[p].fields["active"] /\ ~req[r].fields["active"]
                         THEN noticed \cup {p} ELSE noticed
            /\ Answers(r, "done")
       ELSE Answers(r, "refused") /\ UNCHANGED <<portal, noticed>>
    /\ UNCHANGED <<domain, featured, raced, world>>

\* DELETE /:id takes the domains and the featured rows with it.
DeletePortal(r, p) ==
    /\ Free(r) /\ Exists(p)
    /\ portal' = [portal EXCEPT ![p] = Gone]
    /\ domain' = [d \in Domain |->
                    IF Registered(d) /\ domain[d].portal = p THEN Gone ELSE domain[d]]
    /\ featured' = [featured EXCEPT ![p] = {}]
    /\ Answers(r, "done")
    /\ UNCHANGED <<noticed, raced, world>>

\* POST /:id/test-inquiry: the provider takes the mail, then the row is stamped.
TestInquiry(r, p) ==
    /\ Free(r) /\ Exists(p)
    /\ IF portal[p].fields["email"]
       THEN Continues(r, [Idle EXCEPT !.step = "test", !.portal = p])
       ELSE Answers(r, "refused")
    /\ UNCHANGED <<rows, world>>

StampRouting(r, taken) ==
    LET p == req[r].portal IN
    /\ req[r].step = "test"
    /\ IF taken /\ Exists(p)
       THEN portal' = [portal EXCEPT ![p].routed = TRUE] /\ Answers(r, "done")
       ELSE Answers(r, "refused") /\ UNCHANGED portal
    /\ UNCHANGED <<domain, featured, noticed, raced, world>>

\* PATCH /admin/accounts/:accountId/portals/:portalId/suspend.
Suspend(r, p, suspended) ==
    /\ Free(r) /\ Exists(p)
    /\ portal' = [portal EXCEPT ![p].suspended = suspended]
    /\ Answers(r, "done")
    /\ UNCHANGED <<domain, featured, noticed, raced, world>>

\* ensurePortal, at each deployment: nothing if the slug or any portal exists.
LookForPortal(r) ==
    /\ Free(r)
    /\ IF \E p \in Portal : Exists(p)
       THEN Answers(r, "done")
       ELSE Continues(r, [Idle EXCEPT !.step = "ensure", !.slug = Site])
    /\ UNCHANGED <<rows, world>>

\* An active portal with the brokerage of the configuration, which may leave
\* out the email; another deployment may have made it first.
EnsurePortal(r, email) ==
    LET f == [x \in Fields |-> x # "email" \/ email] IN
    /\ req[r].step = "ensure"
    /\ IF Taken(Site)
       THEN UNCHANGED portal
       ELSE \E p \in Portal :
               /\ portal[p] = Missing
               /\ \A q \in Portal : q < p => portal[q] # Missing
               /\ portal' = [portal EXCEPT ![p] = Row(Site, f)]
    /\ Answers(r, "done")
    /\ UNCHANGED <<domain, featured, noticed, raced, world>>

-----------------------------------------------------------------------------
(***************************************************************************)
(* Custom domains.                                                         *)
(***************************************************************************)

\* createDomain: a hostname is registered once, for whatever portal.
CreateDomain(r, p, d) ==
    /\ Free(r) /\ Exists(p)
    /\ domain[d] = Missing
    /\ IF \A c \in Domain : Registered(c) => HostOf[c] # HostOf[d]
       THEN /\ domain' = [domain EXCEPT ![d] =
                            [portal |-> p, status |-> "PENDING", canonical |-> FALSE]]
            /\ Answers(r, "done")
       ELSE Answers(r, "refused") /\ UNCHANGED domain
    /\ UNCHANGED <<portal, featured, noticed, raced, world>>

\* verifyDomain: an active domain is returned as it is; else the DNS is asked,
\* and the row is updated by id.
VerifyDomain(r, d) ==
    /\ Free(r) /\ Registered(d)
    /\ IF domain[d].status = "ACTIVE" THEN Answers(r, "done")
       ELSE Continues(r, [Idle EXCEPT !.step = "verify", !.domain = d])
    /\ UNCHANGED <<rows, world>>

ResolveTxt(r) ==
    /\ req[r].step = "verify"
    /\ IF req[r].domain \in dns THEN Continues(r, [req[r] EXCEPT !.step = "proved"])
       ELSE Answers(r, "refused")
    /\ UNCHANGED <<rows, world>>

ActivateDomain(r) ==
    LET d == req[r].domain IN
    /\ req[r].step = "proved"
    /\ IF Registered(d)
       THEN domain' = [domain EXCEPT ![d].status = "ACTIVE"] /\ Answers(r, "done")
       ELSE Answers(r, "refused") /\ UNCHANGED domain
    /\ UNCHANGED <<portal, featured, noticed, raced, world>>

Canonical(p) == {d \in Domain : Registered(d) /\ domain[d].portal = p /\ domain[d].canonical}

\* setCanonicalDomain: only an active domain.
ChooseCanonical(r, d) ==
    /\ Free(r) /\ Registered(d)
    /\ IF domain[d].status = "ACTIVE"
       THEN Continues(r, [Idle EXCEPT !.step = "unset", !.domain = d, !.portal = domain[d].portal])
       ELSE Answers(r, "refused")
    /\ UNCHANGED <<rows, world>>

Replacing(q) == req[q].step \in {"set", "insert"}

\* The first statement of a replacing transaction: what it takes away.
Begins(r, step, seen) ==
    /\ Continues(r, [req[r] EXCEPT !.step = step, !.seen = seen])
    /\ raced' = (raced \/ \E q \in Request \ {r} : Replacing(q))

UnsetCanonical(r) ==
    /\ req[r].step = "unset"
    /\ Begins(r, "set", Canonical(req[r].portal))
    /\ UNCHANGED <<portal, domain, featured, noticed, world>>

\* The second statement and the commit; a domain removed meanwhile rolls back.
SetCanonical(r) ==
    LET d == req[r].domain IN
    /\ req[r].step = "set"
    /\ IF Registered(d)
       THEN /\ domain' = [c \in Domain |->
                            IF c = d THEN [domain[c] EXCEPT !.canonical = TRUE]
                            ELSE IF c \in req[r].seen /\ Registered(c)
                                 THEN [domain[c] EXCEPT !.canonical = FALSE] ELSE domain[c]]
            /\ Answers(r, "done")
       ELSE Answers(r, "refused") /\ UNCHANGED domain
    /\ UNCHANGED <<portal, featured, noticed, raced, world>>

\* removeDomain.
RemoveDomain(r, d) ==
    /\ Free(r) /\ Registered(d)
    /\ domain' = [domain EXCEPT ![d] = Gone]
    /\ Answers(r, "done")
    /\ UNCHANGED <<portal, featured, noticed, raced, world>>

-----------------------------------------------------------------------------
(***************************************************************************)
(* PUT /:id/featured-listings.                                             *)
(***************************************************************************)

RowsOf(list) == {<<list[i], i>> : i \in DOMAIN list}

ReplaceFeatured(r, p, list) ==
    /\ Free(r) /\ Exists(p)
    /\ Continues(r, [Idle EXCEPT !.step = "clear", !.portal = p, !.list = list])
    /\ UNCHANGED <<rows, world>>

ClearFeatured(r) ==
    /\ req[r].step = "clear"
    /\ Begins(r, "insert", featured[req[r].portal])
    /\ UNCHANGED <<portal, domain, featured, noticed, world>>

\* The new rows and the commit; a listing is featured once, whichever list
\* brought it, and a portal deleted meanwhile fails the foreign key.
InsertFeatured(r) ==
    LET p == req[r].portal
        left == featured[p] \ req[r].seen
        new == RowsOf(req[r].list)
    IN
    /\ req[r].step = "insert"
    /\ IF Exists(p) /\ \A x \in left, y \in new : x[1] # y[1]
       THEN featured' = [featured EXCEPT ![p] = left \cup new] /\ Answers(r, "done")
       ELSE Answers(r, "refused") /\ UNCHANGED featured
    /\ UNCHANGED <<portal, domain, noticed, raced, world>>

-----------------------------------------------------------------------------

\* The owner publishes collections and takes them back; listings come and go.
Environment ==
    /\ published' = ~published
    /\ UNCHANGED <<rows, dns, req>>

Lists == {<<>>} \cup {<<x>> : x \in Listing} \cup {l \in Listing \X Listing : l[1] # l[2]}

Next ==
    \/ \E r \in Request, patch \in Patch :
          \/ \E slug \in Slug : CreatePortal(r, slug, patch)
          \/ \E p \in Portal : UpdatePortal(r, p, patch)
    \/ \E r \in Request, p \in Portal :
          \/ DeletePortal(r, p) \/ TestInquiry(r, p)
          \/ \E b \in BOOLEAN : Suspend(r, p, b)
          \/ \E d \in Domain : CreateDomain(r, p, d)
          \/ \E list \in Lists : ReplaceFeatured(r, p, list)
    \/ \E r \in Request, d \in Domain :
          VerifyDomain(r, d) \/ ChooseCanonical(r, d) \/ RemoveDomain(r, d)
    \/ \E r \in Request, b \in BOOLEAN : StampRouting(r, b) \/ EnsurePortal(r, b)
    \/ \E r \in Request :
          \/ StorePortal(r) \/ StoreUpdate(r) \/ LookForPortal(r)
          \/ ResolveTxt(r) \/ ActivateDomain(r)
          \/ UnsetCanonical(r) \/ SetCanonical(r) \/ ClearFeatured(r) \/ InsertFeatured(r)
    \/ Environment

Spec == Init /\ [][Next]_vars

-----------------------------------------------------------------------------

PortalRow == [slug : Slug, fields : [Fields -> BOOLEAN], routed : BOOLEAN, suspended : BOOLEAN]
DomainRow == [portal : Portal, status : {"PENDING", "ACTIVE"}, canonical : BOOLEAN]

TypeOK ==
    /\ portal \in [Portal -> PortalRow \cup {Missing, Gone}]
    /\ domain \in [Domain -> DomainRow \cup {Missing, Gone}]
    /\ published \in BOOLEAN /\ raced \in BOOLEAN
    /\ dns \subseteq Domain /\ noticed \subseteq Portal
    /\ \A p \in Portal : featured[p] \subseteq Listing \X {1, 2}
    /\ \A r \in Request : req[r].step \in
          {"idle", "done", "refused", "create", "update", "test", "ensure", "verify", "proved",
           "unset", "set", "clear", "insert"}

\* Unless two replacements overlapped, a portal has at most one canonical
\* domain, and its featured rows are one list: each position is taken once.
ReplacedWhole ==
    ~raced => \A p \in Portal :
                 /\ Cardinality(Canonical(p)) <= 1
                 /\ \A x, y \in featured[p] : x[2] = y[2] => x = y

\* A canonical domain is one that was proved: also when another request removed
\* it while it was chosen and a third registered its hostname again.
CanonicalIsActive ==
    \A p \in Portal, d \in Domain : d \in Canonical(p) => domain[d].status = "ACTIVE"

-----------------------------------------------------------------------------

Shape(q) == q = [step |-> q.step, portal |-> q.portal, slug |-> q.slug, fields |-> q.fields,
                 patch |-> q.patch, domain |-> q.domain, seen |-> q.seen, list |-> q.list]

\* The domain a request is about was there, and if it is one to be canonical, it is
\* still active if it is there at all; what a replacement saw is all there is.
Knows(q) ==
    /\ q.step \in {"verify", "proved", "unset", "set"} =>
          q.domain \in Domain /\ domain[q.domain] # Missing
    /\ q.step \in {"unset", "set"} /\ Registered(q.domain) =>
          domain[q.domain].status = "ACTIVE" /\ domain[q.domain].portal = q.portal
    /\ q.step \in {"clear", "insert"} => q.portal \in Portal /\ q.list \in Lists
    /\ q.step = "set" /\ ~raced => Canonical(q.portal) \subseteq q.seen
    /\ q.step = "insert" /\ ~raced => featured[q.portal] \subseteq q.seen

\* The inductive invariant.
IInv ==
    /\ domain \in [Domain -> DomainRow \cup {Missing, Gone}]
    /\ DOMAIN featured = Portal /\ DOMAIN req = Request /\ raced \in BOOLEAN
    /\ CanonicalIsActive
    /\ ~raced => /\ \A p \in Portal : \A c, d \in Canonical(p) : c = d
                 /\ \A p \in Portal : \A x, y \in featured[p] : x[2] = y[2] => x = y
                 /\ \A q, r \in Request : Replacing(q) /\ Replacing(r) => q = r
    /\ \A r \in Request : Shape(req[r]) /\ Knows(req[r])

\* What a request carries that is going to write a portal.
Carries(q) ==
    /\ q.step = "create" => q.slug \in Slug /\ q.fields \in [Fields -> BOOLEAN]
    /\ q.step = "update" => q.portal \in Portal /\ q.patch \in Patch
    /\ q.step = "test" => q.portal \in Portal

\* The types, for which it needs no more.
Typed == TypeOK /\ \A r \in Request : Carries(req[r])

\* What the constants have to be.
Bounds ==
    /\ Domain \subseteq Int /\ Site \in Slug
    /\ \A patch \in Patch : DOMAIN patch \subseteq Fields /\ \A f \in DOMAIN patch : patch[f] \in BOOLEAN
=============================================================================
