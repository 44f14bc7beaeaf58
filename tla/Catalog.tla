------------------------------- MODULE Catalog -------------------------------
(***************************************************************************)
(* What visitors are shown of the listings: the public search with its two *)
(* engines, the property pages, the portal's pages behind the readiness    *)
(* gates, and the collections a portal publishes.  An answer is a set of   *)
(* [of, listing]: a property and the listing it is shown with.  Pages,     *)
(* sort orders and the fields of a result are left out, and a query's      *)
(* conditions on the property itself (place, rooms, words) as well.        *)
(***************************************************************************)
EXTENDS Integers, FiniteSets

CONSTANTS
    Property,     \* ids of properties
    On,           \* listing -> the property it is on
    Profile,      \* what a listing may be: [active, idx, mls, board, price, date]
    Predicate,    \* what the collection may ask: [beds, price, any, exclude]
    Home,         \* property -> [beds, tags]
    Boards,       \* boards the portal is limited to, {} for no limit
    Query,        \* [min, max, status]; 0 for a bound that is not given
    MaxChanges    \* bound on the changes between answers

VARIABLES
    listing,      \* listing -> a profile
    index,        \* property -> the listing of its search document, or NoListing
    override,     \* property -> an owner's decision for the collection
    portal,       \* [active, suspended, published, predicate, approved, known]
    env,          \* [display, engine]: MLS_PUBLIC_DISPLAY_ENABLED, the search service
    answer,       \* the last answer: [surface, query, items]
    changes

vars == <<listing, index, override, portal, env, answer, changes>>

Listing == DOMAIN On
NoListing == [active |-> FALSE, idx |-> FALSE, mls |-> FALSE, board |-> "none", price |-> 0, date |-> 0]
None == [surface |-> "none", query |-> [min |-> 0, max |-> 0, status |-> "any"], items |-> {}]

-----------------------------------------------------------------------------
(* Which listings are public. *)

\* buildPublicListingWhere
Public(l) == l.active /\ l.idx /\ (env.display \/ ~l.mls)

\* A price that is not known lies in no range.
InRange(price, q) ==
    /\ q.min # 0 => price # 0 /\ price >= q.min
    /\ q.max # 0 => price # 0 /\ price <= q.max

\* Public listings are active, so that any other status asked for finds none.
Asked(l, q) == InRange(l.price, q) /\ q.status \in {"any", "active"}

OfProperty(p) == {i \in Listing : On[i] = p /\ listing[i] # NoListing}

\* The newest of some listings of a property, as a set of at most one answer.
Shown(p, ids) ==
    {[of |-> p, listing |-> listing[i]] :
        i \in {j \in ids : \A k \in ids : \/ listing[k].date < listing[j].date
                                          \/ listing[k].date = listing[j].date /\ k <= j}}

PublicOf(p) == {i \in OfProperty(p) : Public(listing[i])}

-----------------------------------------------------------------------------
(* Collections. *)

\* scalarNumber
InRule(value, rule) ==
    LET inRange == value # 0 /\ value >= rule.min /\ value <= rule.max
        open == rule.min = 0 /\ rule.max = 99
    IN \/ rule.nulls \in {"only", "include"} /\ value = 0
       \/ rule.nulls # "only" /\ (inRange \/ open)

Scoped(l, boards, exclude) ==
    (boards # {} => l.board \in boards) /\ (exclude => ~l.mls)

\* The predicate's groups about the property itself.
Groups(p, c) ==
    /\ c.any # {} => Home[p].tags \cap c.any # {}
    /\ Home[p].tags \cap c.exclude = {}
    /\ InRule(Home[p].beds, c.beds)

NoGroups(c) == c.any = {} /\ c.exclude = {} /\ c.beds.nulls = "none"

\* EXCLUDE is a veto; INCLUDE spares the groups, not the price.
Collected(p, c, eligible) ==
    /\ eligible
    /\ override[p] # "EXCLUDE"
    /\ NoGroups(c) \/ override[p] = "INCLUDE" \/ Groups(p, c)

\* compileCollectionPredicate
Compiled(p, c, boards, exclude, public) ==
    LET eligible == {i \in OfProperty(p) :
                        /\ IF public THEN Public(listing[i]) ELSE listing[i].active /\ listing[i].idx
                        /\ Scoped(listing[i], boards, exclude)
                        /\ c.price.nulls # "none" => InRule(listing[i].price, c.price)}
    IN Collected(p, c, eligible # {})

\* evaluateCollectionPredicate: the same predicate on one row with one price.
Evaluated(row, c) ==
    LET matches(value, rule) ==
            \/ rule.nulls = "none"
            \/ value = 0 /\ rule.nulls \in {"include", "only"}
            \/ value # 0 /\ rule.nulls # "only" /\ value >= rule.min /\ value <= rule.max
    IN /\ c.any # {} => row.tags \cap c.any # {}
       /\ row.tags \cap c.exclude = {}
       /\ matches(row.price, c.price) /\ matches(row.beds, c.beds)

-----------------------------------------------------------------------------
(* The portal behind its readiness. *)

\* A portal the code does not configure is approved and has no board limit.
Approved == ~portal.known \/ portal.approved
PortalBoards == IF portal.known THEN Boards ELSE {}

\* buildActiveListingWhere, with a price range or NoQuery
Displayable(p, q) ==
    {i \in PublicOf(p) : /\ Scoped(listing[i], PortalBoards, ~Approved)
                         /\ InRange(listing[i].price, q)}

NoQuery == [min |-> 0, max |-> 0, status |-> "any"]

\* buildPortalPropertyWhere
InPortal(p, q) ==
    /\ portal.published
    /\ Compiled(p, portal.predicate, PortalBoards, ~Approved, TRUE)
    /\ Displayable(p, q) # {}

\* sendPublicPortal and the pages behind it
Reachable == portal.active /\ ~portal.suspended

\* getPortalReadiness: the portal's own fields are taken to be filled in.
CanShow == portal.published /\ \E p \in Property : InPortal(p, NoQuery)

PortalListings(q) ==
    IF Reachable /\ CanShow
    THEN UNION {Shown(p, Displayable(p, q)) : p \in {r \in Property : InPortal(r, q)}}
    ELSE {}

\* getPortalProperty by id, or by the slug of listing i
PortalProperty(p) == IF Reachable /\ CanShow /\ InPortal(p, NoQuery)
                     THEN Shown(p, Displayable(p, NoQuery)) ELSE {}

PortalSlug(i) == LET p == On[i] IN
    IF Reachable /\ CanShow /\ InPortal(p, NoQuery) /\ i \in Displayable(p, NoQuery)
    THEN Shown(p, {i}) ELSE {}

\* publicLanding of the collection: here the approval and boards of the code's
\* configuration hold for every portal.
Landing ==
    IF ~(Reachable /\ portal.published /\ CanShow) THEN {}
    ELSE UNION {Shown(p, {i \in PublicOf(p) : Scoped(listing[i], Boards, ~portal.approved)}) :
                   p \in {r \in Property : Compiled(r, portal.predicate, Boards, ~portal.approved, TRUE)}}

\* Every public listing may be featured.
Featured == UNION {UNION {Shown(p, {i}) : i \in PublicOf(p)} : p \in Property}

-----------------------------------------------------------------------------
(* The public search and the property pages. *)

\* Mutant: the baseline is left to the documents, which were made of public listings.
SearchService_Trusting(q) ==
    {[of |-> p, listing |-> index[p]] :
        p \in {r \in Property : index[r] # NoListing /\ Asked(index[r], q)}}

\* The filter a search service query carries: the baseline and what was asked.
SearchService(q) ==
    {[of |-> p, listing |-> index[p]] :
        p \in {r \in Property : Public(index[r]) /\ Asked(index[r], q)}}

\* searchPropertiesPg: one listing matches, the newest public one is shown.
Postgres(q) ==
    UNION {Shown(p, PublicOf(p)) : p \in {r \in Property : \E i \in PublicOf(r) : Asked(listing[i], q)}}

\* The agents' palette sees every active displayable listing.
Palette ==
    UNION {Shown(p, {i \in OfProperty(p) : listing[i].active /\ listing[i].idx}) : p \in Property}

\* GET /api/search: Postgres answers without a search service or after it failed.
Search(q) == IF env.engine = "up" THEN SearchService(q) ELSE Postgres(q)

\* searchByBounds
Geo(q) == {[of |-> On[i], listing |-> listing[i]] :
              i \in {j \in Listing : Public(listing[j]) /\ Asked(listing[j], q)}}

\* Mutant: the property is shown with its newest listing, matched or not.
Properties_Newest(q) ==
    UNION {Shown(p, PublicOf(p)) : p \in {r \in Property : \E i \in PublicOf(r) : Asked(listing[i], q)}}

\* getProperties: the newest of the listings that match is shown.
Properties(q) == UNION {Shown(p, {i \in PublicOf(p) : Asked(listing[i], q)}) : p \in Property}

\* getPropertyById, getPropertyMedia and the suggestions; getPropertyBySlug
PropertyById(p) == Shown(p, PublicOf(p))
PropertyBySlug(i) == IF Public(listing[i]) THEN Shown(On[i], {i}) ELSE {}

-----------------------------------------------------------------------------

TypeOK ==
    /\ listing \in [Listing -> Profile \cup {NoListing}]
    /\ index \in [Property -> Profile \cup {NoListing}]
    /\ override \in [Property -> {"NONE", "INCLUDE", "EXCLUDE"}]
    /\ portal.predicate \in Predicate
    /\ env \in [display : BOOLEAN, engine : {"off", "up", "down"}]
    /\ \A item \in answer.items : item.of \in Property /\ item.listing \in Profile
    /\ changes \in 0..MaxChanges

\* reconcilePropertyDocument, taken in one step: PropertyIndex has its races.
Reconciled(p, listings, display) ==
    LET ids == {i \in Listing : /\ On[i] = p /\ listings[i].active /\ listings[i].idx
                                /\ display \/ ~listings[i].mls}
        newest == {i \in ids : \A k \in ids : \/ listings[k].date < listings[i].date
                                              \/ listings[k].date = listings[i].date /\ k <= i}
    IN IF newest = {} THEN NoListing ELSE listings[CHOOSE i \in newest : TRUE]

Init ==
    /\ listing \in [Listing -> Profile \cup {NoListing}]
    /\ env = [display |-> TRUE, engine |-> "up"]
    /\ index = [p \in Property |-> Reconciled(p, listing, TRUE)]
    /\ override = [p \in Property |-> "NONE"]
    /\ portal \in [active : {TRUE}, suspended : {FALSE}, published : {TRUE},
                   predicate : Predicate, approved : BOOLEAN, known : BOOLEAN]
    /\ answer = None
    /\ changes = 0

Change == changes < MaxChanges /\ changes' = changes + 1 /\ answer' = None

\* A listing is written and its property's document follows.
ChangeListing(i) ==
    /\ Change
    /\ \E l \in Profile \cup {NoListing} : listing' = [listing EXCEPT ![i] = l]
    /\ index' = [index EXCEPT ![On[i]] = Reconciled(On[i], listing', env.display)]
    /\ UNCHANGED <<override, portal, env>>

\* PUT and DELETE /collections/:id/overrides/:propertyId
Decide(p) ==
    /\ Change
    /\ \E d \in {"NONE", "INCLUDE", "EXCLUDE"} : override' = [override EXCEPT ![p] = d]
    /\ UNCHANGED <<listing, index, portal, env>>

Toggle(f) ==
    /\ Change
    /\ portal' = [portal EXCEPT ![f] = ~@]
    /\ UNCHANGED <<listing, index, override, env>>

\* PATCH /:accountId/portals/:portalId/suspend, an administrator's.
Suspend == Toggle("suspended")

\* PUT and PATCH /:id of the owner: a portal goes up only past its blockers.
Launch == (~portal.active => CanShow) /\ Toggle("active")

\* PATCH /collections/:id
Publish == Toggle("published")

\* The deployment's switch, and the search service; documents stay as they are.
ChangeEnv ==
    /\ Change
    /\ \/ env' = [env EXCEPT !.display = ~@]
       \/ \E e \in {"off", "up", "down"} : env' = [env EXCEPT !.engine = e]
    /\ UNCHANGED <<listing, index, override, portal>>

Answer(surface, q, items) ==
    /\ answer.surface = "none"
    /\ answer' = [surface |-> surface, query |-> q, items |-> items]
    /\ UNCHANGED <<listing, index, override, portal, env, changes>>

Ask ==
    \/ \E q \in Query :
          \/ Answer("search", q, Search(q))
          \/ Answer("geo", q, Geo(q))
          \/ Answer("properties", q, Properties(q))
          \/ q.status = "any" /\ Answer("portalListings", q, PortalListings(q))
    \/ \E p \in Property :
          \/ Answer("property", NoQuery, PropertyById(p))
          \/ Answer("portalProperty", NoQuery, PortalProperty(p))
    \/ \E i \in Listing :
          \/ Answer("slug", NoQuery, PropertyBySlug(i))
          \/ Answer("portalProperty", NoQuery, PortalSlug(i))
    \/ Answer("landing", NoQuery, Landing)
    \/ Answer("palette", NoQuery, Palette)
    \/ Answer("portal", NoQuery, IF Reachable THEN Featured ELSE {})
    \/ Answer("domain", NoQuery, IF portal.active THEN Featured ELSE {})

Next ==
    \/ \E i \in Listing : ChangeListing(i)
    \/ \E p \in Property : Decide(p)
    \/ Suspend \/ Launch \/ Publish \/ ChangeEnv \/ Ask

Spec == Init /\ [][Next]_vars

-----------------------------------------------------------------------------

\* No surface but the agents' palette shows a listing that is inactive, not to
\* be displayed, or an MLS's while the deployment withholds those, although a
\* search document made before the switch is still there.
NothingHiddenIsShown ==
    answer.surface # "palette" =>
        \A item \in answer.items :
            item.listing.active /\ item.listing.idx /\ (env.display \/ ~item.listing.mls)

\* The pages of a portal show listings only while it is active and not suspended.
\* The lookup by domain asks for the first alone: it shows the featured listings of
\* a suspended portal, which the comment above sendPublicPortal says have no page.
PagesAreGated ==
    answer.items # {} =>
        /\ answer.surface \in {"portalListings", "portalProperty", "landing", "portal", "domain"}
             => portal.active
        /\ answer.surface \in {"portalListings", "portalProperty", "landing", "portal"}
             => ~portal.suspended

\* What a price range finds on the property list and on the portal is shown with
\* a listing in that range ("these must stay in lockstep").
ShownIsMatched ==
    answer.surface \in {"properties", "portalListings", "geo"} =>
        \A item \in answer.items : InRange(item.listing.price, answer.query)

\* As long as no property has two public listings, both engines answer the same
\* query with the same properties, each with the same listing.
EnginesAgree ==
    (\A p \in Property : Cardinality(PublicOf(p)) <= 1 /\ index[p] = Reconciled(p, listing, env.display))
        => \A q \in Query : SearchService(q) = Postgres(q)

\* A rule that leaves nulls out and gives no bound compiles to no condition, which
\* an unknown value passes, and is evaluated to a value that is known.
Vacuous(rule) == rule.nulls = "exclude" /\ rule.min = 0 /\ rule.max = 99

\* What such a rule comes to once it is compiled: none.
InEffect(rule) == IF Vacuous(rule) THEN [min |-> 0, max |-> 99, nulls |-> "none"] ELSE rule

\* A property an owner has excluded is in no answer of the collection.  One with a
\* single eligible listing and no decision is in it exactly when the predicate holds
\* of that row, a rule that leaves nulls out without a bound counting as none; as
\* written, the predicate lets in nothing more, and leaves out those of an unknown
\* value under such a rule, which the collection shows.
CollectionIsPredicate ==
    \A p \in Property :
        LET one == {i \in OfProperty(p) : Public(listing[i])}
            c == portal.predicate
            row == [price |-> listing[CHOOSE i \in one : TRUE].price,
                    beds |-> Home[p].beds, tags |-> Home[p].tags]
            compiles == [beds |-> InEffect(c.beds), price |-> InEffect(c.price),
                         any |-> c.any, exclude |-> c.exclude]
        IN /\ override[p] = "EXCLUDE" => ~Compiled(p, c, {}, FALSE, TRUE)
           /\ Cardinality(one) = 1 /\ override[p] = "NONE" =>
                 /\ Compiled(p, c, {}, FALSE, TRUE) <=> Evaluated(row, compiles)
                 /\ Evaluated(row, c) => Evaluated(row, compiles)

-----------------------------------------------------------------------------

Portals == [active : BOOLEAN, suspended : BOOLEAN, published : BOOLEAN,
            predicate : Predicate, approved : BOOLEAN, known : BOOLEAN]

\* The inductive invariant: an answer is dropped with the first change after it.
IInv == TypeOK /\ portal \in Portals /\ NothingHiddenIsShown /\ PagesAreGated /\ ShownIsMatched

\* What the constants have to be: a rule that does not ask has no bounds, and 99 lies
\* above every number.
Rule == [min : 0..99, max : 0..99, nulls : {"none", "include", "exclude", "only"}]

Bounds ==
    /\ IsFiniteSet(Listing) /\ Listing \subseteq Nat
    /\ \A i \in Listing : On[i] \in Property
    /\ \A p \in Property : Home[p].beds \in 0..99
    /\ \A l \in Profile : l.price \in 0..99
    /\ \A c \in Predicate : \A rule \in {c.beds, c.price} :
          rule \in Rule /\ (rule.nulls = "none" => rule.min = 0 /\ rule.max = 99)
    /\ MaxChanges \in Nat

=============================================================================
