\* One component at a time; the bounds of each are those of its instance.
CONSTANTS
    Request = {1, 2}
    MaxFaults = 1
    MaxChanges = 1
    MaxListing = 2
    Property = {"p1", "p2"}
    Handler = {"w1"}
    WorkerChanges = 3
    WorkerFaults = 2
    Def = {"d1"}
    Custom = "custom"
    Attachment = {"a1"}
    MaxSlots = 2
    Milestones = 3
    Item = {"i1", "i2"}
    Anchor <- AnchorOf
    Offset <- OffsetOf
    LastDay = 3
    MaxCreated = 1
    Contact = {"c1", "c2"}
    Agent = {"a1"}
    Profile <- ContactProfiles
    Scan = {1, 2}
    MaxItems = 1
    Takes <- TakeOf
    Stage = {"a", "b"}
    TrackUpdate = {1, 2, 3}
    Email = {"a"}
    UserEmail <- EmailOf
    Submission = {"s1", "s2"}
    MaxRequests = 3
    MaxVersion = 2
    Account = {"a", "b"}
    MaxRows = 3
    Caller = {1, 2}
    Life = 1
    MaxTime = 3
    MaxCalls = 3
    MailKind = {"k1", "k2"}
    Sender = {1, 2, 3}
    MailFaults = 2
    Tenant = {"p1"}
    Address = {"a", "b"}
    OwnerAddress = "a"
    Client = {1, 2, 3}
    MaxUsers = 3
    MaxResets = 1
    Website = {1}
    Slug = {"site"}
    Site = "site"
    Hostname = {1, 2}
    HostOf <- Hosts
    Starred = {"l1"}
    Body <- Bodies
    Visit = {1, 2, 3}
    Collection = {"k", "p"}
    Reimported = {"k"}
    Added <- NewFields
    Faceted <- FacetFields
    MustHave <- MustHaveFields
    Migrator = {1, 2}
    Replica = {1, 2}
    Tagged = {1, 2}
    Manual = {2}
    TagPage = 1
    TagVersions = 2
    MaxConfig = 2
    Album = {"l1", "l2"}
    Order = {1, 2}
    PhotoWork = {1, 2}
    PhotoTime = 2
    Advertised = {"h1", "h2"}
    Wanted <- WantedHomes
    SearchRun = {1, 2}
    SearchTime = 2
    Lead = {1, 2, 3}
    InboxPage = 1
    LeadFilter = {"all", "NEW"}
    Mark = {"READ"}
    LeadFetch = {1, 2}
    LeadPatch = {1}
    LeadChanges = 1
    Known = {1}
    Touch = {1}
    Todo = {1}
    Day = {1}
    Recount = {1, 2}
    ActivityChanges = 2
    Indexed = {"e1"}
    IndexCall = {1, 2}
    RowVersions = 3
    IndexFaults = 1
    House = {1}
    ListedOn <- ListedTwice
    Offer <- Profiles
    HomePredicate <- Predicates
    HouseOf <- HouseFacts
    BoardLimit = {"b1"}
    Asking <- Queries
    HomeChanges = 1
    WebServer = {"s1", "s2"}
    Searched = {"q"}
    Visitor = {"r1", "r2"}
    RedisFaults = 1
SPECIFICATION Spec
INVARIANTS
    TypeOK
    FailClosed
    TransactionsConsistent
    NothingRepeated
    CopiesFollowRows
    NothingHiddenIsShown
    GoogleInStep
    CompletedMeansCovered
    SessionInScope
    SetsAreReplacedWhole
    AnswersMeanTheQuery
    NothingIsMissed
    SingleFlight
PROPERTIES
    ContactsWhole
CHECK_DEADLOCK FALSE
