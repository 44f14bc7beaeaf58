\* One part at a time.
CONSTANTS
    Inquiry = {i1}
    Submission = {s1}
    Caller = {c1, c2}
    Recovery = cron
    Provider = TRUE
    MaxDrafts = 1
    MaxFaults = 1
    Message = {"m1"}
    PerMessage = 1
    Run = {1, 2}
    SyncFaults = 1
    Transaction = {"t1", "t2", "t3"}
    Profile <- AnyOfFour
    AtFirst <- TwoLacking
    Scans = {1, 2}
    Cron = 1
    MaxItems = 1
    Take = 2
    Edits = 1
    Membership = {"m1", "m2"}
    Day = {1, 2}
    RosterCheck = {1}
    RosterChanges = 2
    AlertFaults = 1
    Contact = {}
    Property = {"p1"}
    Deal = {"t1"}
    Task = {"k1"}
    Action = {}
    Of <- PropertyOf
    Asked = {1}
    MaxMoves = 1
SPECIFICATION AllSpec
INVARIANTS
    AllTypesOK
    LeaseExclusive
    ResendNeedsFault
    SentIsDone
    CallsAreAnswered
    WorkIsBounded
PROPERTIES
    RespondedIsMailed
    DismissedStays
    EveryLeadIsDrafted
    EveryJobEnds
    FlagSettles
CHECK_DEADLOCK FALSE
