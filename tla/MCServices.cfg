CONSTANTS
    Affiliates = {x1, x2}  Emails = {e1}  Referred = {x1, x2}  AffCalls = {p1, p2}
    MinPayout = 1  MaxAffDeaths = 1  MaxReferrals = 2
    Devices = {x1, x2}  Limits <- AnyOrOneDevice  OrgCalls = {p1, p2}  MaxAdds = 3
    TicketCalls = {p1, p2}  MaxRounds = 2  MaxRepeats = 1  MaxTicketDeaths = 1
    Grants = {x1, x2}  NoGrant = NoGrant  GrantCalls = {p1, p2}  MaxGrantDeaths = 1
    Accounts = {x1, x2}  Locales = 2  Versions = 1  LegalCalls = {p1, p2}
    BatchSize = 1  MaxLegalDeaths = 1
    Users = {x1, x2}  Keys = {k1}  OpCalls = {p1, p2}  MaxOpFailures = 1
    RegCalls = {p1, p2}  WebTokens = {w1}  MaxRegDeaths = 1
    InboxCalls = {p1, p2}  PushTokens = {k1, k2, k3}  EventKeys = {k1}
    MaxEndpoints = 2  MaxRegistrations = 3
    Checks = {p1, p2}  Instances = {i1}  MaxRequests = 2  Window = 1  CacheTtl = 2
    MaxTime = 3  MaxAdmitted = 5
    Fields = {"lock_state", "app_blacklist", "usage_rules"}  Values = {off, on}  Default = off
    Masters = {m1}  Setters = {s1}  Triggers = {p1, p2}  Coroutines = {w1}
    SnapshotLimit = 1  None = None  MaxChanges = 1  MaxDups = 1  MaxLosses = 1  MaxRepairs = 0
    Apps = {x1, x2}  SavePeriod = 2  MaxUse = 3  MaxDay = 1  MaxDeaths = 1
SYMMETRY Symmetry
SPECIFICATION MCSpec
INVARIANTS
    MCTypeOK
    LedgerBalanced
    EarningsFollowReferrals
    LicenceKept
    RoundsEndTheTicket
    AccessHasGrant
    DemandReachesConsents
    OneGrantEach
    BlockedOnlyAfterLoss
    RoleIsAssigned
    RegistrationSettles
    ReportsKept
    VersionNamesOneChange
    CountsAreTodays
    WithinBudget
PROPERTIES
    ReplyReopensOnlyWhenOvertaken
    AckIsFinal
CHECK_DEADLOCK FALSE
