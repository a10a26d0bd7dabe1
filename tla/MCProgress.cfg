SPECIFICATION MCSpec
CONSTANTS
    Calls = {p1, p2, p3}
    None = None
    MaxTasks = 1
    MaxLosses = 1
    NoTask = NoTask
    PhoneTasks = 2
    MaxMissed = 2
    MaxAir = 2
    Systems = {"android", "ios"}
    MaxKills = 2
    BreakerCalls = {p1, p2, p3}
    FailureThreshold = 5
    HalfOpenMaxCalls = 1
    SuccessThreshold = 2
    MaxAttempts = 3
    MaxFailures = 6
    Apps = {a1}
    MaxPolicies = 1
    MaxRestarts = 1
INVARIANTS
    MCTypeOK
    UnlockTracesApproval
    LockedOnlyWithoutContact
    WindowNeedsApproval
    ProbesLimited
PROPERTIES
    DecisionReplacedByStaleCallOnly
    ImplementsTaskLife
    SubmissionAnalysedAndTold
    LockFollowsNewestTask
    IosEndsInSafeMode
    OnlineEndsWithPolicy
    UsedUpIsCovered
    RecoversUnlessSpent
CHECK_DEADLOCK FALSE
