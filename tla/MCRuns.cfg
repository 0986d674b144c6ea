\* Two concurrent calls; up to three runs, two of which the retention keeps; a remote that changes once.
CONSTANTS
    Execs = {e1, e2}
    Keys = {key}
    NoKey = NoKey
    Jobs = {job}
    NoJob = NoJob
    RetentionCount = 2
    AgeRetention = FALSE
    RunsPerDay = 2
    ExecuteMsPerDay = 1
    BulkLimit = 1
    Crashes = TRUE
    MaxRuns = 3
    a = a
    b = b
    u1 = u1
    u2 = u2
    f1 = f1
    f2 = f2
    None = None
    Users = {u1, u2}
    Names = {a, b}
    Ops = {"save", "delete", "install", "fork", "update", "preview", "publish", "unpublish", "obtain", "leave"}
    Sources <- MCSources
    Claims <- MCClaims
    Named <- MCNamed
    ForkName = b
    MaxVersion = 2
    MaxPackages = 1
    MaxEntries = 1
    FileNames = {f1, f2}
    Programs <- MCPrograms
    App = a
    Deps <- MCDeps
    Lazy = {b}
    Entries = {u1, u2}
    MaxStamp = 2
    CacheLimit = 1
SPECIFICATION MCSpec
SYMMETRY Symmetry
INVARIANTS OneExecutionPerKey RetentionExact FetchedIsAsked ProvenanceHolds GraphExact ServedIsCurrent
PROPERTIES ImplementsLifecycle AutoResolveExact
CHECK_DEADLOCK FALSE
