\* Two jobs, two overlapping dispatchers.
CONSTANTS
    j1 = j1
    j2 = j2
    JobIds = {j1, j2}
    Manifests <- TwoJobManifests
    Dispatchers = {d1, d2}
    Failures = {}
    JobRunKeep = 1
    CronScan = 2
    MaxTime = 2
    MaxJobRuns = 3
SPECIFICATION MCSpec
SYMMETRY Symmetry
INVARIANTS NextAfterLast MarkedIsRunning
PROPERTIES SlotsClaimedOnce
