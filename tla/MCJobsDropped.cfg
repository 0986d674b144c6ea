\* executeRun may throw while a second claimed job waits.
CONSTANTS
    j1 = j1
    j2 = j2
    JobIds = {j1, j2}
    Manifests <- TwoJobManifests
    Dispatchers = {d1}
    Failures = {"throw"}
    JobRunKeep = 1
    CronScan = 2
    MaxTime = 2
    MaxJobRuns = 3
SPECIFICATION MCSpec
PROPERTIES ClaimedJobsRun
