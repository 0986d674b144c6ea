\* Blobs: two racing requests, with every fault of the bucket and the Worker.  Secrets: two packages that may serve
\* the provider id, two saves.  Memory: two memories, two calls.  PackageStorage: four keys, one listing.
CONSTANTS
    Keys = {k1, k2}
    Requests = {r1, r2}
    b1 = b1
    b2 = b2
    b9 = b9
    Bodies <- MCBodies
    Size <- MCSize
    MaxBytes = 4
    Quotas <- MCQuotas
    Providers = {q1, q2}
    Calls = {r1, r2}
    MaxSaves = 2
    Ids = {b1, b2}
    Conversations = {q1}
    Searches = {r1, r2}
    MaxText = 2
    ReindexBatch = 1
    SearchLimit = 1
    MaxKey = 4
    PrefixSets <- MCPrefixSets
    KvValues = {b1}
    Tables = {q1}
    Scans = {q2}
    Limits = {0, 2}
    Faults = {"store", "crash", "outOfBand"}
    None = None
SPECIFICATION MCSpec
SYMMETRY Symmetry
INVARIANTS IsolatedKeyAgrees RekeySafe ProviderValueFits VectorsFollowRows AnswerSound PagesExact
PROPERTIES CountQuotaHolds BytesQuotaHolds
CHECK_DEADLOCK FALSE
