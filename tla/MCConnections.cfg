\* Two calls at once, two URLs, two authorizations, one refresh of each grant; one clone; three starts.
CONSTANTS
    Urls = {u1, u2}
    Calls = {c1, c2}
    None = None
    MaxAttempts = 2
    MaxSeq = 2
    MaxIds = 2
    MaxStarts = 3
    MaxKeys = 4
    Object <- MCObject
    Packs <- MCPacks
    Adverts <- MCAdverts
    Asked <- MCAsked
    CloneUrls <- MCCloneUrls
    Allowed <- MCAllowed
    Home <- MCHome
    MaxRedirects = 1
    MaxFiles = 4
    MaxTotalBytes = 9
SPECIFICATION MCSpec
SYMMETRY Symmetry
INVARIANTS CredentialsFit UsedOnce CloneExact StartSound
CHECK_DEADLOCK FALSE
