\* Two apps, two refreshing calls, up to two connect links.
CONSTANTS
    Apps = {a1, a2}
    Mint = {a2}
    Calls = {c1, c2}
    Browsers = {b1}
    None = None
    Restarts = TRUE
    Rekeys = FALSE
    MaxConnects = 2
    MaxTokens = 3
    Urls = {1, 2, 3, 4}
    Specifiers <- MCSpecifiers
    Imports <- MCImports
    Bytes <- MCBytes
    Isolates = {1}
    MaxModules = 3
    MaxTotalBytes = 3
    MemoMax = 1
    CacheMaxBytes = 2
    MaxModuleBytes = 2
    CacheTtl = 1
    MaxVersion = 2
    MaxTime = 2
SPECIFICATION MCSpec
SYMMETRY Symmetry
INVARIANTS RefusalDeserved TokensOfApp ResolutionSound
