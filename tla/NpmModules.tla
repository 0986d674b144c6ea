----------------------------- MODULE NpmModules -----------------------------
(***************************************************************************)
(* The npm modules of a graph (resolveNpmModules): starting from the bare  *)
(* specifiers, every module they import is loaded, breadth first, from the *)
(* memo of the isolate, from the cache all nodes share (NpmCacheCell), or  *)
(* from the CDN; what was downloaded is put into the shared cache at the   *)
(* end.  The content of a URL may change at the CDN.                       *)
(*                                                                         *)
(* A source is named by its URL and the number of its content.  The loop   *)
(* gives way to others at the call of the cell and at the download; its    *)
(* steps in between are actions of their own, which allows more.           *)
(***************************************************************************)
EXTENDS Naturals, Sequences, FiniteSets, FiniteSetsExt

CONSTANTS
    Urls,           \* URLs of the CDN: numbers, in the order of ORDER BY url
    Specifiers,     \* the lists of URLs a resolution may start from
    Imports,        \* [Urls -> [content -> sequence of URLs]], those of the CDN itself
    Bytes,          \* [Urls -> size]
    Isolates,
    Resolutions,    \* resolutions that may be under way at once
    MaxModules,     \* MAX_MODULES
    MaxTotalBytes,  \* MAX_TOTAL_BYTES
    MemoMax,        \* MEMO_MAX_ENTRIES
    CacheMaxBytes,  \* KODY_NPM_CACHE_MAX_MB, zero for no shared cache
    MaxModuleBytes, \* npmCacheMaxModuleBytes
    CacheTtl,       \* KODY_NPM_CACHE_TTL_DAYS, zero for none
    MaxVersion,     \* bound: contents of a URL
    MaxTime         \* bound: the clock of the cell

VARIABLES
    cdn,        \* the content of each URL
    memo,       \* moduleCache of each isolate
    rows,       \* the table modules
    time,
    res         \* the resolutions

vars == <<cdn, memo, rows, time, res>>

Versions == 1 .. MaxVersion

\* Assumed of the constants: finitely many URLs, sources that name URLs, and sizes and limits that are numbers.
NpmConstants ==
    /\ IsFiniteSet(Urls) /\ Urls \subseteq Nat
    /\ Specifiers \subseteq Seq(Urls)
    /\ Imports \in [Urls -> [Versions -> Seq(Urls)]]
    /\ Bytes \in [Urls -> Nat]
    /\ MaxVersion \in Nat \ {0}
    /\ {MaxModules, MaxTotalBytes, CacheMaxBytes, CacheTtl, MaxTime} \subseteq Nat

NoRow == [ver |-> 0, fetched |-> 0, used |-> 0]
NoGraph == [u \in Urls |-> 0]
Idle == [pc |-> "idle", isolate |-> 0, asked |-> {}, queue |-> <<>>, graph |-> NoGraph, fetched |-> {}]

\* A content of 0 stands for none; the isolate of an idle resolution is 0.
TypeOK ==
    /\ cdn \in [Urls -> Versions]
    /\ memo \in [Isolates -> [Urls -> 0 .. MaxVersion]]
    /\ rows \in [Urls -> [ver : 0 .. MaxVersion, fetched : 0 .. MaxTime, used : 0 .. MaxTime]]
    /\ time \in 0 .. MaxTime
    /\ \A r \in Resolutions :
          /\ res[r].pc \in {"idle", "next", "asking", "fetching", "storing", "done", "failed"}
          /\ res[r].queue \in Seq(Urls) /\ res[r].graph \in [Urls -> 0 .. MaxVersion]
          /\ res[r].fetched \subseteq Urls /\ res[r].asked \subseteq Urls

Init ==
    /\ cdn = [u \in Urls |-> 1]
    /\ memo = [i \in Isolates |-> NoGraph]
    /\ rows = [u \in Urls |-> NoRow]
    /\ time = 0
    /\ res = [r \in Resolutions |-> Idle]

Held(table) == {u \in Urls : table[u] # 0}
Cached == {u \in Urls : rows[u].ver # 0}
Weight(set) == MapThenSumSet(LAMBDA u : Bytes[u], set)
Shared == CacheMaxBytes > 0

(***************************************************************************)
(* The resolver                                                            *)
(***************************************************************************)
Begin(r, i, specs) ==
    /\ res[r].pc \in {"idle", "done", "failed"}
    /\ res' = [res EXCEPT ![r] = [Idle EXCEPT !.pc = "next", !.isolate = i, !.queue = specs, !.asked = {specs[k] : k \in DOMAIN specs}]]
    /\ UNCHANGED <<cdn, memo, rows, time>>

Seen(r) == Held(res[r].graph)
At(r, pc) == res[r].pc = pc /\ res[r].queue # <<>>
Url(r) == Head(res[r].queue)

\* A URL that was seen is not loaded again.
SkipSeen(r) ==
    /\ At(r, "next") /\ Url(r) \in Seen(r)
    /\ res' = [res EXCEPT ![r].queue = Tail(@)]
    /\ UNCHANGED <<cdn, memo, rows, time>>

TooMany(r) ==
    /\ At(r, "next") /\ Url(r) \notin Seen(r) /\ Cardinality(Seen(r)) >= MaxModules
    /\ res' = [res EXCEPT ![r].pc = "failed"]
    /\ UNCHANGED <<cdn, memo, rows, time>>

MayLoad(r) == At(r, "next") /\ Url(r) \notin Seen(r) /\ Cardinality(Seen(r)) < MaxModules

\* Mutant: what a source from a cache imports is taken to be there.
LoadedAlone(r, ver, fetched) ==
    LET u == Url(r)
        q == res[r]
        graph == [q.graph EXCEPT ![u] = ver]
    IN  IF Weight(Held(graph)) > MaxTotalBytes
        THEN [q EXCEPT !.pc = "failed"]
        ELSE [q EXCEPT !.pc = "next", !.queue = IF fetched THEN Tail(@) \o Imports[u][ver] ELSE Tail(@), !.graph = graph,
                       !.fetched = IF fetched THEN @ \cup {u} ELSE @]

\* The source counts against the limit, and what it imports is queued.
Loaded(r, ver, fetched) ==
    LET u == Url(r)
        q == res[r]
        graph == [q.graph EXCEPT ![u] = ver]
    IN  IF Weight(Held(graph)) > MaxTotalBytes
        THEN [q EXCEPT !.pc = "failed"]
        ELSE [q EXCEPT !.pc = "next", !.queue = Tail(@) \o Imports[u][ver], !.graph = graph,
                       !.fetched = IF fetched THEN @ \cup {u} ELSE @]

memoize(i, u, ver) ==
    [memo EXCEPT ![i] = [(IF Cardinality(Held(@)) >= MemoMax THEN NoGraph ELSE @) EXCEPT ![u] = ver]]

LoadMemo(r) ==
    /\ MayLoad(r) /\ memo[res[r].isolate][Url(r)] # 0
    /\ res' = [res EXCEPT ![r] = Loaded(r, memo[res[r].isolate][Url(r)], FALSE)]
    /\ UNCHANGED <<cdn, memo, rows, time>>

LoadElsewhere(r) ==
    /\ MayLoad(r) /\ memo[res[r].isolate][Url(r)] = 0
    /\ res' = [res EXCEPT ![r].pc = IF Shared THEN "asking" ELSE "fetching"]
    /\ UNCHANGED <<cdn, memo, rows, time>>

Expired(row) == CacheTtl > 0 /\ row.fetched + CacheTtl < time

\* NpmCacheStore.getMany with one URL, and how the resolver goes on.
getMany(r) ==
    LET u == Url(r)
        row == rows[u]
        hit == row.ver # 0 /\ ~Expired(row)
    IN  /\ At(r, "asking")
        /\ rows' = [rows EXCEPT ![u] = IF hit THEN [row EXCEPT !.used = time] ELSE NoRow]
        /\ res' = [res EXCEPT ![r] = IF hit THEN Loaded(r, row.ver, FALSE) ELSE [@ EXCEPT !.pc = "fetching"]]
        /\ memo' = IF hit THEN memoize(res[r].isolate, u, row.ver) ELSE memo
        /\ UNCHANGED <<cdn, time>>

fetchFromCdn(r) ==
    LET u == Url(r)
    IN  /\ At(r, "fetching")
        /\ memo' = memoize(res[r].isolate, u, cdn[u])
        /\ res' = [res EXCEPT ![r] = Loaded(r, cdn[u], TRUE)]
        /\ UNCHANGED <<cdn, rows, time>>

FetchFails(r) ==
    /\ At(r, "fetching")
    /\ res' = [res EXCEPT ![r].pc = "failed"]
    /\ UNCHANGED <<cdn, memo, rows, time>>

QueueEmpty(r) ==
    /\ res[r].pc = "next" /\ res[r].queue = <<>>
    /\ res' = [res EXCEPT ![r].pc = IF Shared /\ res[r].fetched # {} THEN "storing" ELSE "done"]
    /\ UNCHANGED <<cdn, memo, rows, time>>

(***************************************************************************)
(* The shared cache                                                        *)
(***************************************************************************)
Stored(r) == {u \in res[r].fetched : Bytes[u] <= MaxModuleBytes /\ Bytes[u] <= CacheMaxBytes}

\* ORDER BY last_used_at, url
Before(table, u, v) == table[u].used < table[v].used \/ (table[u].used = table[v].used /\ u <= v)

\* Least recently used rows go until the rest fits: a row goes when it and the later ones are too many bytes.
evict(table) ==
    LET kept == {u \in Urls : table[u].ver # 0}
    IN  [u \in Urls |-> IF u \in kept /\ Weight({v \in kept : Before(table, u, v)}) > CacheMaxBytes THEN NoRow ELSE table[u]]

putMany(r) ==
    /\ res[r].pc = "storing"
    /\ rows' = evict([u \in Urls |-> IF u \in Stored(r) THEN [ver |-> res[r].graph[u], fetched |-> time, used |-> time] ELSE rows[u]])
    /\ res' = [res EXCEPT ![r].pc = "done"]
    /\ UNCHANGED <<cdn, memo, time>>

clear ==
    /\ Cached # {}
    /\ rows' = [u \in Urls |-> NoRow]
    /\ UNCHANGED <<cdn, memo, time, res>>

(***************************************************************************)
(* The surroundings: the clock, new contents at the CDN, an isolate that   *)
(* is stopped and started again.                                           *)
(***************************************************************************)
Tick ==
    /\ time < MaxTime
    /\ time' = time + 1
    /\ UNCHANGED <<cdn, memo, rows, res>>

Release(u) ==
    /\ cdn[u] < MaxVersion
    /\ cdn' = [cdn EXCEPT ![u] = @ + 1]
    /\ UNCHANGED <<memo, rows, time, res>>

Restart(i) ==
    /\ Held(memo[i]) # {}
    /\ memo' = [memo EXCEPT ![i] = NoGraph]
    /\ res' = [r \in Resolutions |-> IF res[r].isolate = i THEN Idle ELSE res[r]]
    /\ UNCHANGED <<cdn, rows, time>>

Next ==
    \/ \E r \in Resolutions :
          \/ \E i \in Isolates, specs \in Specifiers : Begin(r, i, specs)
          \/ SkipSeen(r) \/ TooMany(r) \/ LoadMemo(r) \/ LoadElsewhere(r)
          \/ getMany(r) \/ fetchFromCdn(r) \/ FetchFails(r) \/ QueueEmpty(r) \/ putMany(r)
    \/ clear \/ Tick
    \/ \E u \in Urls : Release(u)
    \/ \E i \in Isolates : Restart(i)

Spec == Init /\ [][Next]_vars

(***************************************************************************)
(* A finished resolution has the specifiers and everything its sources     *)
(* import, although they come from three places and the CDN changes under  *)
(* it, and is within its limits.                                           *)
(***************************************************************************)
GraphClosed ==
    \A r \in Resolutions : res[r].pc = "done" =>
        /\ res[r].asked \subseteq Seen(r)
        /\ \A u \in Seen(r) : \A k \in DOMAIN Imports[u][res[r].graph[u]] : Imports[u][res[r].graph[u]][k] \in Seen(r)
        /\ Cardinality(Seen(r)) <= MaxModules /\ Weight(Seen(r)) <= MaxTotalBytes

(***************************************************************************)
(* npm-cache-cell.ts:10, "the least-recently-used rows are evicted to stay *)
(* under KODY_NPM_CACHE_MAX_MB": no order of overlapping resolutions takes *)
(* the shared cache over its size.                                         *)
(***************************************************************************)
CacheWithinBytes == Weight(Cached) <= CacheMaxBytes

(***************************************************************************)
(* What a resolution gives and what it leaves behind are within bounds.    *)
(***************************************************************************)
ResolutionSound == TypeOK /\ GraphClosed /\ CacheWithinBytes
=============================================================================
