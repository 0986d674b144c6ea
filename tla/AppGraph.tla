------------------------------ MODULE AppGraph ------------------------------
(***************************************************************************)
(* Serving a package app: every request reads the app's package, and its   *)
(* module graph comes from a cache in memory (cachedGraph) or is built,    *)
(* reading the packages it needs one after the other from the user's cell. *)
(* An entry also keeps the packages' updated_at stamps, read after the     *)
(* build, and is used again while they are still the same.  A package that *)
(* is not saved fails the build, unless every file that imports it is      *)
(* itself reached by dynamic imports only: such a file becomes one that    *)
(* throws, the build succeeds, and the missing package is not among those  *)
(* whose stamps are kept.                                                  *)
(* Every save has a stamp of its own: two saves in one millisecond are not *)
(* told apart by the code, and not modelled.                               *)
(***************************************************************************)
EXTENDS Naturals, Sequences, FiniteSets, SequencesExt

CONSTANTS
    App,            \* the app's package
    Deps,           \* a sequence: the packages it imports, in the order they are read
    Lazy,           \* those of them that only files reached by dynamic imports import
    Requests,       \* requests that may be under way at once
    Entries,        \* identities of cache entries
    MaxStamp,       \* bound on the saves
    CacheLimit,     \* graphCacheLimit
    None

Order == <<App>> \o Deps
Read == ToSet(Order)

VARIABLES
    stamp,      \* per package, its updated_at, 0 when it is not saved
    lastStamp,
    entries,    \* per entry, the build and what it found, or None
    order,      \* graphCache: entries, least recently used first
    reqs        \* per request, where it is and what it has read

vars == <<stamp, lastStamp, entries, order, reqs>>

Stamps == [Read -> Nat]
Graphs == [key : Nat, state : {"reading", "built", "stamped", "failed"}, graph : Seq(Nat),
           stamps : Stamps \cup {None}, disturbed : BOOLEAN]

\* Assumed of the constants: the imports are a sequence, and nothing is neither an entry nor its identity.
AppConstants ==
    /\ Deps \in Seq(ToSet(Deps)) /\ Lazy \subseteq ToSet(Deps) \ {App}
    /\ MaxStamp \in Nat \ {0} /\ CacheLimit \in Nat
    /\ None \notin Entries /\ None \notin Graphs

Idle == [pc |-> "idle", key |-> 0, entry |-> None, began |-> None, served |-> None]

\* graphCache without one entry.
Without(e) == LET at == {i \in DOMAIN order : order[i] = e}
              IN  IF at = {} THEN order ELSE RemoveAt(order, CHOOSE i \in at : TRUE)
Keyed(k) == {e \in ToSet(order) : entries[e].key = k}

TypeOK ==
    /\ stamp \in [Read -> 0..MaxStamp]
    /\ lastStamp \in 0..MaxStamp
    /\ Len(order) <= CacheLimit
    /\ \A e \in ToSet(order) : entries[e] # None /\ entries[e].state # "failed"
    /\ \A i, j \in DOMAIN order : entries[order[i]].key = entries[order[j]].key => i = j
    /\ \A r \in Requests : reqs[r].pc \in {"idle", "lookup", "wait", "stamps", "build", "served"}

Init ==
    /\ stamp = [p \in Read |-> 1]
    /\ lastStamp = 1
    /\ entries = [e \in Entries |-> None]
    /\ order = <<>>
    /\ reqs = [r \in Requests |-> Idle]

\* A save or a deletion disturbs the builds that have read a package and not yet the stamps.
Disturbed == [e \in Entries |-> IF entries[e] # None /\ entries[e].state \in {"reading", "built"}
                                THEN [entries[e] EXCEPT !.disturbed = TRUE] ELSE entries[e]]

packageSave(p) ==
    /\ lastStamp < MaxStamp
    /\ lastStamp' = lastStamp + 1
    /\ stamp' = [stamp EXCEPT ![p] = lastStamp + 1]
    /\ entries' = Disturbed
    /\ UNCHANGED <<order, reqs>>

packageDelete(p) ==
    /\ stamp[p] # 0
    /\ stamp' = [stamp EXCEPT ![p] = 0]
    /\ entries' = Disturbed
    /\ UNCHANGED <<lastStamp, order, reqs>>

\* serveApp: the app's package, whose updated_at names the graph.
serveApp(r) ==
    /\ reqs[r].pc = "idle"
    /\ stamp[App] # 0
    /\ reqs' = [reqs EXCEPT ![r] = [Idle EXCEPT !.pc = "lookup", !.key = stamp[App], !.began = stamp]]
    /\ UNCHANGED <<stamp, lastStamp, entries, order>>

\* build(): the entry that was looked at goes; the new one takes the place of another under its
\* key or comes last, and the oldest over the limit goes.
StartBuild(r) ==
    LET k == reqs[r].key
        rest == Without(reqs[r].entry)
        taken == {i \in DOMAIN rest : entries[rest[i]].key = k}
    IN  \E e \in Entries :
          /\ entries[e] = None
          /\ entries' = [entries EXCEPT ![e] = [key |-> k, state |-> "reading", graph |-> <<>>,
                                                stamps |-> None, disturbed |-> FALSE]]
          /\ LET all == IF taken = {} THEN Append(rest, e)
                        ELSE [i \in DOMAIN rest |-> IF i \in taken THEN e ELSE rest[i]]
             IN  order' = IF Len(all) > CacheLimit THEN Tail(all) ELSE all
          /\ reqs' = [reqs EXCEPT ![r].pc = "build", ![r].entry = e]

cachedGraph(r) ==
    /\ reqs[r].pc = "lookup"
    /\ \/ \E e \in Keyed(reqs[r].key) :
             /\ reqs' = [reqs EXCEPT ![r].pc = "wait", ![r].entry = e]
             /\ UNCHANGED <<entries, order>>
       \/ Keyed(reqs[r].key) = {} /\ StartBuild(r)
    /\ UNCHANGED <<stamp, lastStamp>>

\* buildModuleGraph reads the next package; one that is not saved fails the build, or leaves a stub, noted as 0.
ReadPackage(e) ==
    /\ entries[e] # None /\ entries[e].state = "reading"
    /\ LET p == Order[Len(entries[e].graph) + 1]
           graph == Append(entries[e].graph, stamp[p])
       IN  IF stamp[p] = 0 /\ p \notin Lazy
           THEN /\ entries' = [entries EXCEPT ![e].state = "failed"]
                /\ order' = Without(e)
           ELSE /\ entries' = [entries EXCEPT ![e].graph = graph,
                                   ![e].state = IF Len(graph) = Len(Order) THEN "built" ELSE "reading"]
                /\ UNCHANGED order
    /\ UNCHANGED <<stamp, lastStamp, reqs>>

\* ModuleGraph.packages: what a build found; a stub stands for a package that is not among them.
Packages(graph) == {Order[i] : i \in {j \in DOMAIN Order : graph[j] # 0}}

\* entry.stamps: packageStamps of the packages in the graph, once it is built.
ReadStamps(e) ==
    /\ entries[e] # None /\ entries[e].state = "built"
    /\ entries' = [entries EXCEPT ![e].state = "stamped",
                      ![e].stamps = [p \in Read |-> IF p \in Packages(entries[e].graph) THEN stamp[p] ELSE 0]]
    /\ UNCHANGED <<stamp, lastStamp, order, reqs>>

Serve(r, e) == [reqs EXCEPT ![r].pc = "served", ![r].served = [graph |-> entries[e].graph,
                                                              disturbed |-> entries[e].disturbed]]

\* The request that builds answers with the graph, or reports that it could not be built.
Built(r) ==
    LET e == reqs[r].entry
    IN  /\ reqs[r].pc = "build"
        /\ \/ entries[e].state \in {"built", "stamped"} /\ reqs' = Serve(r, e)
           \/ entries[e].state = "failed" /\ reqs' = [reqs EXCEPT ![r] = Idle]
        /\ UNCHANGED <<stamp, lastStamp, entries, order>>

\* Mutant: only the app's own package is compared.
MatchApp(a, b) == a[App] = b[App]

\* Only the packages that had a stamp are asked for again.
stampsMatch(a, b) == \A p \in Read : a[p] # 0 => a[p] = b[p]

\* A hit waits for the entry's stamps, then asks for those of now.
AwaitStamps(r) ==
    /\ reqs[r].pc = "wait"
    /\ \/ /\ entries[reqs[r].entry].state = "stamped"
          /\ reqs' = [reqs EXCEPT ![r].pc = "stamps"]
          /\ UNCHANGED <<entries, order>>
       \/ entries[reqs[r].entry].state = "failed" /\ StartBuild(r)
    /\ UNCHANGED <<stamp, lastStamp>>

\* The answer decides: the entry is used and moved to the end, or dropped and built anew.
CompareStamps(r) ==
    LET e == reqs[r].entry
    IN  /\ reqs[r].pc = "stamps"
        /\ \/ /\ stampsMatch(entries[e].stamps, stamp) /\ e \in ToSet(order)
              /\ order' = Append(Without(e), e)
              /\ reqs' = Serve(r, e)
              /\ UNCHANGED entries
           \/ /\ ~(stampsMatch(entries[e].stamps, stamp) /\ e \in ToSet(order))
              /\ StartBuild(r)
        /\ UNCHANGED <<stamp, lastStamp>>

\* The isolate has answered; an entry nobody refers to is garbage.
Done(r) ==
    /\ reqs[r].pc = "served"
    /\ reqs' = [reqs EXCEPT ![r] = Idle]
    /\ UNCHANGED <<stamp, lastStamp, entries, order>>

Collect(e) ==
    /\ entries[e] # None
    /\ entries[e].state \in {"stamped", "failed"}
    /\ e \notin ToSet(order)
    /\ \A r \in Requests : reqs[r].entry # e
    /\ entries' = [entries EXCEPT ![e] = None]
    /\ UNCHANGED <<stamp, lastStamp, order, reqs>>

Next ==
    \/ \E p \in Read : packageSave(p) \/ packageDelete(p)
    \/ \E r \in Requests : serveApp(r) \/ cachedGraph(r) \/ Built(r) \/ AwaitStamps(r) \/ CompareStamps(r) \/ Done(r)
    \/ \E e \in Entries : ReadPackage(e) \/ ReadStamps(e) \/ Collect(e)

Spec == Init /\ [][Next]_vars

(***************************************************************************)
(* A request is served by packages no older than the ones saved when it    *)
(* came, the imported ones too, unless one was saved while that graph was  *)
(* being built, between its first read and the read of the stamps.  What   *)
(* was missing then and is only imported lazily stays a stub in the kept   *)
(* graph, even when it has been saved since: no stamp is kept of it.       *)
(***************************************************************************)
ServedIsCurrent ==
    \A r \in Requests : reqs[r].pc = "served" /\ ~reqs[r].served.disturbed =>
        \A i \in DOMAIN Order :
            \/ reqs[r].served.graph[i] = 0 /\ Order[i] \in Lazy
            \/ reqs[r].served.graph[i] >= reqs[r].began[Order[i]]
=============================================================================
