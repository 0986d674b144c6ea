----------------------------- MODULE MCContent -----------------------------
(***************************************************************************)
(* Content for TLC: part says which of the systems moves.                  *)
(***************************************************************************)
EXTENDS Content, TLC

CONSTANTS b1, b2, b9

VARIABLE part

\* Blobs: bodies of one and two bytes, one too large for the server, and quotas that two racing puts can reach.
MCBodies == {b1, b2, b9}
MCSize == b1 :> 1 @@ b2 :> 2 @@ b9 :> 9
MCQuotas == {[blobs |-> 1, blobBytes |-> 0], [blobs |-> 0, blobBytes |-> 3]}

\* PackageStorage: four keys of which two share a prefix; pages of one (asked for as none) and two.
MCPrefixSets == {1 .. 4, 2 .. 3}

\* What the theorems about Memory and PackageStorage assume of their constants.
ASSUME ContentConstants == M!MemoryConstants /\ Pages!StorageConstants

storageVars == <<kv, tables, scan, steady>>
memoryVars == <<rows, used, lastText, vectors, shown, memoryCalls, forgotten, crossed, repeated>>
secretVars == <<secrets, lastSave, latest, overlap, keys, reported, approved, declares, binding, grants, cache, calls>>

Symmetry == Permutations(Requests)

MCInit ==
    /\ part \in {"blobs", "values", "provided", "one", "two", "storage"}
    /\ Init /\ S!Init /\ M!Init
    /\ Pages!Init /\ (part # "storage" => kv = [k \in 1 .. 4 |-> None])

\* Requests name one item by its canonical reference and by an alias; grants are of both items.
Provided == (S!Provided \/ \E c \in Calls : S!Inject(c)) /\ \A c \in Calls : calls'[c].ref # "i2"

\* One memory, under two calls; two of them, one call after the other.
OneMemory == M!Next /\ used' \subseteq {b1}
OneSearch == M!Next /\ \A c, d \in Searches : memoryCalls'[c].pc # "idle" /\ memoryCalls'[d].pc # "idle" => c = d

MCNext ==
    /\ UNCHANGED part
    /\ \/ part = "blobs" /\ Next /\ UNCHANGED <<secretVars, memoryVars, storageVars>>
       \/ part = "values" /\ (S!Values \/ \E c \in Calls : S!Inject(c)) /\ UNCHANGED <<vars, memoryVars, storageVars>>
       \/ part = "provided" /\ Provided /\ UNCHANGED <<vars, memoryVars, storageVars>>
       \/ part = "one" /\ OneMemory /\ UNCHANGED <<vars, secretVars, storageVars>>
       \/ part = "two" /\ OneSearch /\ UNCHANGED <<vars, secretVars, storageVars>>
       \/ part = "storage" /\ Pages!Next /\ UNCHANGED <<vars, secretVars, memoryVars>>

MCSpec == MCInit /\ [][MCNext]_<<part, vars, secretVars, memoryVars, storageVars>>
=============================================================================
