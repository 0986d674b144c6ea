------------------------------ MODULE Content ------------------------------
(***************************************************************************)
(* What a user keeps: Blobs, with Secrets, Memory and PackageStorage at    *)
(* its side.  They share no table and no call; a run explores them side by *)
(* side, and a proof is about each on its own.                             *)
(***************************************************************************)
EXTENDS Blobs

CONSTANTS Providers, Calls, MaxSaves,                                             \* of Secrets
          Ids, Conversations, Searches, MaxText, ReindexBatch, SearchLimit,       \* of Memory
          MaxKey, PrefixSets, KvValues, Tables, Scans, Limits                     \* of PackageStorage

VARIABLES secrets, lastSave, latest, overlap, keys, reported, approved, declares, binding, grants, cache, calls,
          rows, used, lastText, vectors, shown, memoryCalls, forgotten, crossed, repeated,
          kv, tables, scan, steady

S == INSTANCE Secrets

M == INSTANCE Memory WITH Calls <- Searches, calls <- memoryCalls

Pages == INSTANCE PackageStorage WITH Values <- KvValues

\* A rekey loses no value (cells/user-cell.ts secretRekey).
RekeySafe == S!RekeySafe

\* What a provider resolves goes where it is permitted, from the package that is bound (secrets/fetch-gateway.ts).
ProviderValueFits == S!ProviderValueFits

\* The vector store follows the table of memories (cells/memory-cell.ts indexMemories, memoryDelete).
VectorsFollowRows == M!VectorsFollowRows

\* A search answers what is there now and was not shown before (cells/memory-cell.ts memorySearch).
AnswerSound == M!AnswerSound

\* A listing in pages misses no key that stays and gives none twice (cells/package-storage-cell.ts list).
PagesExact == Pages!PagesExact
=============================================================================
