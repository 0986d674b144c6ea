------------------------------ MODULE Secrets ------------------------------
(***************************************************************************)
(* Secrets of one user and the gateway that puts them into the requests of *)
(* package code: one name, saved for the user and for one package, sealed  *)
(* under a master key that is rotated; and one provider id, bound to a     *)
(* package that resolves references to items.                              *)
(*                                                                         *)
(* The user cell gives way to other calls where it seals or opens a value; *)
(* the gateway makes one call of the cell after the other, with a run of   *)
(* the provider's package between them.  A value is named by the number of *)
(* its save.  Requests come from the package or are ad hoc.                *)
(***************************************************************************)
EXTENDS Integers, FiniteSets, Sequences

CONSTANTS Providers,   \* packages that may serve the provider id
          Calls,       \* calls under way
          None,
          MaxSaves     \* bound: values saved

VARIABLES secrets,    \* the table of secrets
          lastSave,
          latest,     \* history: what the last save or delete left under each scope
          overlap,    \* history: scopes written while a rekey held an older value of theirs
          keys,       \* the master keys configured: "old", "both" or "new"
          reported,   \* a rekey reported that nothing remains
          approved,   \* whether the host of the requests is approved
          declares,   \* the saved packages that declare the provider
          binding,    \* secret_provider_bindings
          grants,     \* secret_provider_grants of the requesting package
          cache,      \* resolved values in the memory of the cell
          calls

vars == <<secrets, lastSave, latest, overlap, keys, reported, approved, declares, binding, grants, cache, calls>>
stored == <<secrets, lastSave, latest, overlap, keys, reported>>
provider == <<approved, declares, binding, grants, cache>>

Scopes == {"user", "package"}
Items == {"i1", "i2"}
Refs == Items \cup {"alias"}
canonicalRef(ref) == IF ref = "alias" THEN "i1" ELSE ref   \* the provider's own catalogue

NoSecret == [value |-> 0, key |-> "old"]
Unbound == [pkg |-> None, locked |-> FALSE]
NotCached == [item |-> None, pkg |-> None, late |-> FALSE]
NoCall == [pc |-> "idle", scope |-> None, held |-> [s \in Scopes |-> 0], pkg |-> FALSE, approved |-> FALSE, refs |-> <<>>,
           got |-> 0, ref |-> None, by |-> None, provisional |-> FALSE, item |-> None, allowed |-> {}]

Idle(c) == calls[c].pc = "idle"
At(c, pc) == calls[c].pc = pc
Ends(c) == calls' = [calls EXCEPT ![c] = NoCall]
Goes(c, pc) == calls' = [calls EXCEPT ![c].pc = pc]

currentKey == IF keys = "old" THEN "old" ELSE "new"

----------------------------------------------------------------------------
(* Values *)

\* The value is sealed before it is written.
secretSave(c, s) ==
    /\ Idle(c)
    /\ calls' = [calls EXCEPT ![c] = [NoCall EXCEPT !.pc = "sealing", !.scope = s]]
    /\ UNCHANGED <<stored, provider>>

\* A row that a rekey has read is written.
Overlaps(S) == overlap \cup {s \in S : \E c \in Calls : At(c, "rekeying") /\ calls[c].held[s] # 0}

SaveWrite(c) ==
    LET s == calls[c].scope
    IN  /\ At(c, "sealing") /\ lastSave < MaxSaves
        /\ lastSave' = lastSave + 1
        /\ secrets' = [secrets EXCEPT ![s] = [value |-> lastSave + 1, key |-> currentKey]]
        /\ latest' = [latest EXCEPT ![s] = lastSave + 1]
        /\ overlap' = Overlaps({s})
        /\ Ends(c)
        /\ UNCHANGED <<keys, reported, provider>>

secretDelete(s) ==
    /\ secrets[s].value # 0
    /\ secrets' = [secrets EXCEPT ![s] = NoSecret]
    /\ latest' = [latest EXCEPT ![s] = 0]
    /\ overlap' = Overlaps({s})
    /\ UNCHANGED <<lastSave, keys, reported, calls, provider>>

\* secretRekey reads every row under another key, then opens, seals and writes one after the other.
secretRekey(c) ==
    /\ Idle(c)
    /\ calls' = [calls EXCEPT ![c] = [NoCall EXCEPT !.pc = "rekeying",
                    !.held = [s \in Scopes |-> IF secrets[s].key # currentKey THEN secrets[s].value ELSE 0]]]
    /\ UNCHANGED <<stored, provider>>

\* UPDATE of the row of this name and scope, if it still exists.
Resealed(s, v) == [secrets EXCEPT ![s] = IF @.value = 0 THEN @ ELSE [value |-> v, key |-> currentKey]]

RekeyWrite(c, s) ==
    /\ At(c, "rekeying") /\ calls[c].held[s] # 0
    /\ secrets' = Resealed(s, calls[c].held[s])
    /\ calls' = [calls EXCEPT ![c].held[s] = 0]
    /\ UNCHANGED <<lastSave, latest, overlap, keys, reported, provider>>

\* Mutant: a row that was skipped is taken for done.
RemainingUncounted(c) == {}

\* The rows not under the current key are counted again at the end.
Remaining(c) == {s \in Scopes : secrets[s].value # 0 /\ secrets[s].key # currentKey}

\* A row that does not open is skipped, so rows may be left.
RekeyReport(c) ==
    /\ At(c, "rekeying")
    /\ reported' = (keys = "both" /\ Remaining(c) = {})
    /\ Ends(c)
    /\ UNCHANGED <<secrets, lastSave, latest, overlap, keys, provider>>

\* A deployment restarts the cell: calls and the cache are gone.  The old key goes when nothing remains.
Deploy ==
    /\ \/ keys = "old" /\ keys' = "both"
       \/ keys = "both" /\ reported /\ keys' = "new"
    /\ calls' = [c \in Calls |-> NoCall]
    /\ cache' = [r \in Refs |-> NotCached]
    /\ UNCHANGED <<secrets, lastSave, latest, overlap, reported, approved, declares, binding, grants>>

----------------------------------------------------------------------------
(* Bindings, grants and the cache *)

\* permits: what the package, or ad hoc code, may resolve through a binding.
Permitted(b, gs, pkg) ==
    IF b.pkg = None THEN {} ELSE IF ~b.locked THEN Items ELSE IF pkg THEN gs ELSE {}

\* History: requests under way remember what they were allowed at any moment.
Widened(b, gs) == [c \in Calls |-> IF Idle(c) THEN calls[c] ELSE [calls[c] EXCEPT !.allowed = @ \cup Permitted(b, gs, calls[c].pkg)]]

invalidate == cache' = [r \in Refs |-> NotCached]

\* A binding to another package drops the grants.
secretProviderBind(p, locked) ==
    /\ p \in declares
    /\ binding' = [pkg |-> p, locked |-> locked]
    /\ grants' = IF binding.pkg \notin {None, p} THEN {} ELSE grants
    /\ invalidate
    /\ calls' = Widened(binding', grants')
    /\ UNCHANGED <<stored, approved, declares>>

secretProviderSetLocked(locked) ==
    /\ binding.pkg # None
    /\ binding' = [binding EXCEPT !.locked = locked]
    /\ invalidate
    /\ calls' = Widened(binding', grants)
    /\ UNCHANGED <<stored, approved, declares, grants>>

unbind ==
    /\ binding' = Unbound
    /\ grants' = {}
    /\ invalidate

secretProviderUnbind ==
    /\ binding.pkg # None
    /\ unbind
    /\ UNCHANGED <<stored, approved, declares, calls>>

secretProviderGrant(i) ==
    /\ binding.pkg # None /\ i \notin grants
    /\ grants' = grants \cup {i}
    /\ calls' = Widened(binding, grants')
    /\ UNCHANGED <<stored, approved, declares, binding, cache>>

secretProviderRevoke(i) ==
    /\ i \in grants
    /\ grants' = grants \ {i}
    /\ invalidate
    /\ UNCHANGED <<stored, approved, declares, binding, calls>>

\* A package saved with the provider drops its cached values; one without it, or deleted, is unbound.
packageSave(p) ==
    /\ declares' = declares \cup {p}
    /\ invalidate
    /\ UNCHANGED <<stored, approved, binding, grants, calls>>

packageDrops(p) ==
    /\ p \in declares
    /\ declares' = declares \ {p}
    /\ IF binding.pkg = p THEN unbind ELSE UNCHANGED <<binding, grants, cache>>
    /\ UNCHANGED <<stored, approved, calls>>

secretHostApprove ==
    /\ approved' = TRUE
    /\ UNCHANGED <<stored, declares, binding, grants, cache, calls>>

secretHostRevoke ==
    /\ approved' = FALSE
    /\ UNCHANGED <<stored, declares, binding, grants, cache, calls>>

----------------------------------------------------------------------------
(* The gateway *)

\* The approved hosts are read first.  A request names the secret under one scope or under both,
\* or one reference of the provider.
RequestSecret(c, pkg, refs) ==
    /\ Idle(c)
    /\ IF approved THEN calls' = [calls EXCEPT ![c] = [NoCall EXCEPT !.pc = "resolving", !.pkg = pkg, !.refs = refs]] ELSE UNCHANGED calls
    /\ UNCHANGED <<stored, provider>>

RequestItem(c, pkg, ref) ==
    /\ Idle(c)
    /\ calls' = [calls EXCEPT ![c] = [NoCall EXCEPT !.pc = "authorize", !.pkg = pkg, !.ref = ref, !.approved = approved,
                    !.allowed = Permitted(binding, grants, pkg)]]
    /\ UNCHANGED <<stored, provider>>

\* Package-scoped secrets are visible to their package only.
Visible(s, pkg) == secrets[s].value # 0 /\ (s = "package" => pkg)

\* secretResolveValues: the references in order; what is found is kept under the name alone.
secretResolveValues(c) ==
    LET q == calls[c]
    IN  /\ At(c, "resolving")
        /\ IF \A n \in 1..Len(q.refs) : Visible(q.refs[n], q.pkg)
           THEN calls' = [calls EXCEPT ![c].pc = "forward", ![c].got = secrets[q.refs[Len(q.refs)]].value]
           ELSE Ends(c)
        /\ UNCHANGED <<stored, provider>>

\* secretProviderAuthorize: a package with some grant may resolve a name nobody has resolved yet.
secretProviderAuthorize(c) ==
    LET q == calls[c]
        hit == cache[q.ref]
        item == IF hit = NotCached THEN q.ref ELSE hit.item
        permits == item \in Permitted(binding, grants, q.pkg) \/ (binding.pkg # None /\ ~binding.locked)
    IN  /\ At(c, "authorize")
        /\ IF binding.pkg = None \/ ~(permits \/ (hit = NotCached /\ q.pkg /\ grants # {})) THEN Ends(c)
           ELSE IF permits /\ hit # NotCached THEN calls' = [calls EXCEPT ![c].pc = "inject", ![c].item = hit.item]
           ELSE calls' = [calls EXCEPT ![c].pc = "run", ![c].by = binding.pkg, ![c].provisional = ~permits]
        /\ UNCHANGED <<stored, provider>>

\* The package bound then resolves the reference in a sealed run, unless it is gone or fails.
ProviderRun(c) ==
    /\ At(c, "run")
    /\ \/ calls[c].by \in declares
          /\ calls' = [calls EXCEPT ![c].pc = "put", ![c].item = canonicalRef(calls[c].ref)]
       \/ Ends(c)
    /\ UNCHANGED <<stored, provider>>

\* Mutant: a name that was let through provisionally is not looked at again.
NeedsRecheckNever(q) == FALSE

NeedsRecheck(q) == q.provisional \/ q.item # q.ref

\* cachePut under the name used and the canonical one (a time to live of zero keeps nothing).
cachePut(c) ==
    LET q == calls[c]
        kept == [item |-> q.item, pkg |-> q.by, late |-> q.by # binding.pkg]
    IN  /\ At(c, "put")
        /\ \/ cache' = [r \in Refs |-> IF r \in {q.ref, q.item} THEN kept ELSE cache[r]]
           \/ UNCHANGED cache
        /\ Goes(c, IF NeedsRecheck(q) THEN "recheck" ELSE "inject")
        /\ UNCHANGED <<stored, approved, declares, binding, grants>>

\* Grants are held on canonical references: the strict check after the run.
Recheck(c) ==
    /\ At(c, "recheck")
    /\ IF calls[c].item \in Permitted(binding, grants, calls[c].pkg) THEN Goes(c, "inject") ELSE Ends(c)
    /\ UNCHANGED <<stored, provider>>

\* The host is one of the item's or was approved; the request leaves.
Inject(c) ==
    /\ calls[c].pc \in {"inject", "forward"}
    /\ Ends(c)
    /\ UNCHANGED <<stored, provider>>

CacheExpires ==
    /\ \E r \in Refs : cache[r] # NotCached
    /\ invalidate
    /\ UNCHANGED <<stored, approved, declares, binding, grants, calls>>

----------------------------------------------------------------------------

Init ==
    /\ secrets = [s \in Scopes |-> NoSecret] /\ lastSave = 0
    /\ latest = [s \in Scopes |-> 0] /\ overlap = {}
    /\ keys = "old" /\ reported = FALSE
    /\ approved = FALSE /\ declares = {} /\ binding = Unbound /\ grants = {}
    /\ cache = [r \in Refs |-> NotCached]
    /\ calls = [c \in Calls |-> NoCall]

\* The capabilities secretSave and secretDelete, the administrator's routes and rotations of the key.
KeepSecrets ==
    \/ \E s \in Scopes : secretDelete(s) \/ \E c \in Calls : secretSave(c, s)
    \/ \E c \in Calls : SaveWrite(c)

Administer ==
    \/ Deploy \/ secretHostApprove \/ secretHostRevoke
    \/ \E c \in Calls : secretRekey(c) \/ RekeyReport(c) \/ \E s \in Scopes : RekeyWrite(c, s)

\* Provider capabilities, which are refused to package code, and saved packages.
ManageProvider ==
    \/ secretProviderUnbind
    \/ \E p \in Providers, locked \in BOOLEAN : secretProviderBind(p, locked)
    \/ \E locked \in BOOLEAN : secretProviderSetLocked(locked)
    \/ \E i \in Items : secretProviderGrant(i) \/ secretProviderRevoke(i)

Values ==
    \/ KeepSecrets \/ Administer
    \/ \E c \in Calls : secretResolveValues(c)
    \/ \E c \in Calls, pkg \in BOOLEAN, refs \in {<<"user">>, <<"package">>, <<"user", "package">>} : RequestSecret(c, pkg, refs)

Provided ==
    \/ ManageProvider \/ CacheExpires
    \/ \E p \in Providers : packageSave(p) \/ packageDrops(p)
    \/ \E c \in Calls : secretProviderAuthorize(c) \/ ProviderRun(c) \/ cachePut(c) \/ Recheck(c)
    \/ \E c \in Calls, pkg \in BOOLEAN, ref \in Refs : RequestItem(c, pkg, ref)

Next == Values \/ Provided \/ \E c \in Calls : Inject(c)

Spec == Init /\ [][Next]_vars

----------------------------------------------------------------------------
(* Properties *)

\* Once the old key is gone every value still opens: a rekey that reports nothing remaining stays
\* right whatever is saved meanwhile (cells/user-cell.ts secretRekey).
OldKeyUnneeded == keys = "new" => \A s \in Scopes : secrets[s].value # 0 => secrets[s].key = "new"

\* Rekeying changes no value, except one written while the rekey held an older value of the same row
\* (cells/user-cell.ts secretRekey).
ValueKept == \A s \in Scopes \ overlap : secrets[s].value = latest[s]

\* An item is only put into a request that was permitted to have it, by the canonical reference, at some
\* moment of the request (secrets/fetch-gateway.ts injectProviderSecrets).
ItemPermitted == \A c \in Calls : At(c, "inject") => calls[c].item \in calls[c].allowed

\* "rebinding [...] or unbinding all invalidate cached values": a cached value was resolved by the package
\* that is bound now, unless it was put there after its package had lost the binding
\* (secrets/provider-store.ts invalidate, docs/secret-providers.md:100).
CacheOfBinding == \A r \in Refs : cache[r] # NotCached /\ ~cache[r].late => cache[r].pkg = binding.pkg

\* A rekey loses nothing: no value, and none that only the old key opens once that is dropped
\* (cells/user-cell.ts secretRekey).
RekeySafe == OldKeyUnneeded /\ ValueKept

\* What a provider's value is used for is what was permitted, by the package that is bound
\* (secrets/fetch-gateway.ts injectProviderSecrets).
ProviderValueFits == ItemPermitted /\ CacheOfBinding
=============================================================================
