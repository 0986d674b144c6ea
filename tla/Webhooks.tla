------------------------------ MODULE Webhooks ------------------------------
(***************************************************************************)
(* The inbound webhooks of one package: the owner mints, rotates, applies, *)
(* toggles and deletes a webhook URL; the provider delivers to the URL it  *)
(* was given; the Worker's ingress admits a delivery, claims its           *)
(* idempotency key, runs the export and records how it ended.              *)
(*                                                                         *)
(* A method of the cell runs up to its next await: webhookMint and         *)
(* webhookRotate await the sealing of a fresh secret, webhookAdmit awaits  *)
(* the hash of the secret in the URL, so other calls come in between.      *)
(* Handles and secrets are numbers, fresh at each mint and rotation.  The  *)
(* clock counts half minutes.                                              *)
(***************************************************************************)
EXTENDS Integers, Sequences, FiniteSets

CONSTANTS Names,          \* webhooks the package may declare
          Owners,         \* concurrent calls of the owner
          Requests,       \* deliveries, each made once
          DeliveryKeys,   \* provider delivery ids: matched by key alone
          ClientKeys,     \* idempotency keys: the payload must match too
          NoKey,
          ResponseModes,  \* response modes the package may declare
          Payloads,
          RateLimit,      \* rateLimitPerMinute
          Quota,          \* webhooks quota, 0 for none
          Grace,          \* webhookPreviousSecretGraceMs, in half minutes
          LedgerKeep,     \* idempotency keys kept per webhook (1000)
          DeliveryKeep,   \* delivery records kept per webhook (200)
          Crashes,        \* whether a Worker may stop
          MaxIssued,      \* bound: secrets issued
          MaxTime         \* bound: the clock

ASSUME WebhooksAssumption ==
    /\ MaxIssued \in Nat /\ MaxTime \in Nat /\ Quota \in Nat /\ Grace \in Nat
    /\ RateLimit \in Nat \ {0} /\ LedgerKeep \in Nat \ {0} /\ DeliveryKeep \in Nat \ {0}
    /\ Crashes \in BOOLEAN
    /\ ResponseModes \subseteq {"ack", "sync"}
    /\ NoKey \notin DeliveryKeys \cup ClientKeys

VARIABLES now,         \* the clock
          declared,    \* the response mode each webhook is declared with, or "none"
          hooks,       \* the webhooks table
          rate,        \* webhook_rate of each handle: the one minute it counts
          overtaken,   \* history: deliveries of each handle admitted for a minute earlier than the one it counted
          ledger,      \* webhook_idempotency of each handle, oldest first
          claims,      \* keys claimed on each handle so far
          deliveries,  \* webhook_deliveries of each handle, oldest first
          provider,    \* the URL the provider of each webhook has been given
          issued,      \* secrets issued so far
          owner,       \* the owner's calls
          req          \* the deliveries

vars == <<now, declared, hooks, rate, overtaken, ledger, claims, deliveries, provider, issued, owner, req>>
tables == <<hooks, rate, overtaken, ledger, claims, deliveries>>
config == <<declared, provider, issued, owner>>

Handles == 1..MaxIssued
Modes == ResponseModes \cup {"none"}
Keys == DeliveryKeys \cup ClientKeys

\* handle 0: no row; previous 0: previous_secret_hash is NULL.
NoHook == [handle |-> 0, secret |-> 0, previous |-> 0, expires |-> 0, enabled |-> FALSE]
NoUrl == [handle |-> 0, secret |-> 0]
IdleOwner == [pc |-> "idle", name |-> CHOOSE w \in Names : TRUE, handle |-> 0, secret |-> 0, reply |-> "none"]
NoPayload == CHOOSE p \in Payloads : TRUE
NewRequest == [pc |-> "new", name |-> CHOOSE w \in Names : TRUE, handle |-> 0, secret |-> 0,
               key |-> NoKey, payload |-> NoPayload, at |-> 0,
               row |-> NoHook, mode |-> "none", claim |-> 0, outcome |-> "none", reply |-> "none"]

Minute(t) == t \div 2
Minted == {w \in Names : hooks[w].handle # 0}
Live(row, t) == row.previous # 0 /\ row.expires > t
Hashed(k) == k \in ClientKeys
Newest(s, n) == SubSeq(s, IF Len(s) > n THEN Len(s) - n + 1 ELSE 1, Len(s))
withinQuota(limit, used) == limit = 0 \/ used < limit

----------------------------------------------------------------------------
(* The owner: minting, rotating, applying *)

OwnerAt(o, pc, w, h, s) == owner' = [owner EXCEPT ![o] = [pc |-> pc, name |-> w, handle |-> h, secret |-> s, reply |-> "none"]]
Returns(o, reply) == owner' = [owner EXCEPT ![o] = [IdleOwner EXCEPT !.reply = reply]]

\* The existing mint is returned; a new one needs room in the quota.
MintBegin(o, w) ==
    /\ owner[o].pc = "idle"
    /\ declared[w] # "none"
    /\ IF w \in Minted THEN Returns(o, "ok")
       ELSE IF withinQuota(Quota, Cardinality(Minted)) THEN OwnerAt(o, "minting", w, 0, 0)
       ELSE Returns(o, "quota_exceeded")
    /\ UNCHANGED <<now, declared, provider, issued, req, tables>>

\* The secret is sealed: the row is inserted, if (package_name, webhook_name) is still free.
MintInsert(o) ==
    LET w == owner[o].name
    IN  /\ owner[o].pc = "minting"
        /\ issued < MaxIssued
        /\ IF w \in Minted
           THEN Returns(o, "constraint_failed") /\ UNCHANGED <<hooks, issued>>
           ELSE /\ Returns(o, "ok")
                /\ issued' = issued + 1
                /\ hooks' = [hooks EXCEPT ![w] = [handle |-> issued + 1, secret |-> issued + 1, previous |-> 0,
                                                  expires |-> 0, enabled |-> TRUE]]
        /\ UNCHANGED <<now, declared, rate, overtaken, ledger, claims, deliveries, provider, req>>

RotateBegin(o, w) ==
    /\ owner[o].pc = "idle" /\ w \in Minted
    /\ OwnerAt(o, "rotating", w, hooks[w].handle, 0)
    /\ UNCHANGED <<now, declared, provider, issued, req, tables>>

\* The new secret is sealed: whatever the row's secret is by now becomes the previous one.
RotateWrite(o) ==
    LET w == owner[o].name
    IN  /\ owner[o].pc = "rotating"
        /\ issued < MaxIssued
        /\ issued' = issued + 1
        /\ hooks' = IF hooks[w].handle # owner[o].handle THEN hooks
                    ELSE [hooks EXCEPT ![w] = [handle |-> @.handle, secret |-> issued + 1, previous |-> @.secret,
                                               expires |-> now + Grace, enabled |-> @.enabled]]
        /\ Returns(o, "ok")
        /\ UNCHANGED <<now, declared, rate, overtaken, ledger, claims, deliveries, provider, req>>

\* webhookUrlApply reveals the current URL and later gives it to the provider.
ApplyReveal(o, w) ==
    /\ owner[o].pc = "idle" /\ w \in Minted
    /\ OwnerAt(o, "applying", w, hooks[w].handle, hooks[w].secret)
    /\ UNCHANGED <<now, declared, provider, issued, req, tables>>

ApplySend(o) ==
    /\ owner[o].pc = "applying"
    /\ provider' = [provider EXCEPT ![owner[o].name] = [handle |-> owner[o].handle, secret |-> owner[o].secret]]
    /\ Returns(o, "ok")
    /\ UNCHANGED <<now, declared, issued, req, tables>>

\* The provider refuses the call.
ApplyFails(o) ==
    /\ owner[o].pc = "applying"
    /\ Returns(o, "provider_rejected")
    /\ UNCHANGED <<now, declared, provider, issued, req, tables>>

webhookSetEnabled(w, enabled) ==
    /\ w \in Minted /\ hooks[w].enabled # enabled
    /\ hooks' = [hooks EXCEPT ![w].enabled = enabled]
    /\ UNCHANGED <<now, rate, overtaken, ledger, claims, deliveries, config, req>>

\* The rows that name the handles of the deleted webhooks go with them.
Forget(W) ==
    LET H == {hooks[w].handle : w \in W}
        Cleared(f, v) == [h \in Handles |-> IF h \in H THEN v ELSE f[h]]
    IN  /\ hooks' = [w \in Names |-> IF w \in W THEN NoHook ELSE hooks[w]]
        /\ rate' = Cleared(rate, [minute |-> 0, n |-> 0])
        /\ ledger' = Cleared(ledger, <<>>)
        /\ deliveries' = Cleared(deliveries, <<>>)

webhookDelete(w) ==
    /\ w \in Minted
    /\ Forget({w})
    /\ UNCHANGED <<now, overtaken, claims, config, req>>

\* The package is saved: mints outlive a declaration that is dropped.
packageSave(modes) ==
    /\ modes # declared
    /\ declared' = modes
    /\ UNCHANGED <<now, provider, issued, owner, req, tables>>

packageDelete ==
    /\ \E w \in Names : declared[w] # "none"
    /\ declared' = [w \in Names |-> "none"]
    /\ Forget(Minted)
    /\ UNCHANGED <<now, overtaken, claims, provider, issued, owner, req>>

----------------------------------------------------------------------------
(* The ingress: admission *)

\* The webhook the URL was made for still exists.
Known(q) == hooks[q.name].handle = q.handle

\* The provider delivers to the URL it has; the ingress reads the clock and calls the cell.
Arrive(r, w, k, p) ==
    /\ req[r].pc = "new" /\ provider[w] # NoUrl
    /\ req' = [req EXCEPT ![r] = [NewRequest EXCEPT !.pc = "arrived", !.name = w, !.handle = provider[w].handle,
                                  !.secret = provider[w].secret, !.key = k, !.at = now,
                                  !.payload = IF Hashed(k) THEN p ELSE NoPayload]]
    /\ UNCHANGED <<now, config, tables>>

\* webhookAdmit looks the row up and awaits the hash.
AdmitRead(r) ==
    /\ req[r].pc = "arrived"
    /\ req' = [req EXCEPT ![r] = IF Known(@)
                                 THEN [@ EXCEPT !.pc = "hashing", !.row = hooks[req[r].name]]
                                 ELSE [@ EXCEPT !.pc = "done", !.reply = "not_found"]]
    /\ UNCHANGED <<now, config, tables>>

MatchesCurrent(q) == q.secret = q.row.secret
Matches(q) == MatchesCurrent(q) \/ (Live(q.row, q.at) /\ q.secret = q.row.previous)

\* The definition is looked up in the manifest as it is now.
Declared(q) == declared[q.name] # "none"

Count(q) == IF rate[q.handle].minute = Minute(q.at) THEN rate[q.handle].n ELSE 0

\* The delivery is counted for the minute its caller's clock read, in the place of any other minute.
CountOne(q) ==
    /\ rate' = [rate EXCEPT ![q.handle] = [minute |-> Minute(q.at), n |-> Count(q) + 1]]
    /\ overtaken' = [overtaken EXCEPT ![q.handle] = IF Minute(q.at) < rate[q.handle].minute THEN @ + 1 ELSE @]

\* A refusal on the row as it was read: secret_mismatch, disabled, not_declared.
AdmitRefuse(r) ==
    LET q == req[r]
    IN  /\ q.pc = "hashing"
        /\ ~Matches(q) \/ ~q.row.enabled \/ ~Declared(q)
        /\ req' = [req EXCEPT ![r] = [q EXCEPT !.pc = "rejecting", !.row = NoHook, !.reply = "not_found"]]
        /\ UNCHANGED <<now, config, tables>>

\* Other minutes are dropped from webhook_rate before the limit is looked at.
AdmitLimited(r) ==
    LET q == req[r]
    IN  /\ q.pc = "hashing"
        /\ Matches(q) /\ q.row.enabled /\ Declared(q)
        /\ Count(q) >= RateLimit
        /\ rate' = [rate EXCEPT ![q.handle] = [minute |-> Minute(q.at), n |-> Count(q)]]
        /\ req' = [req EXCEPT ![r] = [q EXCEPT !.pc = "rejecting", !.row = NoHook, !.reply = "rate_limited"]]
        /\ UNCHANGED <<now, config, hooks, overtaken, ledger, claims, deliveries>>

\* Mutant: the delivery is admitted and not counted.
AdmitUncounted(r) ==
    LET q == req[r]
    IN  /\ q.pc = "hashing"
        /\ Matches(q) /\ q.row.enabled /\ Declared(q)
        /\ Count(q) < RateLimit
        /\ req' = [req EXCEPT ![r] = [q EXCEPT !.pc = "admitted", !.row = NoHook, !.mode = declared[q.name]]]
        /\ UNCHANGED <<now, config, tables>>

\* Mutant: the previous secret is kept until it expires.
AdmitKeepsPrevious(r) ==
    LET q == req[r]
    IN  /\ q.pc = "hashing"
        /\ Matches(q) /\ q.row.enabled /\ Declared(q)
        /\ Count(q) < RateLimit
        /\ CountOne(q)
        /\ req' = [req EXCEPT ![r] = [q EXCEPT !.pc = "admitted", !.row = NoHook, !.mode = declared[q.name]]]
        /\ UNCHANGED <<now, config, hooks, ledger, claims, deliveries>>

\* An admission on the secret that was current clears the previous one.
Admit(r) ==
    LET q == req[r]
    IN  /\ q.pc = "hashing"
        /\ Matches(q) /\ q.row.enabled /\ Declared(q)
        /\ Count(q) < RateLimit
        /\ CountOne(q)
        /\ hooks' = IF MatchesCurrent(q) /\ q.row.previous # 0 /\ Known(q)
                    THEN [hooks EXCEPT ![q.name].previous = 0, ![q.name].expires = 0]
                    ELSE hooks
        /\ req' = [req EXCEPT ![r] = [q EXCEPT !.pc = "admitted", !.row = NoHook, !.mode = declared[q.name]]]
        /\ UNCHANGED <<now, config, ledger, claims, deliveries>>

----------------------------------------------------------------------------
(* The ingress: checks, idempotency, the run *)

Goto(r, pc) == req' = [req EXCEPT ![r].pc = pc]
Rejects(r, reply) == req' = [req EXCEPT ![r] = [@ EXCEPT !.pc = "rejecting", !.reply = reply]]

\* Body size, timestamp, signature, parameters and the length of the key are checked.
Verify(r) ==
    /\ req[r].pc = "admitted"
    /\ \/ Rejects(r, "refused")
       \/ Goto(r, IF req[r].key = NoKey THEN "recording" ELSE "claiming")
    /\ UNCHANGED <<now, config, tables>>

Rows(q) == {i \in 1..Len(ledger[q.handle]) : ledger[q.handle][i].key = q.key}
Row(q) == ledger[q.handle][CHOOSE i \in Rows(q) : TRUE]
Conflicts(q) == Hashed(q.key) /\ Row(q).payload # q.payload

\* Mutant: only finished rows are looked for, an unfinished one is claimed anew.
ClaimUnfinished(r) ==
    LET q == req[r]
        h == q.handle
    IN  /\ q.pc = "claiming" /\ (Rows(q) # {} => Row(q).status = "running")
        /\ claims' = [claims EXCEPT ![h] = @ + 1]
        /\ ledger' = [ledger EXCEPT ![h] = Newest(Append(SelectSeq(@, LAMBDA e : e.key # q.key),
                                                         [key |-> q.key, payload |-> q.payload, status |-> "running"]),
                                                  LedgerKeep)]
        /\ req' = [req EXCEPT ![r] = [q EXCEPT !.pc = "recording", !.claim = claims[h] + 1]]
        /\ UNCHANGED <<now, config, hooks, rate, overtaken, deliveries>>

\* webhookIdempotencyClaim finds no row: it inserts one and drops the oldest.
ClaimNew(r) ==
    LET q == req[r]
        h == q.handle
    IN  /\ q.pc = "claiming" /\ Rows(q) = {}
        /\ claims' = [claims EXCEPT ![h] = @ + 1]
        /\ ledger' = [ledger EXCEPT ![h] = Newest(Append(@, [key |-> q.key, payload |-> q.payload, status |-> "running"]),
                                                  LedgerKeep)]
        /\ req' = [req EXCEPT ![r] = [q EXCEPT !.pc = "recording", !.claim = claims[h] + 1]]
        /\ UNCHANGED <<now, config, hooks, rate, overtaken, deliveries>>

\* It finds one: a conflict, a delivery in progress, or the answer of an earlier one.
ClaimTaken(r) ==
    LET q == req[r]
    IN  /\ q.pc = "claiming" /\ Rows(q) # {}
        /\ req' = [req EXCEPT ![r] =
             IF Conflicts(q) THEN [q EXCEPT !.pc = "rejecting", !.reply = "idempotency_mismatch"]
             ELSE [q EXCEPT !.pc = "replaying",
                            !.reply = CASE Row(q).status = "running" -> "in_progress"
                                        [] Row(q).status = "success" -> "replay_ok"
                                        [] Row(q).status = "error"   -> "replay_failed"]]
        /\ UNCHANGED <<now, config, tables>>

Record(r, status) ==
    deliveries' = [deliveries EXCEPT ![req[r].handle] =
        Newest(Append(@, [by |-> r, status |-> status]), DeliveryKeep)]

RecordRejected(r) ==
    /\ req[r].pc = "rejecting"
    /\ Record(r, "rejected") /\ Goto(r, "done")
    /\ UNCHANGED <<now, config, hooks, rate, overtaken, ledger, claims>>

RecordReplayed(r) ==
    /\ req[r].pc = "replaying"
    /\ Record(r, "replayed") /\ Goto(r, "done")
    /\ UNCHANGED <<now, config, hooks, rate, overtaken, ledger, claims>>

\* In ack mode the provider has its answer here, the run goes on in the background.
RecordAccepted(r) ==
    /\ req[r].pc = "recording"
    /\ Record(r, "accepted")
    /\ req' = [req EXCEPT ![r].pc = "executing", ![r].reply = IF req[r].mode = "ack" THEN "accepted" ELSE "none"]
    /\ UNCHANGED <<now, config, hooks, rate, overtaken, ledger, claims>>

\* executeRun answers, or throws, which is recorded as an error.
Execute(r, outcome) ==
    /\ req[r].pc = "executing"
    /\ req' = [req EXCEPT ![r] = [@ EXCEPT !.pc = "finishing", !.outcome = outcome]]
    /\ UNCHANGED <<now, config, tables>>

Answer(q) == IF q.mode = "ack" THEN "accepted" ELSE IF q.outcome = "success" THEN "ok" ELSE "failed"

\* The record may have been dropped by now.
webhookDeliveryFinish(r) ==
    LET q == req[r]
    IN  /\ q.pc = "finishing"
        /\ deliveries' = [deliveries EXCEPT ![q.handle] =
             [i \in 1..Len(@) |-> IF @[i].by = r THEN [by |-> r, status |-> q.outcome] ELSE @[i]]]
        /\ req' = [req EXCEPT ![r] = IF q.key = NoKey THEN [q EXCEPT !.pc = "done", !.reply = Answer(q)]
                                     ELSE [q EXCEPT !.pc = "settling"]]
        /\ UNCHANGED <<now, config, hooks, rate, overtaken, ledger, claims>>

\* Mutant: a failed run leaves its key claimed.
IdempotencyFinishOnSuccess(r) ==
    LET q == req[r]
    IN  /\ q.pc = "settling"
        /\ ledger' = [ledger EXCEPT ![q.handle] =
             [i \in 1..Len(@) |-> IF @[i].key = q.key /\ q.outcome = "success"
                                  THEN [@[i] EXCEPT !.status = q.outcome] ELSE @[i]]]
        /\ req' = [req EXCEPT ![r] = [q EXCEPT !.pc = "done", !.reply = Answer(q)]]
        /\ UNCHANGED <<now, config, hooks, rate, overtaken, claims, deliveries>>

webhookIdempotencyFinish(r) ==
    LET q == req[r]
    IN  /\ q.pc = "settling"
        /\ ledger' = [ledger EXCEPT ![q.handle] =
             [i \in 1..Len(@) |-> IF @[i].key = q.key THEN [@[i] EXCEPT !.status = q.outcome] ELSE @[i]]]
        /\ req' = [req EXCEPT ![r] = [q EXCEPT !.pc = "done", !.reply = Answer(q)]]
        /\ UNCHANGED <<now, config, hooks, rate, overtaken, claims, deliveries>>

\* The Worker stops: the delivery goes no further.
Crash(r) ==
    /\ Crashes /\ req[r].pc \notin {"new", "done"}
    /\ req' = [req EXCEPT ![r] = [@ EXCEPT !.pc = "done", !.row = NoHook]]
    /\ UNCHANGED <<now, config, tables>>

Tick ==
    /\ now < MaxTime
    /\ now' = now + 1
    /\ UNCHANGED <<config, req, tables>>

----------------------------------------------------------------------------
Init ==
    /\ now = 0
    /\ declared = [w \in Names |-> "none"]
    /\ hooks = [w \in Names |-> NoHook]
    /\ rate = [h \in Handles |-> [minute |-> 0, n |-> 0]]
    /\ overtaken = [h \in Handles |-> 0]
    /\ ledger = [h \in Handles |-> <<>>]
    /\ claims = [h \in Handles |-> 0]
    /\ deliveries = [h \in Handles |-> <<>>]
    /\ provider = [w \in Names |-> NoUrl]
    /\ issued = 0
    /\ owner = [o \in Owners |-> IdleOwner]
    /\ req = [r \in Requests |-> NewRequest]

OwnerStep(o) ==
    \/ \E w \in Names : MintBegin(o, w) \/ RotateBegin(o, w) \/ ApplyReveal(o, w)
    \/ MintInsert(o) \/ RotateWrite(o) \/ ApplySend(o) \/ ApplyFails(o)

Ingress(r) ==
    \/ AdmitRead(r) \/ AdmitRefuse(r) \/ AdmitLimited(r) \/ Admit(r) \/ Verify(r)
    \/ ClaimNew(r) \/ ClaimTaken(r)
    \/ RecordRejected(r) \/ RecordReplayed(r) \/ RecordAccepted(r)
    \/ \E o \in {"success", "error"} : Execute(r, o)
    \/ webhookDeliveryFinish(r) \/ webhookIdempotencyFinish(r)

Next ==
    \/ \E o \in Owners : OwnerStep(o)
    \/ \E w \in Names : webhookDelete(w) \/ \E b \in BOOLEAN : webhookSetEnabled(w, b)
    \/ \E modes \in [Names -> Modes] : packageSave(modes)
    \/ packageDelete
    \/ \E r \in Requests :
          \/ \E w \in Names, k \in Keys \cup {NoKey}, p \in Payloads : Arrive(r, w, k, p)
          \/ Ingress(r) \/ Crash(r)
    \/ Tick

(***************************************************************************)
(* Fairness: the Worker goes on with a delivery it has begun, calls to the *)
(* cell return and executeRun ends (RunSettles in module Runs).            *)
(***************************************************************************)
Fairness == \A r \in Requests : WF_vars(Ingress(r))
Spec == Init /\ [][Next]_vars
FairSpec == Spec /\ Fairness

----------------------------------------------------------------------------
(* Every variable keeps its shape, and neither ledger outgrows its limit. *)
HookRows == [handle : 0..MaxIssued, secret : 0..MaxIssued, previous : 0..MaxIssued, expires : Nat, enabled : BOOLEAN]
TypeOK ==
    /\ now \in Nat /\ issued \in 0..MaxIssued
    /\ declared \in [Names -> Modes]
    /\ hooks \in [Names -> HookRows]
    /\ rate \in [Handles -> [minute : Nat, n : 0..RateLimit]] /\ overtaken \in [Handles -> Nat]
    /\ \A h \in Handles :
          /\ Len(ledger[h]) <= LedgerKeep /\ Len(deliveries[h]) <= DeliveryKeep
          /\ \A i \in 1..Len(ledger[h]) :
                ledger[h][i] \in [key : Keys, payload : Payloads, status : {"running", "success", "error"}]
          /\ \A i \in 1..Len(deliveries[h]) :
                deliveries[h][i] \in [by : Requests, status : {"accepted", "success", "error", "rejected", "replayed"}]
    /\ \A w \in Names : provider[w].handle <= issued /\ provider[w].secret <= issued

Admitted(r) == req[r].mode # "none"

(***************************************************************************)
(* Idempotency of deliveries: two deliveries with the same key on the same *)
(* webhook never run the export at the same time, unless LedgerKeep newer  *)
(* keys were claimed in between or the webhook was deleted meanwhile.      *)
(***************************************************************************)
Running(r) == req[r].pc \in {"recording", "executing", "finishing", "settling"} /\ req[r].key # NoKey
OneRunPerKey ==
    \A r, s \in Requests :
        Running(r) /\ Running(s) /\ req[r].handle = req[s].handle /\ req[r].key = req[s].key /\ req[r].claim < req[s].claim
        => req[s].claim - req[r].claim > LedgerKeep \/ ~Known(req[r])

(***************************************************************************)
(* user-cell.ts:2363, "a different payload under the same key is a         *)
(* conflict": the answer replayed to a delivery is how the run of another  *)
(* delivery with the same key, and for a client key the same payload,      *)
(* ended, as long as the webhook exists and none of its keys was dropped.  *)
(***************************************************************************)
ReplayHonest ==
    \A r \in Requests :
        req[r].reply \in {"replay_ok", "replay_failed"} /\ Known(req[r]) /\ claims[req[r].handle] <= LedgerKeep =>
        \E s \in Requests :
            /\ s # r /\ req[s].handle = req[r].handle /\ req[s].key = req[r].key
            /\ req[s].outcome = (IF req[r].reply = "replay_ok" THEN "success" ELSE "error")
            /\ Hashed(req[r].key) => req[s].payload = req[r].payload

\* The idempotency ledger (webhooks/ingress.ts): no two runs of one key at once, and honest replays.
LedgerSound == OneRunPerKey /\ ReplayHonest

(***************************************************************************)
(* What the limit per minute is worth (user-cell.ts:2188 "counts the       *)
(* delivery against the per-minute rate limit"): a minute of the callers'  *)
(* clocks admits no more deliveries on a webhook than its limit, and again *)
(* as many for each delivery that came after a newer minute was counted,   *)
(* whose count it deletes.  The minutes are those of the clock: what       *)
(* docs/webhooks.md:56 calls a "sliding window" starts anew with each.     *)
(***************************************************************************)
RateLimitHolds ==
    \A w \in Minted, m \in 0..Minute(MaxTime) :
        LET h == hooks[w].handle
        IN  Cardinality({r \in Requests : Admitted(r) /\ req[r].handle = h /\ Minute(req[r].at) = m})
              <= RateLimit * (1 + overtaken[h])

\* The limits of the ingress (webhooks/ingress.ts, cells/user-cell.ts): on rows kept and on deliveries admitted.
LimitsHold == TypeOK /\ RateLimitHolds

(***************************************************************************)
(* Rotation revokes: once a delivery on the current secret of a webhook    *)
(* was accepted, the webhook has no previous secret, whatever rotations    *)
(* and deliveries overlapped.                                              *)
(***************************************************************************)
PreviousRevoked ==
    \A w \in Minted : hooks[w].previous # 0 =>
        ~\E r \in Requests : Admitted(r) /\ req[r].handle = hooks[w].handle /\ req[r].secret = hooks[w].secret

(***************************************************************************)
(* A key claimed by a delivery is settled or dropped: without crashes the  *)
(* provider's retries are not answered `in progress` for ever.             *)
(***************************************************************************)
Pending(h, k) == \E i \in 1..Len(ledger[h]) : ledger[h][i].key = k /\ ledger[h][i].status = "running"
KeySettles == \A h \in Handles, k \in Keys : Pending(h, k) ~> ~Pending(h, k)
=============================================================================
