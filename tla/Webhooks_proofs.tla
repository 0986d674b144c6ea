-------------------------- MODULE Webhooks_proofs --------------------------
(***************************************************************************)
(* Proofs about module Webhooks, for any webhooks, callers, deliveries,    *)
(* keys, limits and bounds, with Workers that may stop.                    *)
(***************************************************************************)
EXTENDS Webhooks, FiniteSetTheorems, SequenceTheorems, TLAPS

-----------------------------------------------------------------------------
(* The inductive invariant *)

AnyName == CHOOSE w \in Names : TRUE
Statuses == {"running", "success", "error"}
LedgerRows == [key : Keys, payload : Payloads, status : Statuses]
DeliveryRows == [by : Requests, status : {"accepted", "success", "error", "rejected", "replayed"}]
OwnerRows == [pc : {"idle", "minting", "rotating", "applying"}, name : Names \cup {AnyName},
              handle : 0..MaxIssued, secret : 0..MaxIssued,
              reply : {"none", "ok", "quota_exceeded", "constraint_failed", "provider_rejected"}]
ReqRows == [pc : {"new", "arrived", "hashing", "rejecting", "admitted", "claiming", "replaying", "recording",
                  "executing", "finishing", "settling", "done"},
            name : Names \cup {AnyName}, handle : 0..MaxIssued, secret : 0..MaxIssued,
            key : Keys \cup {NoKey}, payload : Payloads \cup {NoPayload}, at : Nat, row : HookRows, mode : Modes,
            claim : Nat, outcome : {"none", "success", "error"},
            reply : {"none", "not_found", "rate_limited", "refused", "idempotency_mismatch", "in_progress",
                     "replay_ok", "replay_failed", "accepted", "ok", "failed"}]

\* The type of every variable.
Types ==
    /\ now \in Nat /\ issued \in 0..MaxIssued
    /\ declared \in [Names -> Modes]
    /\ hooks \in [Names -> HookRows]
    /\ rate \in [Handles -> [minute : Nat, n : 0..RateLimit]]
    /\ overtaken \in [Handles -> Nat]
    /\ ledger \in [Handles -> Seq(LedgerRows)]
    /\ claims \in [Handles -> Nat]
    /\ deliveries \in [Handles -> Seq(DeliveryRows)]
    /\ provider \in [Names -> [handle : 0..MaxIssued, secret : 0..MaxIssued]]
    /\ owner \in [Owners -> OwnerRows]
    /\ req \in [Requests -> ReqRows]

Lengths == \A h \in Handles : Len(ledger[h]) <= LedgerKeep /\ Len(deliveries[h]) <= DeliveryKeep

\* What has been handed out was issued; a delivery that was made names a webhook and came before now.
Given(h, s) == h \in 1..issued /\ s \in 1..issued
HooksGiven == \A w \in Names : hooks[w].handle # 0 => Given(hooks[w].handle, hooks[w].secret)
UrlsGiven == \A w \in Names : provider[w] # NoUrl => Given(provider[w].handle, provider[w].secret)
CallsGiven ==
    \A x \in Owners :
        /\ owner[x].pc # "idle" => owner[x].name \in Names
        /\ owner[x].pc = "applying" => Given(owner[x].handle, owner[x].secret)
SentGiven ==
    \A r \in Requests :
        IF req[r].pc = "new" THEN req[r] = NewRequest
        ELSE /\ req[r].name \in Names /\ Given(req[r].handle, req[r].secret)
             /\ req[r].at <= now /\ req[r].payload \in Payloads
Issued == HooksGiven /\ UrlsGiven /\ CallsGiven /\ SentGiven

\* What a delivery carries at its stages.
Stage(q) ==
    /\ q.pc = "hashing" => q.row.handle = q.handle
    /\ q.pc \in {"claiming", "settling"} => q.key # NoKey
    /\ q.pc \in {"finishing", "settling"} => q.outcome # "none"
Stages == \A r \in Requests : Stage(req[r])

\* A handle is one webhook's, wherever it is held.
OneHolder ==
    \A w \in Minted :
        /\ \A v \in Names : hooks[v].handle = hooks[w].handle => v = w
        /\ \A v \in Names : provider[v].handle = hooks[w].handle => v = w
        /\ \A o \in Owners : owner[o].pc = "applying" /\ owner[o].handle = hooks[w].handle => owner[o].name = w
        /\ \A r \in Requests : req[r].pc # "new" /\ req[r].handle = hooks[w].handle => req[r].name = w

TInv == Types /\ Lengths /\ Issued /\ Stages /\ OneHolder

\* A row that was read is the row as it is, or older: while its secret is current, no previous secret was added.
RowsRead ==
    \A r \in Requests : req[r].pc = "hashing" =>
        LET read == req[r].row
            row == hooks[req[r].name]
        IN  /\ read.previous < read.secret
            /\ Known(req[r]) => /\ read.secret <= row.secret
                                /\ read.secret = row.secret => row.previous \in {0, read.previous}
PreviousOlder == \A w \in Minted : hooks[w].previous < hooks[w].secret
SecretInv == PreviousOlder /\ RowsRead /\ PreviousRevoked

\* What webhook_rate leaves room for in minute m: the minute it counts is told by its count, a later one has had
\* no delivery but those counted before an earlier minute took its place, k of which there were.
AdmittedIn(h, m) == {r \in Requests : Admitted(r) /\ req[r].handle = h /\ Minute(req[r].at) = m}
RoomOf(counted, k, m) ==
    IF m = counted.minute THEN RateLimit * k + counted.n
    ELSE IF m > counted.minute THEN RateLimit * k ELSE RateLimit * k + RateLimit
Room(h, m) == RoomOf(rate[h], overtaken[h], m)
RateInv ==
    \A w \in Minted : \A m \in Nat :
        LET h == hooks[w].handle
        IN  IsFiniteSet(AdmittedIn(h, m)) /\ Cardinality(AdmittedIn(h, m)) <= Room(h, m)

\* What a delivery has claimed and how its run ended, at its stages.
ClaimStage(q) ==
    /\ q.pc \in {"new", "arrived", "hashing", "admitted", "claiming"} => q.claim = 0
    /\ q.pc \in {"new", "arrived", "hashing", "admitted", "claiming", "recording", "executing"} => q.outcome = "none"
    /\ q.pc \in {"recording", "executing", "finishing", "settling"} /\ q.key # NoKey => q.claim # 0
Claims ==
    /\ \A r \in Requests : ClaimStage(req[r])
    /\ \A r \in Requests : req[r].claim # 0 => req[r].claim <= claims[req[r].handle]
    /\ \A r, s \in Requests :
          req[r].claim # 0 /\ req[s].claim = req[r].claim /\ req[s].handle = req[r].handle => s = r
    /\ \A h \in Handles : h > issued => claims[h] = 0 /\ ledger[h] = <<>>

\* The ledger of a webhook that exists holds the newest claims, in order: row i is claim FirstClaim(h) + i;
\* until one was dropped, every row is told by the delivery that claimed it.
FirstClaim(h) == claims[h] - Len(ledger[h])
ClaimOf(r, h, i) == req[r].handle = h /\ req[r].claim = FirstClaim(h) + i
Newly(h) == Len(ledger[h]) = IF claims[h] > LedgerKeep THEN LedgerKeep ELSE claims[h]
Apart(h) == \A i, j \in 1..Len(ledger[h]) : ledger[h][i].key = ledger[h][j].key => i = j
Keyed(h) == \A r \in Requests, i \in 1..Len(ledger[h]) : ClaimOf(r, h, i) => ledger[h][i].key = req[r].key
ToldBy(r, h, i) ==
    /\ ClaimOf(r, h, i) /\ ledger[h][i].payload = req[r].payload
    /\ ledger[h][i].status # "running" => req[r].outcome = ledger[h][i].status
Told(h) == claims[h] <= LedgerKeep => \A i \in 1..Len(ledger[h]) : \E r \in Requests : ToldBy(r, h, i)
Kept(h) == Newly(h) /\ Apart(h) /\ Keyed(h) /\ Told(h)
Held(h) == \E w \in Names : hooks[w].handle = h
LedgerInv == Claims /\ (\A h \in Handles : Held(h) => Kept(h)) /\ OneRunPerKey

-----------------------------------------------------------------------------
(* Lemmas on the operators *)

\* Dropping the oldest rows keeps the newest n, in order.
LEMMA NewestEffect ==
    ASSUME NEW S, NEW s \in Seq(S), NEW n \in Nat \ {0}
    PROVE  /\ Newest(s, n) \in Seq(S)
           /\ Len(Newest(s, n)) = IF Len(s) > n THEN n ELSE Len(s)
           /\ \A i \in 1..Len(Newest(s, n)) : Newest(s, n)[i] = s[Len(s) - Len(Newest(s, n)) + i]
<1> DEFINE first == IF Len(s) > n THEN Len(s) - n + 1 ELSE 1
<1>1. Len(s) \in Nat /\ first \in Nat \ {0} /\ Newest(s, n) = SubSeq(s, first, Len(s))
  BY DEF Newest
<1>2. \A i \in first..Len(s) : s[i] \in S
  BY <1>1
<1>3. Len(s) - first + 1 = IF Len(s) > n THEN n ELSE Len(s)
  BY <1>1
<1> HIDE DEF first
<1>4. /\ SubSeq(s, first, Len(s)) \in Seq(S)
      /\ Len(SubSeq(s, first, Len(s))) = IF first <= Len(s) THEN Len(s) - first + 1 ELSE 0
      /\ \A i \in 1..(Len(s) - first + 1) : SubSeq(s, first, Len(s))[i] = s[first + i - 1]
  BY <1>1, <1>2, SubSeqProperties
<1> DEFINE t == Newest(s, n)
<1>5. /\ t \in Seq(S) /\ Len(t) = IF first <= Len(s) THEN Len(s) - first + 1 ELSE 0
      /\ \A i \in 1..(Len(s) - first + 1) : t[i] = s[first + i - 1]
  BY <1>1, <1>4
<1> HIDE DEF t
<1>6. Len(t) = Len(s) - first + 1
  BY <1>1, <1>3, <1>5
<1>7. \A i \in 1..Len(t) : t[i] = s[Len(s) - Len(t) + i]
  <2> TAKE i \in 1..Len(t)
  <2>1. first + i - 1 = Len(s) - Len(t) + i
    BY <1>1, <1>6
  <2> QED BY <1>5, <1>6, <2>1
<1> QED BY <1>3, <1>5, <1>6, <1>7 DEF t

\* Appending a row and dropping the oldest one when there are n.
Pushed(t, s, e, n) ==
    /\ Len(t) = IF Len(s) = n THEN n ELSE Len(s) + 1
    /\ \A i \in 1..Len(t) : t[i] = IF i = Len(t) THEN e ELSE s[Len(s) + 1 - Len(t) + i]
LEMMA PushEffect ==
    ASSUME NEW S, NEW s \in Seq(S), NEW e \in S, NEW n \in Nat \ {0}, Len(s) <= n,
           NEW t, t = Newest(Append(s, e), n)
    PROVE  t \in Seq(S) /\ Pushed(t, s, e, n)
<1> DEFINE a == Append(s, e)
<1>1. /\ a \in Seq(S) /\ Len(a) = Len(s) + 1 /\ a[Len(s) + 1] = e
      /\ \A i \in 1..Len(s) : a[i] = s[i]
  BY AppendProperties
<1> HIDE DEF a
<1>2. Len(s) \in Nat
  OBVIOUS
<1>3. /\ t \in Seq(S) /\ Len(t) = IF Len(a) > n THEN n ELSE Len(a)
      /\ \A i \in 1..Len(t) : t[i] = a[Len(a) - Len(t) + i]
  <2>1. t = Newest(a, n)
    BY DEF a
  <2> QED BY <1>1, <2>1, NewestEffect
<1>4. Len(t) = IF Len(s) = n THEN n ELSE Len(s) + 1
  BY <1>1, <1>2, <1>3
<1>5. \A i \in 1..Len(t) : t[i] = IF i = Len(t) THEN e ELSE s[Len(s) + 1 - Len(t) + i]
  <2> TAKE i \in 1..Len(t)
  <2>1. i \in Nat \ {0} /\ Len(t) \in Nat /\ i <= Len(t)
    BY <1>2, <1>4
  <2>2. t[i] = a[Len(s) + 1 - Len(t) + i]
    <3>1. Len(a) - Len(t) + i = Len(s) + 1 - Len(t) + i
      BY <1>1, <1>2, <2>1
    <3> QED BY <1>3, <3>1
  <2>3. i # Len(t) => Len(s) + 1 - Len(t) + i \in 1..Len(s)
    BY <1>2, <1>4, <2>1
  <2>4. i = Len(t) => Len(s) + 1 - Len(t) + i = Len(s) + 1
    BY <1>2, <2>1
  <2> QED BY <1>1, <2>2, <2>3, <2>4
<1> QED BY <1>3, <1>4, <1>5 DEF Pushed

LEMMA NullRows == NoHook \in HookRows /\ NewRequest \in ReqRows /\ IdleOwner \in OwnerRows
<1>1. NoHook \in HookRows
  BY WebhooksAssumption DEF NoHook, HookRows
<1>2. "none" \in Modes
  BY DEF Modes
<1> QED BY <1>1, <1>2, WebhooksAssumption DEF NewRequest, ReqRows, IdleOwner, OwnerRows, AnyName

LEMMA TypedRow ==
    ASSUME Types
    PROVE  /\ \A o \in Owners : owner[o] \in OwnerRows
           /\ \A r \in Requests : req[r] \in ReqRows /\ req[r].row \in HookRows
           /\ \A w \in Names : hooks[w] \in HookRows
BY DEF Types, ReqRows

\* The row that has lost its previous secret is a row.
LEMMA ClearedRow ==
    ASSUME NEW row \in HookRows
    PROVE  [row EXCEPT !.previous = 0, !.expires = 0] \in HookRows
<1>1. 0 \in 0..MaxIssued /\ 0 \in Nat
  BY WebhooksAssumption
<1> DEFINE Numbers == 0..MaxIssued
<1>2. HookRows = [handle : Numbers, secret : Numbers, previous : Numbers, expires : Nat, enabled : BOOLEAN]
  BY DEF HookRows
<1>3. 0 \in Numbers
  BY <1>1
<1> HIDE DEF Numbers
<1> QED BY <1>1, <1>2, <1>3

\* A delivery that was made names a webhook and a URL that was given out.
LEMMA ReqGiven ==
    ASSUME TInv, NEW r \in Requests, req[r].pc # "new"
    PROVE  /\ req[r].name \in Names /\ req[r].handle \in Handles /\ req[r].handle <= issued
           /\ req[r].secret \in 1..issued /\ req[r].at \in Nat /\ req[r].at <= now /\ req[r].payload \in Payloads
<1>1. req[r] \in ReqRows
  BY TypedRow DEF TInv
<1>2. Given(req[r].handle, req[r].secret) /\ req[r].name \in Names /\ req[r].at <= now /\ req[r].payload \in Payloads
  BY DEF TInv, Issued, HooksGiven, UrlsGiven, CallsGiven, SentGiven
<1>3. issued \in 0..MaxIssued
  BY DEF TInv, Types
<1> QED BY <1>1, <1>2, <1>3, WebhooksAssumption DEF Given, Handles, ReqRows

LEMMA ForgetType ==
    ASSUME Types, NEW W \in SUBSET Names, Forget(W)
    PROVE  /\ hooks' \in [Names -> HookRows]
           /\ rate' \in [Handles -> [minute : Nat, n : 0..RateLimit]]
           /\ ledger' \in [Handles -> Seq(LedgerRows)]
           /\ deliveries' \in [Handles -> Seq(DeliveryRows)]
<1>1. [minute |-> 0, n |-> 0] \in [minute : Nat, n : 0..RateLimit]
  BY WebhooksAssumption
<1>2. <<>> \in Seq(LedgerRows) /\ <<>> \in Seq(DeliveryRows)
  OBVIOUS
<1> QED BY <1>1, <1>2, NullRows DEF Forget, Types

\* Recording a delivery.
LEMMA RecordType ==
    ASSUME TInv, NEW r \in Requests, NEW status \in {"accepted", "rejected", "replayed"},
           req[r].handle \in Handles, Record(r, status)
    PROVE  /\ deliveries' \in [Handles -> Seq(DeliveryRows)]
           /\ \A h \in Handles : Len(deliveries'[h]) <= DeliveryKeep
<1> DEFINE h == req[r].handle
           t == Newest(Append(deliveries[h], [by |-> r, status |-> status]), DeliveryKeep)
<1>1. /\ deliveries[h] \in Seq(DeliveryRows) /\ Len(deliveries[h]) <= DeliveryKeep
      /\ [by |-> r, status |-> status] \in DeliveryRows
  BY DEF TInv, Types, Lengths, DeliveryRows
<1>2. t \in Seq(DeliveryRows) /\ Len(t) <= DeliveryKeep
  <2>1. DeliveryKeep \in Nat \ {0} /\ Len(deliveries[h]) \in Nat
    BY <1>1, WebhooksAssumption
  <2>2. t \in Seq(DeliveryRows) /\ Pushed(t, deliveries[h], [by |-> r, status |-> status], DeliveryKeep)
    BY <1>1, <2>1, PushEffect
  <2> HIDE DEF t
  <2> QED BY <1>1, <2>1, <2>2 DEF Pushed
<1>3. deliveries' = [deliveries EXCEPT ![h] = t]
  BY DEF Record
<1> HIDE DEF t
<1> QED BY <1>2, <1>3 DEF TInv, Types, Lengths

LEMMA DeliveryFinishType ==
    ASSUME TInv, NEW r \in Requests, webhookDeliveryFinish(r)
    PROVE  /\ deliveries' \in [Handles -> Seq(DeliveryRows)]
           /\ \A h \in Handles : Len(deliveries'[h]) <= DeliveryKeep
<1> DEFINE h == req[r].handle
           s == deliveries[h]
           t == [i \in 1..Len(s) |-> IF s[i].by = r THEN [by |-> r, status |-> req[r].outcome] ELSE s[i]]
<1>1. h \in Handles /\ req[r].outcome \in {"success", "error"}
  BY ReqGiven, TypedRow DEF TInv, webhookDeliveryFinish, Stages, Stage, ReqRows
<1>2. s \in Seq(DeliveryRows) /\ Len(s) \in Nat
  BY <1>1 DEF TInv, Types
<1>3. t \in [1..Len(s) -> DeliveryRows]
  <2>1. [by |-> r, status |-> req[r].outcome] \in DeliveryRows
    BY <1>1 DEF DeliveryRows
  <2> HIDE DEF s
  <2>2. \A i \in 1..Len(s) : s[i] \in DeliveryRows
    BY <1>2
  <2> QED BY <2>1, <2>2
<1>4. t \in Seq(DeliveryRows) /\ Len(t) = Len(s)
  <2> HIDE DEF t, s
  <2> QED BY <1>2, <1>3
<1>5. deliveries' = [deliveries EXCEPT ![h] = t]
  BY DEF webhookDeliveryFinish
<1> HIDE DEF t
<1> QED BY <1>1, <1>4, <1>5 DEF TInv, Types, Lengths

\* The row a claim finds carries the key of the delivery.
LEMMA FoundRow ==
    ASSUME TInv, NEW r \in Requests, req[r].pc = "claiming", Rows(req[r]) # {}
    PROVE  \E i \in 1..Len(ledger[req[r].handle]) :
              /\ Row(req[r]) = ledger[req[r].handle][i] /\ Row(req[r]).key = req[r].key
              /\ Row(req[r]) \in LedgerRows
<1>1. PICK i \in Rows(req[r]) : Row(req[r]) = ledger[req[r].handle][i]
  BY DEF Row
<1>2. req[r].handle \in Handles
  BY ReqGiven
<1> QED BY <1>1, <1>2 DEF Rows, TInv, Types

LEMMA ClaimNewLedger ==
    ASSUME TInv, NEW r \in Requests, ClaimNew(r)
    PROVE  LET q == req[r]
               h == q.handle
               e == [key |-> q.key, payload |-> q.payload, status |-> "running"]
               n == Len(ledger[h])
           IN  /\ h \in Handles /\ q.key \in Keys
               /\ ledger' \in [Handles -> Seq(LedgerRows)]
               /\ \A g \in Handles : g # h => ledger'[g] = ledger[g]
               /\ Len(ledger'[h]) = IF n = LedgerKeep THEN LedgerKeep ELSE n + 1
               /\ \A i \in 1..Len(ledger'[h]) :
                     ledger'[h][i] = IF i = Len(ledger'[h]) THEN e ELSE ledger[h][n + 1 - Len(ledger'[h]) + i]
<1> DEFINE q == req[r]
           h == q.handle
           e == [key |-> q.key, payload |-> q.payload, status |-> "running"]
           t == Newest(Append(ledger[h], e), LedgerKeep)
<1>1. h \in Handles /\ q.key \in Keys /\ q.payload \in Payloads
  BY ReqGiven, TypedRow DEF TInv, ClaimNew, Stages, Stage, ReqRows
<1>2. ledger[h] \in Seq(LedgerRows) /\ Len(ledger[h]) <= LedgerKeep /\ e \in LedgerRows
  BY <1>1 DEF TInv, Types, Lengths, LedgerRows, Statuses
<1>3. ledger' = [ledger EXCEPT ![h] = t]
  BY DEF ClaimNew
<1> HIDE DEF e
<1>4. /\ t \in Seq(LedgerRows)
      /\ Len(t) = IF Len(ledger[h]) = LedgerKeep THEN LedgerKeep ELSE Len(ledger[h]) + 1
      /\ \A i \in 1..Len(t) : t[i] = IF i = Len(t) THEN e ELSE ledger[h][Len(ledger[h]) + 1 - Len(t) + i]
  <2>1. LedgerKeep \in Nat \ {0}
    BY WebhooksAssumption
  <2> DEFINE s == ledger[h]
  <2>2. t = Newest(Append(s, e), LedgerKeep)
    OBVIOUS
  <2>3. s \in Seq(LedgerRows) /\ Len(s) <= LedgerKeep
    BY <1>2
  <2> HIDE DEF h, t, s
  <2>4. t \in Seq(LedgerRows) /\ Pushed(t, s, e, LedgerKeep)
    BY <1>2, <2>1, <2>2, <2>3, PushEffect
  <2> QED BY <2>4 DEF Pushed, s
<1> HIDE DEF t
<1>5. ledger'[h] = t /\ \A g \in Handles : g # h => ledger'[g] = ledger[g]
  BY <1>1, <1>3 DEF TInv, Types
<1>6. ledger' \in [Handles -> Seq(LedgerRows)]
  BY <1>1, <1>3, <1>4 DEF TInv, Types
<1> QED BY <1>1, <1>4, <1>5, <1>6 DEF e

\* Settling a claim writes its outcome to the rows with its key.
LEMMA SettledLedger ==
    ASSUME TInv, NEW r \in Requests, webhookIdempotencyFinish(r)
    PROVE  LET q == req[r]
               h == q.handle
           IN  /\ h \in Handles /\ q.key \in Keys /\ q.outcome \in {"success", "error"}
               /\ ledger' \in [Handles -> Seq(LedgerRows)]
               /\ \A g \in Handles : g # h => ledger'[g] = ledger[g]
               /\ Len(ledger'[h]) = Len(ledger[h])
               /\ \A i \in 1..Len(ledger[h]) :
                     /\ ledger'[h][i].key = ledger[h][i].key /\ ledger'[h][i].payload = ledger[h][i].payload
                     /\ ledger'[h][i].status = IF ledger[h][i].key = q.key THEN q.outcome ELSE ledger[h][i].status
<1> DEFINE q == req[r]
           h == q.handle
           s == ledger[h]
           t == [i \in 1..Len(s) |-> IF s[i].key = q.key THEN [s[i] EXCEPT !.status = q.outcome] ELSE s[i]]
<1>1. h \in Handles /\ q.key \in Keys /\ q.outcome \in {"success", "error"}
  BY ReqGiven, TypedRow DEF TInv, webhookIdempotencyFinish, Stages, Stage, ReqRows
<1>2. s \in Seq(LedgerRows) /\ Len(s) \in Nat /\ \A i \in 1..Len(s) : s[i] \in LedgerRows
  BY <1>1 DEF TInv, Types
<1>3. ledger' = [ledger EXCEPT ![h] = t]
  BY DEF webhookIdempotencyFinish
<1> HIDE DEF s, q, h
<1>4. t \in [1..Len(s) -> LedgerRows]
  BY <1>1, <1>2 DEF LedgerRows, Statuses
<1>5. \A i \in 1..Len(s) : /\ t[i].key = s[i].key /\ t[i].payload = s[i].payload
                            /\ t[i].status = IF s[i].key = q.key THEN q.outcome ELSE s[i].status
  BY <1>2 DEF LedgerRows
<1> HIDE DEF t
<1>6. t \in Seq(LedgerRows) /\ Len(t) = Len(s)
  BY <1>2, <1>4
<1>7. ledger'[h] = t /\ \A g \in Handles : g # h => ledger'[g] = ledger[g]
  BY <1>1, <1>3 DEF TInv, Types
<1>8. ledger' \in [Handles -> Seq(LedgerRows)]
  BY <1>1, <1>3, <1>6 DEF TInv, Types
<1> QED BY <1>1, <1>5, <1>6, <1>7, <1>8 DEF s, q, h

LEMMA StepTypes ==
    ASSUME TInv, Next
    PROVE  Types'
<1> USE DEF TInv
<1>1. ASSUME NEW o \in Owners, NEW w \in Names, MintBegin(o, w) PROVE Types'
  <2> DEFINE row == IF w \in Minted THEN [IdleOwner EXCEPT !.reply = "ok"]
                   ELSE IF withinQuota(Quota, Cardinality(Minted))
                   THEN [pc |-> "minting", name |-> w, handle |-> 0, secret |-> 0, reply |-> "none"]
                   ELSE [IdleOwner EXCEPT !.reply = "quota_exceeded"]
  <2>1. row \in OwnerRows
    BY NullRows, WebhooksAssumption DEF OwnerRows
  <2>2. owner' = [owner EXCEPT ![o] = row]
    BY <1>1 DEF MintBegin, OwnerAt, Returns
  <2> HIDE DEF row
  <2> QED BY <1>1, <2>1, <2>2 DEF MintBegin, Types, tables
<1>2. ASSUME NEW o \in Owners, NEW w \in Names, RotateBegin(o, w) PROVE Types'
  <2> DEFINE row == [pc |-> "rotating", name |-> w, handle |-> hooks[w].handle, secret |-> 0, reply |-> "none"]
  <2>1. row \in OwnerRows
    BY TypedRow, WebhooksAssumption DEF OwnerRows, HookRows
  <2>2. owner' = [owner EXCEPT ![o] = row]
    BY <1>2 DEF RotateBegin, OwnerAt
  <2> HIDE DEF row
  <2> QED BY <1>2, <2>1, <2>2 DEF RotateBegin, Types, tables
<1>3. ASSUME NEW o \in Owners, NEW w \in Names, ApplyReveal(o, w) PROVE Types'
  <2> DEFINE row == [pc |-> "applying", name |-> w, handle |-> hooks[w].handle, secret |-> hooks[w].secret, reply |-> "none"]
  <2>1. row \in OwnerRows
    BY TypedRow DEF OwnerRows, HookRows
  <2>2. owner' = [owner EXCEPT ![o] = row]
    BY <1>3 DEF ApplyReveal, OwnerAt
  <2> HIDE DEF row
  <2> QED BY <1>3, <2>1, <2>2 DEF ApplyReveal, Types, tables
<1>4. ASSUME NEW o \in Owners, MintInsert(o) PROVE Types'
  <2> DEFINE hook == [handle |-> issued + 1, secret |-> issued + 1, previous |-> 0, expires |-> 0, enabled |-> TRUE]
  <2>1. owner' \in [Owners -> OwnerRows]
    <3>1. [IdleOwner EXCEPT !.reply = "ok"] \in OwnerRows /\ [IdleOwner EXCEPT !.reply = "constraint_failed"] \in OwnerRows
      BY NullRows DEF OwnerRows
    <3> QED BY <1>4, <3>1 DEF MintInsert, Returns, Types
  <2>2. hook \in HookRows /\ issued + 1 \in 0..MaxIssued
    BY <1>4, WebhooksAssumption DEF MintInsert, HookRows, Types
  <2>3. \/ hooks' = hooks /\ issued' = issued
        \/ hooks' = [hooks EXCEPT ![owner[o].name] = hook] /\ issued' = issued + 1
    <3>1. CASE owner[o].name \in Minted
      <4>1. hooks' = hooks /\ issued' = issued
        BY <1>4, <3>1 DEF MintInsert
      <4> QED BY <4>1
    <3>2. CASE owner[o].name \notin Minted
      BY <1>4, <3>2 DEF MintInsert
    <3> QED BY <3>1, <3>2
  <2> HIDE DEF hook
  <2> QED BY <1>4, <2>1, <2>2, <2>3 DEF MintInsert, Types
<1>5. ASSUME NEW o \in Owners, RotateWrite(o) PROVE Types'
  <2> DEFINE row == hooks[owner[o].name]
         hook == [handle |-> row.handle, secret |-> issued + 1, previous |-> row.secret, expires |-> now + Grace,
                  enabled |-> row.enabled]
  <2>1. owner' \in [Owners -> OwnerRows]
    <3>1. [IdleOwner EXCEPT !.reply = "ok"] \in OwnerRows
      BY NullRows DEF OwnerRows
    <3> QED BY <1>5, <3>1 DEF RotateWrite, Returns, Types
  <2>2. owner[o].name \in Names
    BY <1>5 DEF RotateWrite, Issued, CallsGiven
  <2>3. hook \in HookRows /\ issued + 1 \in 0..MaxIssued
    <3>1. row \in HookRows
      BY <2>2, TypedRow
    <3>2. issued < MaxIssued /\ issued \in Nat /\ now \in Nat
      BY <1>5, WebhooksAssumption DEF RotateWrite, Types
    <3>3. issued + 1 \in 0..MaxIssued /\ now + Grace \in Nat
      BY <3>2, WebhooksAssumption
    <3> QED BY <3>1, <3>3 DEF HookRows
  <2>4. (hooks' = hooks \/ hooks' = [hooks EXCEPT ![owner[o].name] = hook]) /\ issued' = issued + 1
    BY <1>5 DEF RotateWrite
  <2> HIDE DEF hook
  <2> QED BY <1>5, <2>1, <2>3, <2>4 DEF RotateWrite, Types
<1>6. ASSUME NEW o \in Owners, ApplySend(o) PROVE Types'
  <2>1. [IdleOwner EXCEPT !.reply = "ok"] \in OwnerRows
    BY NullRows DEF OwnerRows
  <2>2. owner[o].handle \in 0..MaxIssued /\ owner[o].secret \in 0..MaxIssued
    BY TypedRow DEF OwnerRows
  <2> QED BY <1>6, <2>1, <2>2 DEF ApplySend, Returns, Types, tables
<1>7. ASSUME NEW o \in Owners, ApplyFails(o) PROVE Types'
  <2>1. [IdleOwner EXCEPT !.reply = "provider_rejected"] \in OwnerRows
    BY NullRows DEF OwnerRows
  <2> QED BY <1>7, <2>1 DEF ApplyFails, Returns, Types, tables
<1>8. ASSUME NEW w \in Names, webhookDelete(w) PROVE Types'
  BY <1>8, ForgetType DEF webhookDelete, config, Types
<1>9. ASSUME NEW w \in Names, NEW b \in BOOLEAN, webhookSetEnabled(w, b) PROVE Types'
  <2>1. [hooks[w] EXCEPT !.enabled = b] \in HookRows
    BY TypedRow DEF HookRows
  <2> QED BY <1>9, <2>1 DEF webhookSetEnabled, config, Types
<1>10. ASSUME NEW modes \in [Names -> Modes], packageSave(modes) PROVE Types'
  BY <1>10 DEF packageSave, tables, Types
<1>11. ASSUME packageDelete PROVE Types'
  BY <1>11, ForgetType DEF packageDelete, Minted, Modes, Types
<1>12. ASSUME NEW r \in Requests, NEW w \in Names, NEW k \in Keys \cup {NoKey}, NEW p \in Payloads, Arrive(r, w, k, p) PROVE Types'
  <2> DEFINE row == [NewRequest EXCEPT !.pc = "arrived", !.name = w, !.handle = provider[w].handle,
                                  !.secret = provider[w].secret, !.key = k, !.at = now,
                                  !.payload = IF Hashed(k) THEN p ELSE NoPayload]
  <2>1. row \in ReqRows
    BY NullRows, ZenonT(60) DEF ReqRows, Types
  <2>2. req' = [req EXCEPT ![r] = row]
    BY <1>12 DEF Arrive
  <2> HIDE DEF row
  <2> QED BY <1>12, <2>1, <2>2 DEF Arrive, tables, config, Types
<1>13. ASSUME NEW r \in Requests, AdmitRead(r) PROVE Types'
  <2> DEFINE row == IF Known(req[r]) THEN [req[r] EXCEPT !.pc = "hashing", !.row = hooks[req[r].name]]
                   ELSE [req[r] EXCEPT !.pc = "done", !.reply = "not_found"]
  <2>1. row \in ReqRows
    <3>1. req[r] \in ReqRows /\ hooks[req[r].name] \in HookRows
      BY <1>13, ReqGiven, TypedRow DEF AdmitRead
    <3> QED BY <3>1, ZenonT(60) DEF ReqRows
  <2>2. req' = [req EXCEPT ![r] = row]
    BY <1>13 DEF AdmitRead
  <2> HIDE DEF row
  <2> QED BY <1>13, <2>1, <2>2 DEF AdmitRead, Types, tables, config
<1>14. ASSUME NEW r \in Requests, AdmitRefuse(r) PROVE Types'
  <2> DEFINE row == [req[r] EXCEPT !.pc = "rejecting", !.row = NoHook, !.reply = "not_found"]
  <2>1. row \in ReqRows
    <3>1. req[r] \in ReqRows /\ NoHook \in HookRows
      BY NullRows, TypedRow
    <3> QED BY <3>1, ZenonT(60) DEF ReqRows
  <2>2. req' = [req EXCEPT ![r] = row]
    BY <1>14 DEF AdmitRefuse
  <2> HIDE DEF row
  <2> QED BY <1>14, <2>1, <2>2 DEF AdmitRefuse, Types, tables, config
<1>15. ASSUME NEW r \in Requests, AdmitLimited(r) PROVE Types'
  <2> DEFINE q == req[r]
         row == [q EXCEPT !.pc = "rejecting", !.row = NoHook, !.reply = "rate_limited"]
         count == [minute |-> Minute(q.at), n |-> Count(q)]
  <2>1. row \in ReqRows /\ q.at \in Nat /\ q.handle \in Handles /\ q.name \in Names
    <3>1. q \in ReqRows /\ q.pc = "hashing"
      BY <1>15, TypedRow DEF AdmitLimited
    <3>2. q.handle \in Handles /\ q.name \in Names
      BY <3>1, ReqGiven
    <3>3. declared[q.name] \in Modes
      BY <3>2 DEF Types
    <3> QED BY <3>1, <3>2, <3>3, NullRows DEF ReqRows
  <2>2. req' = [req EXCEPT ![r] = row] /\ rate' = [rate EXCEPT ![q.handle] = count]
    BY <1>15 DEF AdmitLimited
  <2>3. count \in [minute : Nat, n : 0..RateLimit]
    <3>1. Count(q) \in 0..RateLimit
      <4>1. Count(q) \in 0..RateLimit
        BY <2>1, WebhooksAssumption DEF Count, Types
      <4> QED BY <1>15, <4>1, WebhooksAssumption DEF AdmitLimited
    <3> QED BY <2>1, <3>1, WebhooksAssumption DEF Minute
  <2> HIDE DEF row, count
  <2> QED BY <1>15, <2>1, <2>2, <2>3, SMTT(30) DEF AdmitLimited, config, Types
<1>16. ASSUME NEW r \in Requests, Admit(r) PROVE Types'
  <2> DEFINE q == req[r]
         row == [q EXCEPT !.pc = "admitted", !.row = NoHook, !.mode = declared[q.name]]
         count == [minute |-> Minute(q.at), n |-> Count(q) + 1]
  <2>1. row \in ReqRows /\ q.at \in Nat /\ q.handle \in Handles /\ q.name \in Names
    <3>1. q \in ReqRows /\ q.pc = "hashing"
      BY <1>16, TypedRow DEF Admit
    <3>2. q.handle \in Handles /\ q.name \in Names
      BY <3>1, ReqGiven
    <3>3. declared[q.name] \in Modes
      BY <3>2 DEF Types
    <3> QED BY <3>1, <3>2, <3>3, NullRows DEF ReqRows
  <2>2. req' = [req EXCEPT ![r] = row] /\ rate' = [rate EXCEPT ![q.handle] = count]
    BY <1>16 DEF Admit, CountOne
  <2>3. count \in [minute : Nat, n : 0..RateLimit]
    <3>1. Count(q) \in 0..RateLimit /\ Count(q) < RateLimit
      <4>1. Count(q) \in 0..RateLimit
        BY <2>1, WebhooksAssumption DEF Count, Types
      <4> QED BY <1>16, <4>1, WebhooksAssumption DEF Admit
    <3> QED BY <2>1, <3>1, WebhooksAssumption DEF Minute
  <2>4. hooks' \in [Names -> HookRows]
    <3>1. [hooks[q.name] EXCEPT !.previous = 0, !.expires = 0] \in HookRows
      BY <2>1, TypedRow, ClearedRow
    <3>2. hooks' = hooks \/ hooks' = [hooks EXCEPT ![q.name] = [@ EXCEPT !.previous = 0, !.expires = 0]]
      BY <1>16, <2>1 DEF Admit, Types
    <3> QED BY <2>1, <3>1, <3>2 DEF Types
  <2> HIDE DEF row, count
  <2>5. UNCHANGED <<now, declared, provider, issued, owner, ledger, claims, deliveries>>
    BY <1>16 DEF Admit, config
  <2>7. overtaken' \in [Handles -> Nat]
    <3>1. overtaken \in [Handles -> Nat]
      BY DEF Types
    <3> DEFINE h == q.handle
               k == IF Minute(q.at) < rate[h].minute THEN overtaken[h] + 1 ELSE overtaken[h]
    <3>2. overtaken' = [overtaken EXCEPT ![h] = k] /\ h \in Handles
      BY <1>16, <2>1, <3>1 DEF Admit, CountOne
    <3>3. k \in Nat
      BY <2>1, <3>1
    <3> HIDE DEF h, k
    <3> QED BY <3>1, <3>2, <3>3
  <2>6. req' \in [Requests -> ReqRows] /\ rate' \in [Handles -> [minute : Nat, n : 0..RateLimit]]
    BY <2>1, <2>2, <2>3 DEF Types
  <2> QED BY <2>4, <2>5, <2>6, <2>7 DEF Types
<1>17. ASSUME NEW r \in Requests, Verify(r) PROVE Types'
  <2>1. req' \in [Requests -> ReqRows]
    <3>1. req[r] \in ReqRows
      BY TypedRow
    <3>2. /\ [req[r] EXCEPT !.pc = "rejecting", !.reply = "refused"] \in ReqRows
          /\ [req[r] EXCEPT !.pc = "recording"] \in ReqRows
          /\ [req[r] EXCEPT !.pc = "claiming"] \in ReqRows
      <4> DEFINE q == req[r]
      <4> HIDE DEF q
      <4>1. q \in ReqRows
        BY <3>1 DEF q
      <4>2. [q EXCEPT !.pc = "rejecting", !.reply = "refused"] \in ReqRows
        BY <4>1, ZenonT(60) DEF ReqRows
      <4>3. [q EXCEPT !.pc = "recording"] \in ReqRows /\ [q EXCEPT !.pc = "claiming"] \in ReqRows
        BY <4>1 DEF ReqRows
      <4> QED BY <4>2, <4>3 DEF q
    <3> QED BY <1>17, <3>2 DEF Verify, Rejects, Goto, Types
  <2> QED BY <1>17, <2>1 DEF Verify, config, tables, Types
<1>18. ASSUME NEW r \in Requests, ClaimNew(r) PROVE Types'
  <2> DEFINE q == req[r]
         row == [q EXCEPT !.pc = "recording", !.claim = claims[q.handle] + 1]
  <2>1. q \in ReqRows /\ q.handle \in Handles /\ claims[q.handle] + 1 \in Nat
    <3>1. q.pc # "new" /\ claims \in [Handles -> Nat]
      BY <1>18 DEF ClaimNew, Types
    <3>2. q \in ReqRows /\ q.handle \in Handles
      BY <3>1, TypedRow, ReqGiven
    <3> QED BY <3>1, <3>2
  <2>2. row \in ReqRows
    <3> HIDE DEF q
    <3> QED BY <2>1 DEF ReqRows
  <2>3. req' = [req EXCEPT ![r] = row] /\ claims' = [claims EXCEPT ![q.handle] = claims[q.handle] + 1]
    BY <1>18 DEF ClaimNew
  <2>4. ledger' \in [Handles -> Seq(LedgerRows)]
    BY <1>18, ClaimNewLedger DEF Types
  <2> HIDE DEF row
  <2> QED BY <1>18, <2>1, <2>2, <2>3, <2>4, SMTT(30) DEF ClaimNew, config, Types
<1>19. ASSUME NEW r \in Requests, ClaimTaken(r) PROVE Types'
  <2> DEFINE status == Row(req[r]).status
         row == IF Conflicts(req[r]) THEN [req[r] EXCEPT !.pc = "rejecting", !.reply = "idempotency_mismatch"]
                ELSE [req[r] EXCEPT !.pc = "replaying",
                                    !.reply = CASE status = "running" -> "in_progress"
                                                [] status = "success" -> "replay_ok"
                                                [] status = "error"   -> "replay_failed"]
  <2>1. status \in Statuses
    BY <1>19, FoundRow DEF ClaimTaken, LedgerRows
  <2>2. row \in ReqRows
    <3> DEFINE reply == CASE status = "running" -> "in_progress"
                          [] status = "success" -> "replay_ok"
                          [] status = "error"   -> "replay_failed"
    <3>1. reply \in {"in_progress", "replay_ok", "replay_failed"}
      BY <2>1 DEF Statuses
    <3> HIDE DEF status, reply
    <3>2. req[r] \in ReqRows
      BY TypedRow
    <3>3. [req[r] EXCEPT !.pc = "replaying", !.reply = reply] \in ReqRows
      BY <3>1, <3>2, ZenonT(60) DEF ReqRows
    <3>4. [req[r] EXCEPT !.pc = "rejecting", !.reply = "idempotency_mismatch"] \in ReqRows
      BY <3>2, ZenonT(60) DEF ReqRows
    <3> QED BY <3>3, <3>4 DEF reply, status
  <2>3. req' = [req EXCEPT ![r] = row]
    BY <1>19 DEF ClaimTaken
  <2> HIDE DEF row
  <2> QED BY <1>19, <2>2, <2>3 DEF ClaimTaken, config, tables, Types
<1>20. ASSUME NEW r \in Requests, RecordRejected(r) PROVE Types'
  <2> DEFINE row == [req[r] EXCEPT !.pc = "done"]
  <2>1. row \in ReqRows
    <3>1. req[r] \in ReqRows
      BY TypedRow
    <3> QED BY <3>1 DEF ReqRows
  <2>2. req' = [req EXCEPT ![r] = row]
    BY <1>20, TypedRow DEF RecordRejected, Goto, Rejects, ReqRows, Types
  <2>3. deliveries' \in [Handles -> Seq(DeliveryRows)]
    BY <1>20, ReqGiven, RecordType DEF RecordRejected
  <2> HIDE DEF row
  <2> QED BY <1>20, <2>1, <2>2, <2>3 DEF RecordRejected, config, tables, Types
<1>21. ASSUME NEW r \in Requests, RecordReplayed(r) PROVE Types'
  <2> DEFINE row == [req[r] EXCEPT !.pc = "done"]
  <2>1. row \in ReqRows
    <3>1. req[r] \in ReqRows
      BY TypedRow
    <3> QED BY <3>1 DEF ReqRows
  <2>2. req' = [req EXCEPT ![r] = row]
    BY <1>21, TypedRow DEF RecordReplayed, Goto, Rejects, ReqRows, Types
  <2>3. deliveries' \in [Handles -> Seq(DeliveryRows)]
    BY <1>21, ReqGiven, RecordType DEF RecordReplayed
  <2> HIDE DEF row
  <2> QED BY <1>21, <2>1, <2>2, <2>3 DEF RecordReplayed, config, tables, Types
<1>22. ASSUME NEW r \in Requests, RecordAccepted(r) PROVE Types'
  <2> DEFINE row == [req[r] EXCEPT !.pc = "executing", !.reply = IF req[r].mode = "ack" THEN "accepted" ELSE "none"]
  <2>1. row \in ReqRows
    <3>1. req[r] \in ReqRows
      BY TypedRow
    <3> QED BY <3>1, ZenonT(60) DEF ReqRows
  <2>2. req' = [req EXCEPT ![r] = row]
    BY <1>22, TypedRow DEF RecordAccepted, Goto, Rejects, ReqRows, Types
  <2>3. deliveries' \in [Handles -> Seq(DeliveryRows)]
    BY <1>22, ReqGiven, RecordType DEF RecordAccepted
  <2> HIDE DEF row
  <2> QED BY <1>22, <2>1, <2>2, <2>3 DEF RecordAccepted, config, tables, Types
<1>23. ASSUME NEW r \in Requests, NEW x \in {"success", "error"}, Execute(r, x) PROVE Types'
  <2> DEFINE row == [req[r] EXCEPT !.pc = "finishing", !.outcome = x]
  <2>1. row \in ReqRows
    <3>1. req[r] \in ReqRows /\ NoHook \in HookRows
      BY NullRows, TypedRow
    <3> QED BY <3>1, ZenonT(60) DEF ReqRows
  <2>2. req' = [req EXCEPT ![r] = row]
    BY <1>23 DEF Execute
  <2> HIDE DEF row
  <2> QED BY <1>23, <2>1, <2>2 DEF Execute, Types, tables, config
<1>24. ASSUME NEW r \in Requests, webhookDeliveryFinish(r) PROVE Types'
  <2> DEFINE q == req[r]
         row == IF q.key = NoKey THEN [q EXCEPT !.pc = "done", !.reply = Answer(q)] ELSE [q EXCEPT !.pc = "settling"]
  <2>1. q \in ReqRows
    BY TypedRow
  <2>2. row \in ReqRows
    <3>1. Answer(q) \in {"accepted", "ok", "failed"}
      BY DEF Answer
    <3> HIDE DEF q
    <3> QED BY <2>1, <3>1, ZenonT(60) DEF ReqRows
  <2>3. req' = [req EXCEPT ![r] = row]
    BY <1>24 DEF webhookDeliveryFinish
  <2>4. deliveries' \in [Handles -> Seq(DeliveryRows)]
    BY <1>24, DeliveryFinishType DEF Types
  <2> HIDE DEF row
  <2> QED BY <1>24, <2>2, <2>3, <2>4 DEF webhookDeliveryFinish, config, Types
<1>25. ASSUME NEW r \in Requests, webhookIdempotencyFinish(r) PROVE Types'
  <2> DEFINE q == req[r]
         row == [q EXCEPT !.pc = "done", !.reply = Answer(q)]
  <2>1. q \in ReqRows
    BY TypedRow
  <2>2. row \in ReqRows
    <3>1. Answer(q) \in {"accepted", "ok", "failed"}
      BY DEF Answer
    <3> HIDE DEF q
    <3> QED BY <2>1, <3>1, ZenonT(60) DEF ReqRows
  <2>3. req' = [req EXCEPT ![r] = row]
    BY <1>25 DEF webhookIdempotencyFinish
  <2>4. ledger' \in [Handles -> Seq(LedgerRows)]
    BY <1>25, SettledLedger DEF Types
  <2> HIDE DEF row
  <2> QED BY <1>25, <2>2, <2>3, <2>4 DEF webhookIdempotencyFinish, config, Types
<1>26. ASSUME NEW r \in Requests, Crash(r) PROVE Types'
  <2> DEFINE row == [req[r] EXCEPT !.pc = "done", !.row = NoHook]
  <2>1. row \in ReqRows
    <3>1. req[r] \in ReqRows /\ NoHook \in HookRows
      BY NullRows, TypedRow
    <3> QED BY <3>1 DEF ReqRows
  <2>2. req' = [req EXCEPT ![r] = row]
    BY <1>26 DEF Crash
  <2> HIDE DEF row
  <2> QED BY <1>26, <2>1, <2>2 DEF Crash, Types, tables, config
<1>27. ASSUME Tick PROVE Types'
  BY <1>27 DEF Tick, tables, config, Types
<1> QED BY <1>1, <1>2, <1>3, <1>4, <1>5, <1>6, <1>7, <1>8, <1>9, <1>10, <1>11, <1>12, <1>13,
          <1>14, <1>15, <1>16, <1>17, <1>18, <1>19, <1>20, <1>21, <1>22, <1>23, <1>24, <1>25,
          <1>26, <1>27 DEF Next, OwnerStep, Ingress

-----------------------------------------------------------------------------
(* What the steps leave alone *)

\* A delivery goes on: what it was sent with stays, and no webhook gets another secret.
Moves(r) ==
    /\ UNCHANGED <<now, declared, provider, issued, owner>>
    /\ req[r].pc # "new" /\ req'[r].pc # "new"
    /\ \A s \in Requests : s # r => req'[s] = req[s]
    /\ req'[r].name = req[r].name /\ req'[r].handle = req[r].handle /\ req'[r].secret = req[r].secret
    /\ req'[r].key = req[r].key /\ req'[r].at = req[r].at /\ req'[r].payload = req[r].payload
    /\ \A w \in Names : hooks'[w] = hooks[w] \/ hooks'[w] = [hooks[w] EXCEPT !.previous = 0, !.expires = 0]

LEMMA MovesStep ==
    ASSUME TInv, NEW r \in Requests, Ingress(r) \/ Crash(r)
    PROVE  Moves(r) /\ Stage(req'[r])
<1> DEFINE q == req[r]
<1>1. q \in ReqRows /\ NoHook \in HookRows /\ Stage(q) /\ req \in [Requests -> ReqRows] /\ hooks \in [Names -> HookRows]
  BY TypedRow, NullRows DEF TInv, Stages, Types
<1>2. CASE AdmitRead(r)
  <2> DEFINE row == IF Known(q) THEN [q EXCEPT !.pc = "hashing", !.row = hooks[q.name]]
                    ELSE [q EXCEPT !.pc = "done", !.reply = "not_found"]
  <2>1. req' = [req EXCEPT ![r] = row] /\ q.pc = "arrived" /\ UNCHANGED <<now, config, tables>>
    BY <1>2 DEF AdmitRead
  <2>2. Stage(row) /\ row.pc \in {"hashing", "done"}
    BY <1>1 DEF Known, Stage, ReqRows
  <2>3. row.name = q.name /\ row.handle = q.handle /\ row.secret = q.secret /\ row.key = q.key
        /\ row.at = q.at /\ row.payload = q.payload
    BY <1>1 DEF ReqRows
  <2> HIDE DEF row
  <2> QED BY <1>1, <2>1, <2>2, <2>3 DEF Moves, tables, config
<1>3. CASE AdmitRefuse(r)
  BY <1>1, <1>3 DEF AdmitRefuse, Goto, Rejects, tables, config, Moves, Stage, ReqRows
<1>4. CASE AdmitLimited(r)
  BY <1>1, <1>4 DEF AdmitLimited, Goto, Rejects, tables, config, Moves, Stage, ReqRows
<1>5. CASE Admit(r)
  BY <1>1, <1>5 DEF Admit, Goto, Rejects, tables, config, Moves, Stage, ReqRows
<1>6. CASE Verify(r)
  <2>1. CASE Rejects(r, "refused")
    BY <1>1, <1>6, <2>1 DEF Verify, Rejects, tables, config, Moves, Stage, ReqRows
  <2>2. CASE Goto(r, IF q.key = NoKey THEN "recording" ELSE "claiming")
    <3>1. CASE q.key = NoKey
      BY <1>1, <1>6, <2>2, <3>1 DEF Verify, Goto, tables, config, Moves, Stage, ReqRows
    <3>2. CASE q.key # NoKey
      BY <1>1, <1>6, <2>2, <3>2 DEF Verify, Goto, tables, config, Moves, Stage, ReqRows
    <3> QED BY <3>1, <3>2
  <2> QED BY <1>6, <2>1, <2>2 DEF Verify
<1>7. CASE ClaimNew(r)
  BY <1>1, <1>7 DEF ClaimNew, Goto, Rejects, tables, config, Moves, Stage, ReqRows
<1>8. CASE ClaimTaken(r)
  BY <1>1, <1>8 DEF ClaimTaken, Goto, Rejects, tables, config, Moves, Stage, ReqRows
<1>9. CASE RecordRejected(r)
  BY <1>1, <1>9 DEF RecordRejected, Goto, Rejects, tables, config, Moves, Stage, ReqRows
<1>10. CASE RecordReplayed(r)
  BY <1>1, <1>10 DEF RecordReplayed, Goto, Rejects, tables, config, Moves, Stage, ReqRows
<1>11. CASE RecordAccepted(r)
  BY <1>1, <1>11 DEF RecordAccepted, Goto, Rejects, tables, config, Moves, Stage, ReqRows
<1>12. ASSUME NEW x \in {"success", "error"}, Execute(r, x) PROVE Moves(r) /\ Stage(req'[r])
  BY <1>1, <1>12 DEF Execute, Goto, Rejects, tables, config, Moves, Stage, ReqRows
<1>13. CASE webhookDeliveryFinish(r)
  BY <1>1, <1>13 DEF webhookDeliveryFinish, Goto, Rejects, tables, config, Moves, Stage, ReqRows
<1>14. CASE webhookIdempotencyFinish(r)
  BY <1>1, <1>14 DEF webhookIdempotencyFinish, Goto, Rejects, tables, config, Moves, Stage, ReqRows
<1>15. CASE Crash(r)
  BY <1>1, <1>15 DEF Crash, Goto, Rejects, tables, config, Moves, Stage, ReqRows
<1> QED BY <1>2, <1>3, <1>4, <1>5, <1>6, <1>7, <1>8, <1>9, <1>10, <1>11, <1>12, <1>13, <1>14, <1>15 DEF Ingress

\* Under a step of a delivery, what was given out and who holds it stays as it is.
LEMMA MovesHolders ==
    ASSUME TInv, NEW r \in Requests, Moves(r), Types'
    PROVE  Issued' /\ OneHolder'
<1>1. \A w \in Names : hooks'[w].handle = hooks[w].handle /\ hooks'[w].secret = hooks[w].secret
  BY TypedRow DEF TInv, Moves, HookRows
<1>2. \A s \in Requests :
         /\ req'[s].name = req[s].name /\ req'[s].handle = req[s].handle /\ req'[s].secret = req[s].secret
         /\ req'[s].at = req[s].at /\ req'[s].payload = req[s].payload
         /\ req[s].pc = "new" => req'[s] = req[s]
         /\ req[s].pc # "new" => req'[s].pc # "new"
  BY DEF Moves
<1>3. UNCHANGED <<now, provider, issued, owner>>
  BY DEF Moves
<1>4. Issued'
  BY <1>1, <1>2, <1>3 DEF TInv, Issued, HooksGiven, UrlsGiven, CallsGiven, SentGiven, Given
<1>5. OneHolder'
  BY <1>1, <1>2, <1>3 DEF TInv, OneHolder, Minted
<1> QED BY <1>4, <1>5

LEMMA ForgetHolders ==
    ASSUME TInv, NEW W \in SUBSET Names, Forget(W), UNCHANGED <<now, provider, issued, owner, req>>
    PROVE  Issued' /\ Stages' /\ OneHolder'
<1>1. \A w \in Names : hooks'[w] = hooks[w] \/ hooks'[w].handle = 0
  BY DEF Forget, NoHook
<1>2. Issued' /\ Stages'
  BY <1>1 DEF TInv, Issued, HooksGiven, UrlsGiven, CallsGiven, SentGiven, Stages, Given
<1>3. OneHolder'
  BY <1>1 DEF TInv, OneHolder, Minted
<1> QED BY <1>2, <1>3

LEMMA StepHolders ==
    ASSUME TInv, Next
    PROVE  Issued' /\ Stages' /\ OneHolder'
<1>1. Types'
  BY StepTypes
<1>2. ASSUME NEW r \in Requests, Ingress(r) \/ Crash(r) PROVE Issued' /\ Stages' /\ OneHolder'
  <2>1. Moves(r) /\ Stage(req'[r])
    BY <1>2, MovesStep
  <2>2. Stages'
    BY <2>1 DEF TInv, Stages, Moves, Stage
  <2> QED BY <1>1, <2>1, <2>2, MovesHolders
<1>3. ASSUME NEW r \in Requests, NEW w \in Names, NEW k \in Keys \cup {NoKey}, NEW p \in Payloads, Arrive(r, w, k, p)
      PROVE Issued' /\ Stages' /\ OneHolder'
  <2>1. /\ req'[r].pc = "arrived" /\ req'[r].name = w /\ req'[r].handle = provider[w].handle
        /\ req'[r].secret = provider[w].secret /\ req'[r].at = now /\ req'[r].payload \in Payloads
    BY <1>3, NullRows DEF Arrive, ReqRows, TInv, Types, NoPayload
  <2>2. \A s \in Requests : s # r => req'[s] = req[s]
    BY <1>3 DEF Arrive, TInv, Types
  <2>3. UNCHANGED <<now, provider, issued, owner, hooks>> /\ provider[w] # NoUrl
    BY <1>3 DEF Arrive, config, tables
  <2>4. now \in Nat
    BY DEF TInv, Types
  <2>5. Issued'
    BY <2>1, <2>2, <2>3, <2>4 DEF TInv, Issued, HooksGiven, UrlsGiven, CallsGiven, SentGiven, Given
  <2>6. Stages'
    BY <2>1, <2>2 DEF TInv, Stages, Stage
  <2>7. OneHolder'
    BY <2>1, <2>2, <2>3 DEF TInv, OneHolder, Minted
  <2> QED BY <2>5, <2>6, <2>7
<1>4. ASSUME NEW o \in Owners, NEW w \in Names, MintBegin(o, w) \/ RotateBegin(o, w) \/ ApplyReveal(o, w)
      PROVE Issued' /\ Stages' /\ OneHolder'
  <2>1. UNCHANGED <<now, provider, issued, hooks, req>>
    BY <1>4 DEF MintBegin, RotateBegin, ApplyReveal, tables
  <2>2. \A x \in Owners : x # o => owner'[x] = owner[x]
    BY <1>4 DEF MintBegin, RotateBegin, ApplyReveal, OwnerAt, Returns, TInv, Types
  <2>3. /\ owner'[o].pc # "idle" => owner'[o].name = w
        /\ owner'[o].pc = "applying" => /\ w \in Minted /\ owner'[o].handle = hooks[w].handle
                                       /\ owner'[o].secret = hooks[w].secret
    <3>1. CASE MintBegin(o, w)
      <4>1. (\E reply : Returns(o, reply)) \/ OwnerAt(o, "minting", w, 0, 0)
        BY <3>1 DEF MintBegin
      <4>2. CASE \E reply : Returns(o, reply)
        <5>1. PICK reply : owner' = [owner EXCEPT ![o] = [IdleOwner EXCEPT !.reply = reply]]
          BY <4>2 DEF Returns
        <5> QED BY <5>1 DEF IdleOwner, TInv, Types
      <4>3. CASE OwnerAt(o, "minting", w, 0, 0)
        BY <4>3 DEF OwnerAt, TInv, Types
      <4> QED BY <4>1, <4>2, <4>3
    <3>2. CASE RotateBegin(o, w)
      BY <3>2 DEF RotateBegin, OwnerAt, TInv, Types
    <3>3. CASE ApplyReveal(o, w)
      BY <3>3 DEF ApplyReveal, OwnerAt, TInv, Types
    <3> QED BY <1>4, <3>1, <3>2, <3>3
  <2>4. Issued'
    BY <2>1, <2>2, <2>3 DEF TInv, Issued, HooksGiven, UrlsGiven, CallsGiven, SentGiven, Given, Minted
  <2>5. Stages'
    BY <2>1 DEF TInv, Stages
  <2>6. OneHolder'
    BY <2>1, <2>2, <2>3 DEF TInv, OneHolder, Minted
  <2> QED BY <2>4, <2>5, <2>6
<1>5. ASSUME NEW o \in Owners, MintInsert(o) \/ RotateWrite(o) \/ ApplySend(o) \/ ApplyFails(o)
      PROVE Issued' /\ Stages' /\ OneHolder'
  <2> DEFINE n == owner[o].name
  <2>1. UNCHANGED <<now, req>> /\ owner[o].pc # "idle" /\ n \in Names
    BY <1>5 DEF MintInsert, RotateWrite, ApplySend, ApplyFails, tables, TInv, Issued, HooksGiven, UrlsGiven, CallsGiven, SentGiven
  <2>2. (\A x \in Owners : x # o => owner'[x] = owner[x]) /\ owner'[o].pc = "idle"
    <3>1. \E reply : Returns(o, reply)
      BY <1>5 DEF MintInsert, RotateWrite, ApplySend, ApplyFails
    <3> QED BY <3>1 DEF Returns, IdleOwner, TInv, Types
  <2>3. issued \in 0..MaxIssued /\ hooks \in [Names -> HookRows] /\ MaxIssued \in Nat
    BY WebhooksAssumption DEF TInv, Types
  <2>4. Stages'
    BY <2>1 DEF TInv, Stages
  <2>5. CASE MintInsert(o) /\ n \notin Minted
    <3>1. /\ issued' = issued + 1 /\ UNCHANGED provider
          /\ hooks'[n].handle = issued + 1 /\ hooks'[n].secret = issued + 1
          /\ \A w \in Names : w # n => hooks'[w] = hooks[w]
      BY <2>1, <2>3, <2>5 DEF MintInsert
    <3>2. Issued'
      BY <2>1, <2>2, <2>3, <3>1 DEF TInv, Issued, HooksGiven, UrlsGiven, CallsGiven, SentGiven, Given
    <3>3. OneHolder'
      <4> SUFFICES ASSUME NEW w \in Names, hooks'[w].handle # 0
                   PROVE  /\ \A v \in Names : hooks'[v].handle = hooks'[w].handle => v = w
                          /\ \A v \in Names : provider'[v].handle = hooks'[w].handle => v = w
                          /\ \A x \in Owners : owner'[x].pc = "applying" /\ owner'[x].handle = hooks'[w].handle
                                => owner'[x].name = w
                          /\ \A r \in Requests : req'[r].pc # "new" /\ req'[r].handle = hooks'[w].handle
                                => req'[r].name = w
        BY DEF OneHolder, Minted
      <4>1. CASE w # n
        BY <2>1, <2>2, <2>3, <3>1, <4>1 DEF TInv, OneHolder, Minted, Issued, HooksGiven, UrlsGiven, CallsGiven, SentGiven, Given
      <4>2. CASE w = n
        <5>1. \A v \in Names : hooks[v].handle # issued + 1 /\ provider[v].handle # issued + 1
          BY <2>3 DEF TInv, Issued, HooksGiven, UrlsGiven, CallsGiven, SentGiven, Given, NoUrl
        <5>2. \A x \in Owners : owner'[x].pc = "applying" => owner'[x].handle # issued + 1
          BY <2>2, <2>3 DEF TInv, Issued, HooksGiven, UrlsGiven, CallsGiven, SentGiven, Given
        <5>3. \A r \in Requests : req[r].pc # "new" => req[r].handle # issued + 1
          BY <2>3 DEF TInv, Issued, HooksGiven, UrlsGiven, CallsGiven, SentGiven, Given
        <5> QED BY <2>1, <2>3, <3>1, <4>2, <5>1, <5>2, <5>3
      <4> QED BY <4>1, <4>2
    <3> QED BY <2>4, <3>2, <3>3
  <2>6. CASE (MintInsert(o) /\ n \in Minted) \/ RotateWrite(o) \/ ApplyFails(o)
    <3>1. /\ UNCHANGED provider /\ issued' \in {issued, issued + 1}
          /\ \A w \in Names : /\ hooks'[w].handle = hooks[w].handle
                               /\ \/ hooks'[w].secret = hooks[w].secret
                                  \/ hooks'[w].secret = issued' /\ issued' = issued + 1
      <4>1. CASE MintInsert(o) /\ n \in Minted
        <5>1. hooks' = hooks /\ issued' = issued /\ provider' = provider
          BY <4>1 DEF MintInsert
        <5> QED BY <5>1
      <4>2. CASE RotateWrite(o)
        BY <2>1, <2>3, <4>2 DEF RotateWrite
      <4>3. CASE ApplyFails(o)
        <5>1. hooks' = hooks /\ issued' = issued /\ provider' = provider
          BY <4>3 DEF ApplyFails, tables
        <5> QED BY <5>1
      <4> QED BY <2>6, <4>1, <4>2, <4>3
    <3>2. Issued'
      <4>1. issued \in Nat /\ issued' \in Nat /\ issued' >= issued
        BY <2>3, <3>1
      <4>2. ASSUME NEW w \in Names, hooks'[w].handle # 0
            PROVE hooks'[w].handle \in 1..issued' /\ hooks'[w].secret \in 1..issued'
        <5>1. hooks[w].handle \in 1..issued /\ hooks[w].secret \in 1..issued
          BY <3>1, <4>2 DEF TInv, Issued, HooksGiven, UrlsGiven, CallsGiven, SentGiven, Given
        <5> QED BY <3>1, <4>1, <5>1
      <4>3. \A w \in Names : provider[w] # NoUrl => provider[w].handle \in 1..issued' /\ provider[w].secret \in 1..issued'
        BY <4>1 DEF TInv, Issued, HooksGiven, UrlsGiven, CallsGiven, SentGiven, Given
      <4>4. \A x \in Owners :
               /\ owner'[x].pc # "idle" => owner'[x].name \in Names
               /\ owner'[x].pc = "applying" => owner'[x].handle \in 1..issued' /\ owner'[x].secret \in 1..issued'
        BY <2>2, <4>1 DEF TInv, Issued, HooksGiven, UrlsGiven, CallsGiven, SentGiven, Given
      <4>5. \A r \in Requests : req[r].pc # "new" => req[r].handle \in 1..issued' /\ req[r].secret \in 1..issued'
        BY <4>1 DEF TInv, Issued, HooksGiven, UrlsGiven, CallsGiven, SentGiven, Given
      <4>6. UNCHANGED <<now, provider, req>>
        BY <2>1, <3>1
      <4>7. \A r \in Requests :
               IF req[r].pc = "new" THEN req[r] = NewRequest
               ELSE /\ req[r].name \in Names /\ req[r].handle \in 1..issued' /\ req[r].secret \in 1..issued'
                    /\ req[r].at <= now /\ req[r].payload \in Payloads
        BY <4>5 DEF TInv, Issued, HooksGiven, UrlsGiven, CallsGiven, SentGiven
      <4>8. now' = now /\ provider' = provider /\ req' = req
        BY <4>6
      <4>9. HooksGiven'
        BY <4>2 DEF HooksGiven, Given
      <4>10. UrlsGiven'
        BY <4>3, <4>8 DEF UrlsGiven, Given
      <4>11. CallsGiven'
        BY <4>4 DEF CallsGiven, Given
      <4>12. SentGiven'
        BY <4>7, <4>8 DEF SentGiven, Given
      <4> QED BY <4>9, <4>10, <4>11, <4>12 DEF Issued
    <3>3. OneHolder'
      <4>1. \A w \in Names : hooks'[w].handle = hooks[w].handle
        BY <3>1
      <4>2. provider' = provider /\ req' = req
        BY <2>1, <3>1
      <4>3. \A x \in Owners : owner'[x].pc = "applying" => owner'[x] = owner[x]
        BY <2>2
      <4> QED BY <4>1, <4>2, <4>3 DEF TInv, OneHolder, Minted
    <3> QED BY <2>4, <3>2, <3>3
  <2>7. CASE ApplySend(o)
    <3>1. /\ UNCHANGED <<issued, hooks>> /\ owner[o].pc = "applying"
          /\ provider'[n].handle = owner[o].handle /\ provider'[n].secret = owner[o].secret
          /\ \A w \in Names : w # n => provider'[w] = provider[w]
      BY <2>1, <2>7 DEF ApplySend, tables, TInv, Types
    <3>2. Issued'
      BY <2>1, <2>2, <3>1 DEF TInv, Issued, HooksGiven, UrlsGiven, CallsGiven, SentGiven, Given
    <3>3. OneHolder'
      BY <2>1, <2>2, <3>1 DEF TInv, OneHolder, Minted
    <3> QED BY <2>4, <3>2, <3>3
  <2> QED BY <1>5, <2>5, <2>6, <2>7
<1>6. CASE \E w \in Names : webhookDelete(w)
  BY <1>6, ForgetHolders DEF webhookDelete, config
<1>7. CASE packageDelete
  <2>1. Minted \in SUBSET Names
    BY DEF Minted
  <2> QED BY <1>7, <2>1, ForgetHolders DEF packageDelete
<1>8. ASSUME NEW w \in Names, NEW b \in BOOLEAN, webhookSetEnabled(w, b) PROVE Issued' /\ Stages' /\ OneHolder'
  <2>1. \A v \in Names : hooks'[v].handle = hooks[v].handle /\ hooks'[v].secret = hooks[v].secret
    BY <1>8, TypedRow DEF webhookSetEnabled, TInv, Types, HookRows
  <2>2. UNCHANGED <<now, provider, issued, owner, req>>
    BY <1>8 DEF webhookSetEnabled, config
  <2> QED BY <2>1, <2>2 DEF TInv, Issued, HooksGiven, UrlsGiven, CallsGiven, SentGiven, Given, Stages, OneHolder, Minted
<1>9. CASE (\E modes \in [Names -> Modes] : packageSave(modes)) \/ Tick
  <2>1. UNCHANGED <<hooks, provider, issued, owner, req>> /\ now \in Nat /\ now' \in Nat /\ now' >= now
    BY <1>9 DEF packageSave, Tick, tables, config, TInv, Types
  <2>2. \A r \in Requests : req[r].at \in Nat
    BY TypedRow DEF TInv, ReqRows
  <2> QED BY <2>1, <2>2 DEF TInv, Issued, HooksGiven, UrlsGiven, CallsGiven, SentGiven, Given, Stages, OneHolder, Minted
<1> QED BY <1>2, <1>3, <1>4, <1>5, <1>6, <1>7, <1>8, <1>9 DEF Next, OwnerStep

LEMMA StepLengths ==
    ASSUME TInv, Next
    PROVE  Lengths'
<1>1. ASSUME UNCHANGED <<ledger, deliveries>> PROVE Lengths'
  BY <1>1 DEF TInv, Lengths
<1>2. ASSUME NEW W \in SUBSET Names, Forget(W) PROVE Lengths'
  <2>1. \A h \in Handles : /\ ledger'[h] = ledger[h] \/ ledger'[h] = <<>>
                           /\ deliveries'[h] = deliveries[h] \/ deliveries'[h] = <<>>
    BY <1>2 DEF Forget
  <2>2. Len(<<>>) = 0 /\ 0 <= LedgerKeep /\ 0 <= DeliveryKeep
    BY WebhooksAssumption
  <2> QED BY <2>1, <2>2 DEF TInv, Lengths
<1>3. ASSUME NEW r \in Requests, RecordRejected(r) \/ RecordReplayed(r) \/ RecordAccepted(r) PROVE Lengths'
  <2>1. \E status \in {"accepted", "rejected", "replayed"} : Record(r, status)
    BY <1>3 DEF RecordRejected, RecordReplayed, RecordAccepted
  <2>2. req[r].handle \in Handles /\ ledger' = ledger
    BY <1>3, ReqGiven DEF RecordRejected, RecordReplayed, RecordAccepted
  <2> QED BY <2>1, <2>2, RecordType DEF TInv, Lengths
<1>4. ASSUME NEW r \in Requests, webhookDeliveryFinish(r) PROVE Lengths'
  BY <1>4, DeliveryFinishType DEF TInv, Lengths, webhookDeliveryFinish
<1>5. ASSUME NEW r \in Requests, ClaimNew(r) PROVE Lengths'
  <2> DEFINE h == req[r].handle
             n == Len(ledger[h])
  <2>1. /\ h \in Handles /\ ledger' \in [Handles -> Seq(LedgerRows)]
        /\ \A g \in Handles : g # h => ledger'[g] = ledger[g]
        /\ Len(ledger'[h]) = IF n = LedgerKeep THEN LedgerKeep ELSE n + 1
    BY <1>5, ClaimNewLedger
  <2>2. n <= LedgerKeep /\ n \in Nat /\ LedgerKeep \in Nat
    BY <2>1, WebhooksAssumption DEF TInv, Types, Lengths
  <2>3. Len(ledger'[h]) <= LedgerKeep
    BY <2>1, <2>2
  <2>4. deliveries' = deliveries
    BY <1>5 DEF ClaimNew
  <2> QED BY <2>1, <2>3, <2>4 DEF TInv, Lengths
<1>6. ASSUME NEW r \in Requests, webhookIdempotencyFinish(r) PROVE Lengths'
  <2>1. \A h \in Handles : Len(ledger'[h]) = Len(ledger[h])
    BY <1>6, SettledLedger
  <2>2. deliveries' = deliveries
    BY <1>6 DEF webhookIdempotencyFinish
  <2> QED BY <2>1, <2>2 DEF TInv, Lengths
<1>7. ASSUME NEW o \in Owners, OwnerStep(o) PROVE UNCHANGED <<ledger, deliveries>>
  BY <1>7 DEF OwnerStep, MintBegin, RotateBegin, ApplyReveal, MintInsert, RotateWrite, ApplySend, ApplyFails, tables
<1>8. ASSUME NEW w \in Names, webhookDelete(w) \/ (\E b \in BOOLEAN : webhookSetEnabled(w, b)) PROVE Lengths'
  <2>1. CASE webhookDelete(w)
    BY <1>2, <2>1 DEF webhookDelete
  <2>2. CASE \E b \in BOOLEAN : webhookSetEnabled(w, b)
    BY <1>1, <2>2 DEF webhookSetEnabled
  <2> QED BY <1>8, <2>1, <2>2
<1>9. CASE packageDelete
  <2>1. Minted \in SUBSET Names
    BY DEF Minted
  <2> QED BY <1>2, <1>9, <2>1 DEF packageDelete
<1>10. CASE (\E modes \in [Names -> Modes] : packageSave(modes)) \/ Tick
  BY <1>1, <1>10 DEF packageSave, Tick, tables
<1>11. ASSUME NEW r \in Requests,
              \/ \E w \in Names, k \in Keys \cup {NoKey}, p \in Payloads : Arrive(r, w, k, p)
              \/ AdmitRead(r) \/ AdmitRefuse(r) \/ AdmitLimited(r) \/ Admit(r) \/ Verify(r) \/ ClaimTaken(r)
              \/ (\E x \in {"success", "error"} : Execute(r, x)) \/ Crash(r)
       PROVE UNCHANGED <<ledger, deliveries>>
  BY <1>11 DEF Arrive, AdmitRead, AdmitRefuse, AdmitLimited, Admit, Verify, ClaimTaken, Execute, Crash, tables
<1> QED BY <1>1, <1>3, <1>4, <1>5, <1>6, <1>7, <1>8, <1>9, <1>10, <1>11 DEF Next, Ingress

-----------------------------------------------------------------------------
(* Type correctness *)

LEMMA InitTInv == Init => TInv
<1> SUFFICES ASSUME Init PROVE TInv
  OBVIOUS
<1>1. [minute |-> 0, n |-> 0] \in [minute : Nat, n : 0..RateLimit] /\ <<>> \in Seq(LedgerRows) /\ <<>> \in Seq(DeliveryRows)
  BY WebhooksAssumption
<1>2. NoUrl \in [handle : 0..MaxIssued, secret : 0..MaxIssued] /\ 0 \in 0..MaxIssued /\ "none" \in Modes
  BY WebhooksAssumption DEF NoUrl, Modes
<1>3. Types
  BY <1>1, <1>2, NullRows DEF Init, Types
<1>4. Lengths
  <2>1. Len(<<>>) = 0 /\ 0 <= LedgerKeep /\ 0 <= DeliveryKeep
    BY WebhooksAssumption
  <2> QED BY <2>1 DEF Init, Lengths
<1>5. Issued
  BY DEF Init, Issued, HooksGiven, UrlsGiven, CallsGiven, SentGiven, NoHook, IdleOwner, NewRequest
<1>6. Stages
  BY DEF Init, Stages, Stage, NewRequest
<1>7. OneHolder
  BY DEF Init, OneHolder, Minted, NoHook
<1> QED BY <1>3, <1>4, <1>5, <1>6, <1>7 DEF TInv

LEMMA StepTInv == TInv /\ [Next]_vars => TInv'
<1> SUFFICES ASSUME TInv, [Next]_vars PROVE TInv'
  OBVIOUS
<1>1. CASE Next
  BY <1>1, StepTypes, StepHolders, StepLengths DEF TInv
<1>2. CASE UNCHANGED vars
  BY <1>2 DEF TInv, Types, Lengths, Issued, HooksGiven, UrlsGiven, CallsGiven, SentGiven, Given, Stages, Stage,
              OneHolder, Minted, vars
<1> QED BY <1>1, <1>2

LEMMA TInvTypeOK == TInv => TypeOK
<1> SUFFICES ASSUME TInv PROVE TypeOK
  OBVIOUS
<1>1. \A h \in Handles : ledger[h] \in Seq(LedgerRows) /\ deliveries[h] \in Seq(DeliveryRows)
  BY DEF TInv, Types
<1>2. \A w \in Names : provider[w].handle <= issued /\ provider[w].secret <= issued
  <2>1. issued \in Nat
    BY WebhooksAssumption DEF TInv, Types
  <2> QED BY <2>1 DEF TInv, Issued, UrlsGiven, Given, NoUrl
<1>3. \A h \in Handles :
         /\ Len(ledger[h]) <= LedgerKeep /\ Len(deliveries[h]) <= DeliveryKeep
         /\ \A i \in 1..Len(ledger[h]) : ledger[h][i] \in LedgerRows
         /\ \A i \in 1..Len(deliveries[h]) : deliveries[h][i] \in DeliveryRows
  BY <1>1 DEF TInv, Lengths
<1>4. /\ now \in Nat /\ issued \in 0..MaxIssued /\ declared \in [Names -> Modes] /\ hooks \in [Names -> HookRows]
      /\ rate \in [Handles -> [minute : Nat, n : 0..RateLimit]] /\ overtaken \in [Handles -> Nat]
  BY DEF TInv, Types
<1> QED BY <1>2, <1>3, <1>4 DEF TypeOK, LedgerRows, DeliveryRows, Statuses

(***************************************************************************)
(* Every table, call and delivery keeps its shape, and neither the         *)
(* idempotency ledger nor the delivery records outgrow their limits        *)
(* (webhookIdempotencyClaim, webhookDeliveryRecord), for any number of     *)
(* webhooks, callers and deliveries.                                       *)
(***************************************************************************)
THEOREM TypeCorrect == Spec => []TypeOK
<1>1. Spec => []TInv
  BY InitTInv, StepTInv, PTL DEF Spec
<1> QED BY <1>1, TInvTypeOK, PTL

-----------------------------------------------------------------------------
(* A delivery on the current secret revokes the previous one *)

\* The steps of a delivery that neither look a row up nor admit it.
OtherMove(r) ==
    \/ AdmitRefuse(r) \/ AdmitLimited(r) \/ Verify(r) \/ ClaimNew(r) \/ ClaimTaken(r)
    \/ RecordRejected(r) \/ RecordReplayed(r) \/ RecordAccepted(r)
    \/ \E o \in {"success", "error"} : Execute(r, o)
    \/ webhookDeliveryFinish(r) \/ webhookIdempotencyFinish(r) \/ Crash(r)

LEMMA OtherMoves ==
    ASSUME TInv, NEW r \in Requests, OtherMove(r)
    PROVE  /\ hooks' = hooks /\ req'[r].mode = req[r].mode /\ req'[r].pc \notin {"arrived", "hashing"}
           /\ overtaken' = overtaken /\ (rate' = rate \/ AdmitLimited(r))
<1> DEFINE q == req[r]
<1>1. req \in [Requests -> ReqRows] /\ q \in ReqRows
  BY TypedRow DEF TInv, Types
<1>2. hooks' = hooks /\ overtaken' = overtaken /\ (rate' = rate \/ AdmitLimited(r))
  BY DEF OtherMove, AdmitRefuse, AdmitLimited, Verify, ClaimNew, ClaimTaken, RecordRejected, RecordReplayed,
         RecordAccepted, Execute, webhookDeliveryFinish, webhookIdempotencyFinish, Crash, tables
<1>3. req'[r].mode = q.mode /\ req'[r].pc \notin {"arrived", "hashing"}
  <2>1. CASE AdmitRefuse(r)
    <3>1. req' = [req EXCEPT ![r] = [q EXCEPT !.pc = "rejecting", !.row = NoHook, !.reply = "not_found"]]
      BY <2>1 DEF AdmitRefuse
    <3> QED BY <1>1, <3>1 DEF ReqRows
  <2>2. CASE AdmitLimited(r)
    <3>1. req' = [req EXCEPT ![r] = [q EXCEPT !.pc = "rejecting", !.row = NoHook, !.reply = "rate_limited"]]
      BY <2>2 DEF AdmitLimited
    <3> QED BY <1>1, <3>1 DEF ReqRows
  <2>3. CASE ClaimNew(r)
    <3>1. req' = [req EXCEPT ![r] = [q EXCEPT !.pc = "recording", !.claim = claims[q.handle] + 1]]
      BY <2>3 DEF ClaimNew
    <3> QED BY <1>1, <3>1 DEF ReqRows
  <2>4. CASE ClaimTaken(r)
    BY <1>1, <2>4 DEF ClaimTaken, ReqRows
  <2>5. CASE Verify(r)
    <3>1. CASE Rejects(r, "refused")
      BY <1>1, <3>1 DEF Rejects, ReqRows
    <3>2. CASE Goto(r, IF q.key = NoKey THEN "recording" ELSE "claiming")
      <4>1. req' = [req EXCEPT ![r] = [q EXCEPT !.pc = IF q.key = NoKey THEN "recording" ELSE "claiming"]]
        BY <1>1, <3>2 DEF Goto
      <4> QED BY <1>1, <4>1 DEF ReqRows
    <3> QED BY <2>5, <3>1, <3>2 DEF Verify
  <2>6. CASE RecordRejected(r) \/ RecordReplayed(r) \/ RecordAccepted(r)
    BY <1>1, <2>6 DEF RecordRejected, RecordReplayed, RecordAccepted, Goto, ReqRows
  <2>7. CASE \E o \in {"success", "error"} : Execute(r, o)
    BY <1>1, <2>7 DEF Execute, ReqRows
  <2>8. CASE webhookDeliveryFinish(r)
    <3>1. req' = [req EXCEPT ![r] = IF q.key = NoKey THEN [q EXCEPT !.pc = "done", !.reply = Answer(q)]
                                   ELSE [q EXCEPT !.pc = "settling"]]
      BY <2>8 DEF webhookDeliveryFinish
    <3> QED BY <1>1, <3>1 DEF ReqRows
  <2>9. CASE webhookIdempotencyFinish(r)
    <3>1. req' = [req EXCEPT ![r] = [q EXCEPT !.pc = "done", !.reply = Answer(q)]]
      BY <2>9 DEF webhookIdempotencyFinish
    <3> QED BY <1>1, <3>1 DEF ReqRows
  <2>10. CASE Crash(r)
    <3>1. req' = [req EXCEPT ![r] = [q EXCEPT !.pc = "done", !.row = NoHook]]
      BY <2>10 DEF Crash
    <3> QED BY <1>1, <3>1 DEF ReqRows
  <2> QED BY <2>1, <2>2, <2>3, <2>4, <2>5, <2>6, <2>7, <2>8, <2>9, <2>10 DEF OtherMove
<1> QED BY <1>2, <1>3

LEMMA RevokedMoves ==
    ASSUME TInv, SecretInv, NEW r \in Requests, Ingress(r) \/ Crash(r)
    PROVE  SecretInv'
<1> DEFINE q == req[r]
           w == q.name
<1>1. Moves(r) /\ Types /\ OneHolder
  BY MovesStep DEF TInv
<1>2. /\ \A v \in Names : /\ hooks[v].secret \in Nat /\ hooks[v].previous \in Nat /\ hooks[v].handle \in Nat
                          /\ hooks[v].handle # 0 => hooks[v].secret > 0
      /\ req \in [Requests -> ReqRows] /\ q \in ReqRows /\ q.row \in HookRows
  BY TypedRow DEF TInv, Types, HookRows, Issued, HooksGiven, Given
<1>3. CASE Admit(r)
  <2>1. /\ q.pc = "hashing" /\ Matches(q)
        /\ hooks' = IF MatchesCurrent(q) /\ q.row.previous # 0 /\ Known(q)
                    THEN [hooks EXCEPT ![q.name].previous = 0, ![q.name].expires = 0] ELSE hooks
        /\ req'[r].pc = "admitted"
    BY <1>2, <1>3 DEF Admit, ReqRows
  <2>2. w \in Names /\ q.row.secret \in Nat /\ q.row.previous \in Nat
    BY <1>2, <2>1, ReqGiven DEF HookRows
  <2>3. \A v \in Names : /\ hooks'[v].handle = hooks[v].handle /\ hooks'[v].secret = hooks[v].secret
                         /\ hooks'[v].previous \in {0, hooks[v].previous}
    BY <1>1, TypedRow DEF Moves, HookRows
  <2>4. PreviousOlder'
    BY <1>2, <2>3 DEF SecretInv, PreviousOlder, Minted
  <2>5. RowsRead'
    <3> SUFFICES ASSUME NEW s \in Requests, req'[s].pc = "hashing"
                 PROVE  /\ req'[s].row.previous < req'[s].row.secret
                        /\ hooks'[req'[s].name].handle = req'[s].handle =>
                              /\ req'[s].row.secret <= hooks'[req'[s].name].secret
                              /\ req'[s].row.secret = hooks'[req'[s].name].secret =>
                                    hooks'[req'[s].name].previous \in {0, req'[s].row.previous}
      BY DEF RowsRead, Known
    <3>1. s # r /\ req'[s] = req[s]
      BY <1>1, <2>1 DEF Moves
    <3>2. /\ req[s].row.previous < req[s].row.secret
          /\ hooks[req[s].name].handle = req[s].handle =>
                /\ req[s].row.secret <= hooks[req[s].name].secret
                /\ req[s].row.secret = hooks[req[s].name].secret =>
                      hooks[req[s].name].previous \in {0, req[s].row.previous}
      BY <3>1 DEF SecretInv, RowsRead, Known
    <3>3. req[s].name \in Names
      BY <3>1, ReqGiven
    <3> QED BY <2>3, <3>1, <3>2, <3>3
  <2>6. PreviousRevoked'
    <3> SUFFICES ASSUME NEW v \in Names, hooks'[v].handle # 0, hooks'[v].previous # 0,
                        NEW s \in Requests, Admitted(s)', req'[s].handle = hooks'[v].handle,
                        req'[s].secret = hooks'[v].secret
                 PROVE  FALSE
      BY DEF PreviousRevoked, Minted
    <3>1. hooks[v].previous # 0 /\ hooks[v].handle # 0
      BY <2>3
    <3>2. CASE s # r
      <4>1. req'[s] = req[s]
        BY <1>1, <3>2 DEF Moves
      <4>2. Admitted(s) /\ req[s].handle = hooks[v].handle /\ req[s].secret = hooks[v].secret
        BY <2>3, <4>1 DEF Admitted
      <4> QED BY <3>1, <4>2 DEF SecretInv, PreviousRevoked, Minted
    <3>3. CASE s = r
      <4>1. q.handle = hooks[v].handle /\ q.secret = hooks[v].secret
        BY <1>1, <2>3, <3>3 DEF Moves
      <4>2. v = w
        BY <1>1, <2>1, <3>1, <4>1 DEF OneHolder, Minted
      <4>3. Known(q)
        BY <4>1, <4>2 DEF Known
      <4>4. /\ q.row.previous < q.row.secret /\ q.row.secret <= hooks[w].secret
            /\ q.row.secret = hooks[w].secret => hooks[w].previous \in {0, q.row.previous}
        BY <2>1, <4>3 DEF SecretInv, RowsRead
      <4>5. q.secret = q.row.secret
        BY <1>2, <2>1, <2>2, <4>1, <4>2, <4>4 DEF Matches, MatchesCurrent
      <4>6. MatchesCurrent(q) /\ q.row.previous # 0
        BY <3>1, <4>1, <4>2, <4>4, <4>5 DEF MatchesCurrent
      <4>7. hooks'[w].previous = 0
        BY <2>1, <2>2, <4>3, <4>6 DEF TInv, Types, HookRows
      <4> QED BY <4>2, <4>7
    <3> QED BY <3>2, <3>3
  <2> QED BY <2>4, <2>5, <2>6 DEF SecretInv
<1>4. CASE AdmitRead(r)
  <2>1. /\ hooks' = hooks /\ req'[r].mode = q.mode
        /\ req'[r].pc = "hashing" => Known(q) /\ req'[r].row = hooks[w]
    BY <1>2, <1>4 DEF AdmitRead, ReqRows, tables
  <2>2. w \in Names /\ q.handle # 0
    <3>1. q.name \in Names /\ q.handle \in 1..MaxIssued
      BY <1>1, ReqGiven DEF Moves, Handles
    <3> QED BY <3>1
  <2>3. Known(q) => hooks[w].previous < hooks[w].secret
    BY <2>2 DEF SecretInv, PreviousOlder, Minted, Known
  <2>4. RowsRead'
    BY <1>1, <1>2, <2>1, <2>2, <2>3 DEF SecretInv, RowsRead, Known, Moves
  <2>5. PreviousOlder' /\ PreviousRevoked'
    BY <1>1, <2>1 DEF SecretInv, PreviousOlder, PreviousRevoked, Minted, Admitted, Moves
  <2> QED BY <2>4, <2>5 DEF SecretInv
<1>5. CASE OtherMove(r)
  <2>1. hooks' = hooks /\ req'[r].mode = q.mode /\ req'[r].pc # "hashing"
    BY <1>5, OtherMoves
  <2>2. \A s \in Requests : s # r => req'[s] = req[s]
    BY <1>1 DEF Moves
  <2>3. RowsRead'
    BY <2>1, <2>2 DEF SecretInv, RowsRead, Known
  <2>4. PreviousOlder' /\ PreviousRevoked'
    BY <1>1, <2>1, <2>2 DEF SecretInv, PreviousOlder, PreviousRevoked, Minted, Admitted, Moves
  <2> QED BY <2>3, <2>4 DEF SecretInv
<1> QED BY <1>3, <1>4, <1>5 DEF Ingress, OtherMove

LEMMA StepSecrets ==
    ASSUME TInv, SecretInv, Next
    PROVE  SecretInv'
<1>1. /\ issued \in Nat /\ hooks \in [Names -> HookRows] /\ owner \in [Owners -> OwnerRows]
      /\ \A w \in Names : /\ hooks[w].handle \in Nat /\ hooks[w].secret \in Nat /\ hooks[w].previous \in Nat
                          /\ hooks[w].handle # 0 => hooks[w].handle <= issued /\ hooks[w].secret <= issued
  BY TypedRow DEF TInv, Types, HookRows, Issued, HooksGiven, Given
<1>2. \A r \in Requests :
         /\ Admitted(r) => req[r].pc # "new"
         /\ req[r].pc # "new" => /\ req[r].name \in Names /\ req[r].handle \in 1..issued /\ req[r].secret <= issued
                                 /\ req[r].handle \in Nat /\ req[r].secret \in Nat
         /\ req[r].row.secret \in Nat /\ req[r].row.previous \in Nat
  <2> TAKE r \in Requests
  <2>1. req[r] \in ReqRows /\ req[r].row \in HookRows
    BY TypedRow DEF TInv
  <2>2. req[r].pc = "new" => req[r].mode = "none"
    <3>1. req[r].pc = "new" => req[r] = NewRequest
      BY DEF TInv, Issued, SentGiven
    <3> QED BY <3>1 DEF NewRequest
  <2>3. req[r].pc # "new" => req[r].name \in Names /\ req[r].handle \in 1..issued /\ req[r].secret \in 1..issued
    BY DEF TInv, Issued, SentGiven, Given
  <2> QED BY <1>1, <2>1, <2>2, <2>3 DEF Admitted, HookRows
<1>3. ASSUME UNCHANGED <<hooks, req>> PROVE SecretInv'
  BY <1>3 DEF SecretInv, PreviousOlder, RowsRead, PreviousRevoked, Minted, Admitted, Known
<1>4. ASSUME NEW W \in SUBSET Names, Forget(W), UNCHANGED req PROVE SecretInv'
  <2>1. \A w \in Names : hooks'[w] = hooks[w] \/ hooks'[w].handle = 0
    BY <1>4 DEF Forget, NoHook
  <2> QED BY <1>2, <1>4, <2>1 DEF SecretInv, PreviousOlder, RowsRead, PreviousRevoked, Minted, Admitted, Known
<1>5. ASSUME NEW o \in Owners, OwnerStep(o) PROVE SecretInv'
  <2> DEFINE n == owner[o].name
  <2>1. CASE (\E w \in Names : MintBegin(o, w) \/ RotateBegin(o, w) \/ ApplyReveal(o, w)) \/ ApplySend(o) \/ ApplyFails(o)
    BY <1>3, <2>1 DEF MintBegin, RotateBegin, ApplyReveal, ApplySend, ApplyFails, tables
  <2>2. CASE MintInsert(o)
    <3>1. CASE n \in Minted
      <4>1. hooks' = hooks /\ req' = req
        BY <2>2, <3>1 DEF MintInsert
      <4> QED BY <1>3, <4>1
    <3>2. CASE n \notin Minted
      <4>1. n \in Names /\ req' = req
        BY <2>2 DEF MintInsert, TInv, Issued, CallsGiven
      <4>2. /\ hooks'[n].handle = issued + 1 /\ hooks'[n].secret = issued + 1 /\ hooks'[n].previous = 0
            /\ \A w \in Names : w # n => hooks'[w] = hooks[w]
        BY <1>1, <2>2, <3>2, <4>1 DEF MintInsert
      <4>3. PreviousOlder'
        BY <1>1, <4>2 DEF SecretInv, PreviousOlder, Minted
      <4>4. RowsRead'
        BY <1>1, <1>2, <4>1, <4>2 DEF SecretInv, RowsRead, Known
      <4>5. PreviousRevoked'
        BY <4>1, <4>2 DEF SecretInv, PreviousRevoked, Minted, Admitted
      <4> QED BY <4>3, <4>4, <4>5 DEF SecretInv
    <3> QED BY <3>1, <3>2
  <2>3. CASE RotateWrite(o)
    <3>1. CASE hooks[n].handle # owner[o].handle
      BY <1>3, <2>3, <3>1 DEF RotateWrite
    <3>2. CASE hooks[n].handle = owner[o].handle
      <4>1. n \in Names /\ req' = req
        BY <2>3 DEF RotateWrite, TInv, Issued, CallsGiven
      <4>2. /\ hooks'[n].handle = hooks[n].handle /\ hooks'[n].secret = issued + 1
            /\ hooks'[n].previous = hooks[n].secret
            /\ \A w \in Names : w # n => hooks'[w] = hooks[w]
        BY <1>1, <2>3, <3>2, <4>1 DEF RotateWrite
      <4>3. PreviousOlder'
        BY <1>1, <4>1, <4>2 DEF SecretInv, PreviousOlder, Minted
      <4>4. RowsRead'
        <5> SUFFICES ASSUME NEW r \in Requests, req[r].pc = "hashing"
                     PROVE  /\ req[r].row.previous < req[r].row.secret
                            /\ hooks'[req[r].name].handle = req[r].handle =>
                                  /\ req[r].row.secret <= hooks'[req[r].name].secret
                                  /\ req[r].row.secret = hooks'[req[r].name].secret =>
                                        hooks'[req[r].name].previous \in {0, req[r].row.previous}
          BY <4>1 DEF RowsRead, Known
        <5>1. /\ req[r].row.previous < req[r].row.secret
              /\ hooks[req[r].name].handle = req[r].handle =>
                    /\ req[r].row.secret <= hooks[req[r].name].secret
                    /\ req[r].row.secret = hooks[req[r].name].secret =>
                          hooks[req[r].name].previous \in {0, req[r].row.previous}
          BY DEF SecretInv, RowsRead, Known
        <5>2. CASE req[r].name # n
          BY <1>2, <4>2, <5>1, <5>2
        <5>3. CASE req[r].name = n
          BY <1>1, <1>2, <4>1, <4>2, <5>1, <5>3
        <5> QED BY <5>2, <5>3
      <4>5. PreviousRevoked'
        BY <1>1, <1>2, <4>1, <4>2 DEF SecretInv, PreviousRevoked, Minted, Admitted
      <4> QED BY <4>3, <4>4, <4>5 DEF SecretInv
    <3> QED BY <3>1, <3>2
  <2> QED BY <1>5, <2>1, <2>2, <2>3 DEF OwnerStep
<1>6. ASSUME NEW w \in Names, webhookDelete(w) PROVE SecretInv'
  BY <1>4, <1>6 DEF webhookDelete
<1>7. CASE packageDelete
  <2>1. Minted \in SUBSET Names
    BY DEF Minted
  <2> QED BY <1>4, <1>7, <2>1 DEF packageDelete
<1>8. ASSUME NEW w \in Names, NEW b \in BOOLEAN, webhookSetEnabled(w, b) PROVE SecretInv'
  <2>1. req' = req /\ \A v \in Names : /\ hooks'[v].handle = hooks[v].handle /\ hooks'[v].secret = hooks[v].secret
                                       /\ hooks'[v].previous = hooks[v].previous
    BY <1>1, <1>8 DEF webhookSetEnabled, HookRows
  <2> QED BY <1>2, <2>1 DEF SecretInv, PreviousOlder, RowsRead, PreviousRevoked, Minted, Admitted, Known
<1>9. CASE (\E modes \in [Names -> Modes] : packageSave(modes)) \/ Tick
  BY <1>3, <1>9 DEF packageSave, Tick, tables
<1>10. ASSUME NEW r \in Requests, NEW w \in Names, NEW k \in Keys \cup {NoKey}, NEW p \in Payloads, Arrive(r, w, k, p)
       PROVE SecretInv'
  <2>1. /\ hooks' = hooks /\ req'[r].pc = "arrived" /\ req'[r].mode = "none"
        /\ \A s \in Requests : s # r => req'[s] = req[s]
    BY <1>10, NullRows DEF Arrive, tables, TInv, Types, ReqRows, NewRequest
  <2> QED BY <2>1 DEF SecretInv, PreviousOlder, RowsRead, PreviousRevoked, Minted, Admitted, Known
<1>11. ASSUME NEW r \in Requests, Ingress(r) \/ Crash(r) PROVE SecretInv'
  BY <1>11, RevokedMoves
<1> QED BY <1>5, <1>6, <1>7, <1>8, <1>9, <1>10, <1>11 DEF Next

(***************************************************************************)
(* Once a delivery on the current secret of a webhook was admitted, the    *)
(* webhook has no previous secret (user-cell.ts, webhookAdmit, which       *)
(* writes on a row it read before it awaited the hash), for any number of  *)
(* rotations and deliveries that overlap.                                  *)
(***************************************************************************)
THEOREM RotationRevokes == Spec => []PreviousRevoked
<1>1. Init => SecretInv
  BY DEF Init, SecretInv, PreviousOlder, RowsRead, PreviousRevoked, Minted, NoHook, NewRequest
<1>2. TInv /\ SecretInv /\ [Next]_vars => SecretInv'
  <2> SUFFICES ASSUME TInv, SecretInv, [Next]_vars PROVE SecretInv'
    OBVIOUS
  <2>1. CASE UNCHANGED vars
    BY <2>1 DEF SecretInv, PreviousOlder, RowsRead, PreviousRevoked, Minted, Admitted, Known, vars
  <2> QED BY <2>1, StepSecrets
<1>3. SecretInv => PreviousRevoked
  BY DEF SecretInv
<1> QED BY <1>1, <1>2, <1>3, InitTInv, StepTInv, PTL DEF Spec

-----------------------------------------------------------------------------
(* No more deliveries of a minute are admitted than webhook_rate has room for *)

LEMMA MinuteFacts == \A t \in Nat : Minute(t) \in Nat
BY DEF Minute

\* The limit a number of times over.
LEMMA TimesFacts ==
    \A k \in Nat : RateLimit * k \in Nat /\ RateLimit * (k + 1) = RateLimit * k + RateLimit
BY WebhooksAssumption

\* Steps after which no other delivery is admitted, and webhook_rate of the webhooks that stay is as it was.
LEMMA RateFrame ==
    ASSUME TInv, Types', RateInv,
           \A w \in Names :
              \/ hooks'[w].handle = issued + 1 \/ hooks'[w].handle = 0
              \/ /\ hooks'[w].handle = hooks[w].handle
                 /\ rate'[hooks[w].handle] = rate[hooks[w].handle]
                 /\ overtaken'[hooks[w].handle] = overtaken[hooks[w].handle],
           \A r \in Requests : Admitted(r)' => Admitted(r) /\ req'[r].handle = req[r].handle /\ req'[r].at = req[r].at
    PROVE  RateInv'
<1>1. issued \in Nat /\ issued <= MaxIssued
  BY WebhooksAssumption DEF TInv, Types
<1>2. \A r \in Requests : Admitted(r) => req[r].handle <= issued
  <2> TAKE r \in Requests
  <2>1. req[r].pc = "new" => req[r] = NewRequest
    BY DEF TInv, Issued, SentGiven
  <2>2. req[r].pc = "new" => ~Admitted(r)
    BY <2>1 DEF NewRequest, Admitted
  <2> QED BY <2>2, ReqGiven
<1>3. ASSUME NEW w \in Names, hooks'[w].handle # 0, NEW m \in Nat
      PROVE  LET In == {r \in Requests : req'[r].mode # "none" /\ req'[r].handle = hooks'[w].handle
                                         /\ Minute(req'[r].at) = m}
             IN  IsFiniteSet(In) /\ Cardinality(In) <= RoomOf(rate'[hooks'[w].handle], overtaken'[hooks'[w].handle], m)
  <2> DEFINE h == hooks'[w].handle
             In == {r \in Requests : req'[r].mode # "none" /\ req'[r].handle = h /\ Minute(req'[r].at) = m}
             Was == {r \in Requests : Admitted(r) /\ req[r].handle = h /\ Minute(req[r].at) = m}
             room == RoomOf(rate'[h], overtaken'[h], m)
  <2>1. In \subseteq Was
    BY DEF Admitted
  <2>2. h \in Handles
    BY <1>3 DEF Types, HookRows, Handles
  <2>3. room \in Nat
    <3>1. rate'[h].minute \in Nat /\ rate'[h].n \in Nat /\ overtaken'[h] \in Nat
      <4>1. /\ rate' \in [Handles -> [minute : Nat, n : 0..RateLimit]]
            /\ overtaken' \in [Handles -> Nat]
        BY DEF Types
      <4>2. rate'[h] \in [minute : Nat, n : 0..RateLimit] /\ overtaken'[h] \in Nat
        BY <2>2, <4>1
      <4> HIDE DEF h
      <4> QED BY <4>2, WebhooksAssumption
    <3>2. RateLimit * overtaken'[h] \in Nat /\ RateLimit \in Nat
      BY <3>1, TimesFacts, WebhooksAssumption
    <3> HIDE DEF h
    <3> QED BY <3>1, <3>2 DEF RoomOf
  <2>4. CASE h = issued + 1
    <3>1. \A r \in Requests : Admitted(r) => req[r].handle # h
      <4> TAKE r \in Requests
      <4>1. Admitted(r) => req[r].handle <= issued /\ req[r].handle \in Nat
        BY <1>2, TypedRow DEF ReqRows, TInv
      <4> QED BY <1>1, <2>4, <4>1
    <3>2. In = {}
      BY <2>1, <3>1
    <3>3. IsFiniteSet(In) /\ Cardinality(In) = 0
      BY <3>2, FS_EmptySet
    <3> HIDE DEF In, room
    <3>4. IsFiniteSet(In) /\ Cardinality(In) <= room
      BY <2>3, <3>3
    <3> QED BY <3>4 DEF In, room
  <2>5. CASE h = hooks[w].handle /\ rate'[h] = rate[h] /\ overtaken'[h] = overtaken[h]
    <3>1. IsFiniteSet(Was) /\ Cardinality(Was) <= RoomOf(rate[h], overtaken[h], m)
      BY <1>3, <2>5 DEF RateInv, Minted, AdmittedIn, Room
    <3>2. RoomOf(rate[h], overtaken[h], m) = room
      BY <2>5
    <3> HIDE DEF h, In, Was, room
    <3>3. /\ IsFiniteSet(In) /\ Cardinality(In) <= Cardinality(Was)
          /\ Cardinality(In) \in Nat /\ Cardinality(Was) \in Nat
      BY <2>1, <3>1, FS_Subset, FS_CardinalityType
    <3>4. IsFiniteSet(In) /\ Cardinality(In) <= room
      BY <2>3, <3>1, <3>2, <3>3
    <3> QED BY <3>4 DEF In, room, h
  <2> QED BY <1>3, <2>4, <2>5
<1> QED BY <1>3 DEF RateInv, Minted, AdmittedIn, Admitted, Room

\* An admission: of the minute that is counted, of a newer one, or of an earlier one.
LEMMA RateAdmit ==
    ASSUME TInv, RateInv, NEW r \in Requests, Admit(r)
    PROVE  RateInv'
<1> DEFINE q == req[r]
           h == q.handle
           m0 == Minute(q.at)
           c == Count(q)
           k == overtaken[h]
<1>1. Moves(r)
  BY MovesStep DEF Ingress
<1>2. /\ h \in Handles /\ q.pc = "hashing" /\ m0 \in Nat /\ k \in Nat
      /\ rate[h].minute \in Nat /\ rate[h].n \in 0..RateLimit
  <2>1. q.pc = "hashing"
    BY DEF Admit
  <2>2. h \in Handles /\ q.at \in Nat
    BY <2>1, ReqGiven
  <2>3. overtaken \in [Handles -> Nat] /\ rate \in [Handles -> [minute : Nat, n : 0..RateLimit]]
    BY DEF TInv, Types
  <2> QED BY <2>1, <2>2, <2>3, MinuteFacts
<1>3. /\ req \in [Requests -> ReqRows] /\ q \in ReqRows /\ overtaken \in [Handles -> Nat]
      /\ rate \in [Handles -> [minute : Nat, n : 0..RateLimit]]
  BY TypedRow DEF TInv, Types
<1>4. /\ c < RateLimit /\ c = (IF rate[h].minute = m0 THEN rate[h].n ELSE 0)
      /\ rate' = [rate EXCEPT ![h] = [minute |-> m0, n |-> c + 1]]
  BY DEF Admit, Count, CountOne
<1>5. overtaken' = [overtaken EXCEPT ![h] = IF m0 < rate[h].minute THEN k + 1 ELSE k]
  BY <1>2, <1>3 DEF Admit, CountOne
<1>6. req'[r].mode # "none" => req'[r].handle = h /\ req'[r].at = q.at
  BY <1>1 DEF Moves
<1>7. \A s \in Requests : s # r => req'[s] = req[s]
  BY <1>1 DEF Moves
<1>8. \A w \in Names : hooks'[w].handle = hooks[w].handle
  BY <1>1, TypedRow DEF Moves, HookRows, TInv
<1>9. /\ \A g \in Handles : g # h => rate'[g] = rate[g] /\ overtaken'[g] = overtaken[g]
      /\ rate'[h] = [minute |-> m0, n |-> c + 1]
      /\ overtaken'[h] = IF m0 < rate[h].minute THEN k + 1 ELSE k
  BY <1>2, <1>3, <1>4, <1>5
<1> HIDE DEF c, m0, k
<1>10. ASSUME NEW w \in Names, hooks'[w].handle # 0, NEW m \in Nat
       PROVE  LET In == {s \in Requests : req'[s].mode # "none" /\ req'[s].handle = hooks'[w].handle
                                          /\ Minute(req'[s].at) = m}
              IN  IsFiniteSet(In) /\ Cardinality(In) <= RoomOf(rate'[hooks'[w].handle], overtaken'[hooks'[w].handle], m)
  <2> DEFINE g == hooks[w].handle
             In == {s \in Requests : req'[s].mode # "none" /\ req'[s].handle = g /\ Minute(req'[s].at) = m}
             Was == {s \in Requests : Admitted(s) /\ req[s].handle = g /\ Minute(req[s].at) = m}
             before == RoomOf(rate[g], overtaken[g], m)
             after == RoomOf(rate'[g], overtaken'[g], m)
  <2>1. hooks'[w].handle = g /\ g # 0
    BY <1>8, <1>10
  <2>2. g \in Handles
    BY <2>1, TypedRow DEF TInv, HookRows, Handles
  <2>3. IsFiniteSet(Was) /\ Cardinality(Was) <= before
    BY <2>1 DEF RateInv, Minted, AdmittedIn, Room
  <2>4. In \subseteq Was \cup {r}
    BY <1>7 DEF Admitted
  <2>5. g # h \/ m # m0 => In \subseteq Was
    BY <1>6, <1>7 DEF Admitted, m0
  <2>6. g # h => after = before
    BY <1>9, <2>2
  <2>7. g = h => before \in Nat /\ after \in Nat /\ before + (IF m = m0 THEN 1 ELSE 0) <= after
    <3> SUFFICES ASSUME g = h PROVE before \in Nat /\ after \in Nat /\ before + (IF m = m0 THEN 1 ELSE 0) <= after
      OBVIOUS
    <3>1. /\ rate[g].minute \in Nat /\ rate[g].n \in Nat /\ rate[g].n <= RateLimit /\ k \in Nat
          /\ RateLimit \in Nat /\ c \in Nat /\ m0 \in Nat
          /\ RateLimit * k \in Nat /\ RateLimit * (k + 1) = RateLimit * k + RateLimit
      BY <1>2, <1>4, TimesFacts, WebhooksAssumption
    <3>2. before = IF m = rate[g].minute THEN RateLimit * k + rate[g].n
                   ELSE IF m > rate[g].minute THEN RateLimit * k ELSE RateLimit * k + RateLimit
      BY DEF RoomOf, k
    <3>3. after = IF m = m0 THEN RateLimit * overtaken'[g] + (c + 1)
                  ELSE IF m > m0 THEN RateLimit * overtaken'[g] ELSE RateLimit * overtaken'[g] + RateLimit
      BY <1>9 DEF RoomOf
    <3>4. RateLimit * overtaken'[g] = IF m0 < rate[g].minute THEN RateLimit * k + RateLimit ELSE RateLimit * k
      BY <1>9, <3>1
    <3>5. c < RateLimit /\ c = (IF rate[g].minute = m0 THEN rate[g].n ELSE 0)
      BY <1>4
    <3> DEFINE L == RateLimit * k
               M == RateLimit * overtaken'[g]
               minute == rate[g].minute
               n == rate[g].n
    <3> HIDE DEF L, M, minute, n, before, after, g, h
    <3>6. /\ minute \in Nat /\ n \in Nat /\ n <= RateLimit /\ RateLimit \in Nat /\ c \in Nat /\ m0 \in Nat /\ L \in Nat
          /\ M = (IF m0 < minute THEN L + RateLimit ELSE L)
          /\ c < RateLimit /\ c = (IF minute = m0 THEN n ELSE 0)
      BY <3>1, <3>4, <3>5 DEF L, M, minute, n
    <3>7. /\ before = (IF m = minute THEN L + n ELSE IF m > minute THEN L ELSE L + RateLimit)
          /\ after = (IF m = m0 THEN M + (c + 1) ELSE IF m > m0 THEN M ELSE M + RateLimit)
      BY <3>2, <3>3 DEF L, M, minute, n
    <3> QED BY <3>6, <3>7
  <2>9. before \in Nat
    <3>1. rate[g].minute \in Nat /\ rate[g].n \in Nat /\ overtaken[g] \in Nat
      BY <1>3, <2>2, WebhooksAssumption
    <3>2. RateLimit * overtaken[g] \in Nat /\ RateLimit \in Nat
      BY <3>1, TimesFacts, WebhooksAssumption
    <3> HIDE DEF g
    <3> QED BY <3>1, <3>2 DEF RoomOf
  <2> HIDE DEF In, Was, g, h, before, after
  <2>8. IsFiniteSet(In) /\ Cardinality(In) <= after
    <3>1. /\ IsFiniteSet(Was \cup {r}) /\ Cardinality(Was) \in Nat
          /\ Cardinality(Was \cup {r}) <= Cardinality(Was) + 1 /\ Cardinality(Was \cup {r}) \in Nat
      <4>1. IsFiniteSet(Was \cup {r}) /\ Cardinality(Was \cup {r}) = IF r \in Was THEN Cardinality(Was) ELSE Cardinality(Was) + 1
        BY <2>3, FS_AddElement
      <4>2. Cardinality(Was) \in Nat
        BY <2>3, FS_CardinalityType
      <4> QED BY <4>1, <4>2
    <3>2. IsFiniteSet(In) /\ Cardinality(In) <= Cardinality(Was \cup {r}) /\ Cardinality(In) \in Nat
      BY <2>4, <3>1, FS_Subset, FS_CardinalityType
    <3>3. CASE In \subseteq Was
      <4>1. Cardinality(In) <= Cardinality(Was)
        BY <2>3, <3>3, FS_Subset
      <4>2. CASE g # h
        BY <2>3, <2>6, <2>9, <3>1, <3>2, <4>1, <4>2
      <4>3. CASE g = h
        BY <2>3, <2>7, <3>1, <3>2, <4>1, <4>3
      <4> QED BY <4>2, <4>3
    <3>4. CASE ~(In \subseteq Was)
      BY <2>3, <2>5, <2>7, <3>1, <3>2, <3>4
    <3> QED BY <3>3, <3>4
  <2> QED BY <2>1, <2>8 DEF In, g, after
<1> QED BY <1>10 DEF RateInv, Minted, AdmittedIn, Admitted, Room

LEMMA StepRate ==
    ASSUME TInv, RateInv, Next
    PROVE  RateInv'
<1>1. /\ Types' /\ issued \in Nat
      /\ hooks \in [Names -> HookRows] /\ rate \in [Handles -> [minute : Nat, n : 0..RateLimit]]
      /\ \A w \in Names : hooks[w].handle \in Nat
  <2>1. Types'
    BY StepTypes
  <2>2. /\ issued \in Nat
        /\ hooks \in [Names -> HookRows] /\ rate \in [Handles -> [minute : Nat, n : 0..RateLimit]]
    BY WebhooksAssumption DEF TInv, Types
  <2>3. \A w \in Names : hooks[w].handle \in Nat
    BY <2>2 DEF HookRows
  <2> QED BY <2>1, <2>2, <2>3
<1>2. ASSUME UNCHANGED <<rate, overtaken, req>>,
             \A w \in Names : hooks'[w].handle = hooks[w].handle \/ hooks'[w].handle = issued + 1
      PROVE  RateInv'
  BY <1>1, <1>2, RateFrame DEF Admitted
<1>3. ASSUME NEW W \in SUBSET Names, Forget(W), overtaken' = overtaken, req' = req PROVE RateInv'
  <2> DEFINE H == {hooks[w].handle : w \in W}
  <2>1. /\ \A h \in Handles : rate'[h] = IF h \in H THEN [minute |-> 0, n |-> 0] ELSE rate[h]
        /\ \A w \in Names : hooks'[w] = IF w \in W THEN NoHook ELSE hooks[w]
    BY <1>3 DEF Forget
  <2>2. \A w \in Names :
           hooks'[w].handle = 0 \/ (hooks'[w].handle = hooks[w].handle /\ rate'[hooks[w].handle] = rate[hooks[w].handle])
    <3> SUFFICES ASSUME NEW w \in Names, hooks'[w].handle # 0
                 PROVE  hooks'[w].handle = hooks[w].handle /\ rate'[hooks[w].handle] = rate[hooks[w].handle]
      OBVIOUS
    <3>1. w \notin W /\ hooks'[w] = hooks[w]
      BY <2>1 DEF NoHook
    <3>2. hooks[w].handle \in Handles
      BY <1>1, <3>1 DEF HookRows, Handles
    <3>3. hooks[w].handle \notin H
      BY <3>1 DEF TInv, OneHolder, Minted
    <3> QED BY <2>1, <3>1, <3>2, <3>3
  <2> QED BY <1>1, <1>3, <2>2, RateFrame DEF Admitted
<1>4. ASSUME NEW o \in Owners, OwnerStep(o) PROVE RateInv'
  <2>1. rate' = rate /\ overtaken' = overtaken /\ req' = req
    BY <1>4 DEF OwnerStep, MintBegin, MintInsert, RotateBegin, RotateWrite, ApplyReveal, ApplySend, ApplyFails, tables
  <2>2. \A w \in Names : hooks'[w].handle = hooks[w].handle \/ hooks'[w].handle = issued + 1
    <3>1. CASE MintInsert(o)
      BY <1>1, <3>1 DEF MintInsert
    <3>2. CASE RotateWrite(o)
      BY <1>1, <3>2 DEF RotateWrite
    <3>3. CASE ~MintInsert(o) /\ ~RotateWrite(o)
      BY <1>4, <3>3 DEF OwnerStep, MintBegin, RotateBegin, ApplyReveal, ApplySend, ApplyFails, tables
    <3> QED BY <3>1, <3>2, <3>3
  <2> QED BY <1>1, <1>2, <2>1, <2>2
<1>5. ASSUME NEW w \in Names, webhookDelete(w) PROVE RateInv'
  BY <1>3, <1>5 DEF webhookDelete
<1>6. CASE packageDelete
  <2>1. Minted \in SUBSET Names
    BY DEF Minted
  <2> QED BY <1>3, <1>6, <2>1 DEF packageDelete
<1>7. ASSUME NEW w \in Names, NEW b \in BOOLEAN, webhookSetEnabled(w, b) PROVE RateInv'
  <2>1. \A v \in Names : hooks'[v].handle = hooks[v].handle
    BY <1>1, <1>7 DEF webhookSetEnabled, HookRows
  <2> QED BY <1>1, <1>2, <1>7, <2>1 DEF webhookSetEnabled
<1>8. ASSUME NEW modes \in [Names -> Modes], packageSave(modes) PROVE RateInv'
  BY <1>1, <1>2, <1>8 DEF packageSave, tables
<1>9. CASE Tick
  BY <1>1, <1>2, <1>9 DEF Tick, tables
<1>10. ASSUME NEW r \in Requests, NEW w \in Names, NEW k \in Keys \cup {NoKey}, NEW p \in Payloads, Arrive(r, w, k, p)
       PROVE  RateInv'
  <2>1. /\ hooks' = hooks /\ rate' = rate /\ overtaken' = overtaken
        /\ \A s \in Requests : s # r => req'[s] = req[s]
        /\ req'[r].mode = "none"
    BY <1>10, NullRows DEF Arrive, tables, TInv, Types, ReqRows, NewRequest
  <2>2. \A s \in Requests : Admitted(s)' => Admitted(s) /\ req'[s].handle = req[s].handle /\ req'[s].at = req[s].at
    BY <2>1 DEF Admitted
  <2> QED BY <1>1, <2>1, <2>2, RateFrame
<1>11. ASSUME NEW r \in Requests, AdmitRead(r) \/ OtherMove(r) PROVE RateInv'
  <2> DEFINE q == req[r]
  <2>1. Moves(r)
    BY <1>11, MovesStep DEF OtherMove, Ingress
  <2>2. req'[r].mode = q.mode /\ hooks' = hooks
    <3>1. CASE AdmitRead(r)
      BY <3>1, TypedRow DEF AdmitRead, tables, TInv, Types, ReqRows
    <3>2. CASE OtherMove(r)
      BY <3>2, OtherMoves
    <3> QED BY <1>11, <3>1, <3>2
  <2>3. overtaken' = overtaken /\ \A h \in Handles : rate'[h] = rate[h]
    <3>1. CASE UNCHANGED <<rate, overtaken>>
      BY <3>1
    <3>2. CASE AdmitLimited(r)
      <4>1. /\ q.pc = "hashing" /\ Count(q) >= RateLimit /\ overtaken' = overtaken
            /\ rate' = [rate EXCEPT ![q.handle] = [minute |-> Minute(q.at), n |-> Count(q)]]
        BY <3>2 DEF AdmitLimited
      <4>2. rate[q.handle].minute = Minute(q.at) /\ Count(q) = rate[q.handle].n
        BY <4>1, WebhooksAssumption DEF Count
      <4>3. rate[q.handle] = [minute |-> Minute(q.at), n |-> Count(q)]
        <5>1. q.handle \in Handles /\ rate[q.handle] \in [minute : Nat, n : 0..RateLimit]
          BY <1>1, <4>1, ReqGiven
        <5> QED BY <4>2, <5>1
      <4> QED BY <1>1, <4>1, <4>3
    <3>3. CASE AdmitRead(r)
      BY <3>3 DEF AdmitRead, tables
    <3> QED BY <1>11, <3>1, <3>2, <3>3, OtherMoves
  <2>4. \A s \in Requests : Admitted(s)' => Admitted(s) /\ req'[s].handle = req[s].handle /\ req'[s].at = req[s].at
    BY <2>1, <2>2 DEF Moves, Admitted
  <2>5. \A w \in Names :
           \/ hooks'[w].handle = 0
           \/ /\ hooks'[w].handle = hooks[w].handle
              /\ rate'[hooks[w].handle] = rate[hooks[w].handle]
              /\ overtaken'[hooks[w].handle] = overtaken[hooks[w].handle]
    <3> TAKE w \in Names
    <3>1. hooks[w].handle \in Handles \/ hooks[w].handle = 0
      BY <1>1 DEF HookRows, Handles
    <3> QED BY <2>2, <2>3, <3>1
  <2> QED BY <1>1, <2>4, <2>5, RateFrame
<1>12. ASSUME NEW r \in Requests, Admit(r) PROVE RateInv'
  BY <1>12, RateAdmit
<1> QED BY <1>4, <1>5, <1>6, <1>7, <1>8, <1>9, <1>10, <1>11, <1>12 DEF Next, Ingress, OtherMove

LEMMA InitRate == Init => RateInv
BY DEF Init, RateInv, Minted, NoHook

LEMMA RateInvLimits ==
    ASSUME TInv, RateInv
    PROVE  RateLimitHolds
<1> SUFFICES ASSUME NEW w \in Minted, NEW m \in 0..Minute(MaxTime)
             PROVE  Cardinality(AdmittedIn(hooks[w].handle, m)) <= RateLimit * (1 + overtaken[hooks[w].handle])
  BY DEF RateLimitHolds, AdmittedIn
<1> DEFINE h == hooks[w].handle
           k == overtaken[h]
           n == Cardinality(AdmittedIn(h, m))
<1>1. m \in Nat /\ h \in Handles
  <2>1. Minute(MaxTime) \in Nat
    BY MinuteFacts, WebhooksAssumption
  <2>2. w \in Names /\ h # 0
    BY DEF Minted
  <2> QED BY <2>1, <2>2, TypedRow DEF TInv, HookRows, Handles
<1>2. n <= RoomOf(rate[h], k, m) /\ n \in Nat
  BY <1>1, FS_CardinalityType DEF RateInv, Room
<1>3. /\ rate[h].minute \in Nat /\ rate[h].n \in Nat /\ rate[h].n <= RateLimit /\ RateLimit \in Nat /\ k \in Nat
  <2>1. rate[h] \in [minute : Nat, n : 0..RateLimit] /\ k \in Nat
    BY <1>1 DEF TInv, Types
  <2> QED BY <2>1, WebhooksAssumption
<1>4. RateLimit * k \in Nat /\ RateLimit * (1 + k) = RateLimit * k + RateLimit
  <2>1. 1 + k = k + 1
    BY <1>3
  <2> QED BY <1>3, <2>1, TimesFacts
<1> HIDE DEF n, k, h
<1>5. RoomOf(rate[h], k, m) <= RateLimit * k + RateLimit /\ RoomOf(rate[h], k, m) \in Nat
  BY <1>1, <1>3, <1>4 DEF RoomOf
<1>6. n <= RateLimit * (1 + k)
  BY <1>2, <1>3, <1>4, <1>5
<1> QED BY <1>6 DEF n, k, h

(***************************************************************************)
(* A webhook admits no more deliveries of a minute than its limit, and the *)
(* limit again for each delivery that reached webhookAdmit after one of a  *)
(* newer minute had been counted, with any number of deliveries between    *)
(* webhookAdmit's two halves and calls in any order; and the tables stay   *)
(* within their limits.                                                    *)
(***************************************************************************)
THEOREM RateLimited == Spec => []LimitsHold
<1>1. TInv /\ RateInv /\ [Next]_vars => RateInv'
  <2> SUFFICES ASSUME TInv, RateInv, [Next]_vars PROVE RateInv'
    OBVIOUS
  <2>1. CASE UNCHANGED vars
    BY <2>1 DEF RateInv, Room, RoomOf, AdmittedIn, Minted, Admitted, vars
  <2>2. CASE Next
    BY <2>2, StepRate
  <2> QED BY <2>1, <2>2
<1>2. TInv /\ RateInv => LimitsHold
  BY TInvTypeOK, RateInvLimits DEF LimitsHold
<1> QED BY <1>1, <1>2, InitTInv, InitRate, StepTInv, PTL DEF Spec

-----------------------------------------------------------------------------
(* One run of a key at a time *)

\* What the ledger knows of a delivery that goes on without claiming.
Goes(r) ==
    /\ ClaimStage(req'[r]) /\ req'[r].claim = req[r].claim
    /\ req[r].pc # "new" => /\ req'[r].name = req[r].name /\ req'[r].handle = req[r].handle
                            /\ req'[r].key = req[r].key /\ req'[r].payload = req[r].payload
    /\ req[r].outcome # "none" => req'[r].outcome = req[r].outcome
    /\ req'[r].pc \in {"recording", "executing", "finishing", "settling"} /\ req'[r].key # NoKey => Running(r)

LEMMA ClaimTypes ==
    ASSUME TInv
    PROVE  /\ issued \in Nat /\ issued <= MaxIssued /\ LedgerKeep \in Nat \ {0}
           /\ \A h \in Handles : /\ claims[h] \in Nat /\ ledger[h] \in Seq(LedgerRows) /\ Len(ledger[h]) \in Nat
                                 /\ Len(ledger[h]) <= LedgerKeep
                                 /\ \A i \in 1..Len(ledger[h]) : ledger[h][i] \in LedgerRows
           /\ \A r \in Requests : /\ req[r].claim \in Nat
                                  /\ req[r].pc # "new" => req[r].handle \in Handles /\ req[r].handle <= issued
<1>1. issued \in Nat /\ issued <= MaxIssued /\ LedgerKeep \in Nat \ {0}
  BY WebhooksAssumption DEF TInv, Types
<1>2. ASSUME NEW h \in Handles
      PROVE  /\ claims[h] \in Nat /\ ledger[h] \in Seq(LedgerRows) /\ Len(ledger[h]) <= LedgerKeep
  BY DEF TInv, Types, Lengths
<1>3. ASSUME NEW r \in Requests
      PROVE  req[r].claim \in Nat /\ (req[r].pc # "new" => req[r].handle \in Handles /\ req[r].handle <= issued)
  BY TypedRow, ReqGiven DEF TInv, ReqRows
<1> QED BY <1>1, <1>2, <1>3

\* A webhook that existed keeps its handle or is deleted; another one has a fresh handle.
Handed ==
    \A w \in Names : hooks'[w].handle \in {0, hooks[w].handle, issued + 1}

LEMMA RunsApart ==
    ASSUME TInv, LedgerInv, Handed, \A r \in Requests : Goes(r)
    PROVE  OneRunPerKey'
<1> SUFFICES ASSUME NEW r \in Requests, NEW s \in Requests, Running(r)', Running(s)',
                    req'[r].handle = req'[s].handle, req'[r].key = req'[s].key, req'[r].claim < req'[s].claim,
                    req'[s].claim - req'[r].claim <= LedgerKeep
             PROVE  hooks'[req'[r].name].handle # req'[r].handle
  BY ClaimTypes DEF OneRunPerKey, Known, Goes
<1>1. Running(r) /\ Running(s) /\ req[r].pc # "new" /\ req[s].pc # "new"
  BY DEF Goes, Running
<1>2. /\ req'[r].handle = req[r].handle /\ req'[s].handle = req[s].handle /\ req'[r].key = req[r].key
      /\ req'[s].key = req[s].key /\ req'[r].claim = req[r].claim /\ req'[s].claim = req[s].claim
      /\ req'[r].name = req[r].name
  BY <1>1 DEF Goes
<1>3. hooks[req[r].name].handle # req[r].handle
  <2>1. req[r].handle = req[s].handle /\ req[r].key = req[s].key /\ req[r].claim < req[s].claim
    BY <1>2
  <2>2. req[s].claim - req[r].claim > LedgerKeep \/ ~Known(req[r])
    BY <1>1, <2>1 DEF LedgerInv, OneRunPerKey
  <2>3. ~(req[s].claim - req[r].claim > LedgerKeep)
    BY <1>2, ClaimTypes
  <2> QED BY <2>2, <2>3 DEF Known
<1>4. req[r].name \in Names /\ req[r].handle \in 1..issued
  BY <1>1, ReqGiven DEF TInv, Issued, SentGiven, Given
<1> QED BY <1>2, <1>3, <1>4, ClaimTypes DEF Handed

\* The ledger of a handle keeps its rows; one that is settled gets the outcome of the delivery that tells it.
SameRows(h) ==
    /\ Len(ledger'[h]) = Len(ledger[h])
    /\ \A i \in 1..Len(ledger[h]) :
          /\ ledger'[h][i].key = ledger[h][i].key /\ ledger'[h][i].payload = ledger[h][i].payload
          /\ \/ ledger'[h][i].status = ledger[h][i].status
             \/ claims[h] <= LedgerKeep =>
                   \A r \in Requests : ToldBy(r, h, i) => req'[r].outcome = ledger'[h][i].status

LEMMA LedgerFrame ==
    ASSUME TInv, TInv', LedgerInv, Handed, claims' = claims, issued <= issued', \A r \in Requests : Goes(r),
           \A h \in Handles : h > issued' => ledger'[h] = ledger[h],
           \A w \in Names : hooks'[w].handle \in Handles => SameRows(hooks'[w].handle),
           \A w \in Names : hooks'[w].handle = issued + 1 => issued + 1 <= issued'
    PROVE  LedgerInv'
<1>1. Claims'
  <2>1. \A r \in Requests : ClaimStage(req'[r])
    BY DEF Goes
  <2>2. ASSUME NEW r \in Requests, req'[r].claim # 0
        PROVE  /\ req[r].claim = req'[r].claim /\ req[r].claim # 0 /\ req[r].handle = req'[r].handle
               /\ req'[r].claim <= claims'[req'[r].handle]
    <3>1. req[r].claim # 0 /\ req[r].claim = req'[r].claim
      BY <2>2 DEF Goes
    <3>2. req[r].pc # "new"
      BY <3>1 DEF LedgerInv, Claims, ClaimStage
    <3> QED BY <3>1, <3>2 DEF Goes, LedgerInv, Claims
  <2>3. \A r, s \in Requests :
           req'[r].claim # 0 /\ req'[s].claim = req'[r].claim /\ req'[s].handle = req'[r].handle => s = r
    BY <2>2 DEF LedgerInv, Claims
  <2>4. ASSUME NEW h \in Handles, h > issued' PROVE claims'[h] = 0 /\ ledger'[h] = <<>>
    <3>1. h > issued
      <4>1. issued' \in Nat
        BY WebhooksAssumption DEF TInv, Types
      <4> QED BY <2>4, <4>1, ClaimTypes DEF Handles
    <3> QED BY <2>4, <3>1 DEF LedgerInv, Claims
  <2> QED BY <2>1, <2>2, <2>3, <2>4 DEF Claims, ClaimStage
<1>2. ASSUME NEW h \in Handles, Held(h)' PROVE Kept(h)'
  <2>1. PICK w \in Names : hooks'[w].handle = h
    BY <1>2 DEF Held
  <2>2. SameRows(h)
    BY <1>2, <2>1
  <2>3. CASE h = hooks[w].handle
    <3>1. Kept(h)
      BY <1>2, <2>3 DEF LedgerInv, Held
    <3>2. ASSUME NEW r \in Requests, NEW i \in 1..Len(ledger[h]), ClaimOf(r, h, i)' PROVE ClaimOf(r, h, i) /\ req[r].key = req'[r].key
      <4>1. req'[r].handle = h /\ req'[r].claim = claims[h] - Len(ledger[h]) + i
        BY <2>2, <3>2 DEF SameRows, ClaimOf, FirstClaim
      <4>2. req'[r].claim # 0
        BY <1>2, <3>1, <4>1, ClaimTypes DEF Kept, Newly
      <4>3. req[r].claim = req'[r].claim /\ req[r].pc # "new"
        BY <4>2 DEF Goes, LedgerInv, Claims, ClaimStage
      <4> QED BY <4>1, <4>3 DEF Goes, ClaimOf, FirstClaim
    <3>3. ASSUME claims[h] <= LedgerKeep, NEW r \in Requests, NEW i \in 1..Len(ledger[h]), ToldBy(r, h, i)
          PROVE  ToldBy(r, h, i)'
      <4>1. req[r].handle = h /\ req[r].claim = claims[h] - Len(ledger[h]) + i /\ ledger[h][i].payload = req[r].payload
        BY <3>3 DEF ToldBy, ClaimOf, FirstClaim
      <4>2. req[r].claim # 0
        BY <1>2, <3>1, <4>1, ClaimTypes DEF Kept, Newly
      <4>3. req[r].pc # "new"
        BY <4>2 DEF LedgerInv, Claims, ClaimStage
      <4>4. req'[r].handle = h /\ req'[r].claim = req[r].claim /\ req'[r].payload = req[r].payload
        BY <4>1, <4>3 DEF Goes
      <4>5. ledger'[h][i].status # "running" => req'[r].outcome = ledger'[h][i].status
        <5>1. ledger[h][i].status \in Statuses
          BY <1>2, ClaimTypes DEF LedgerRows
        <5>2. ledger[h][i].status # "running" => req[r].outcome = ledger[h][i].status
          BY <3>3 DEF ToldBy
        <5>3. ledger[h][i].status # "running" => req'[r].outcome = ledger[h][i].status
          BY <5>1, <5>2 DEF Goes, Statuses
        <5> QED BY <2>2, <3>3, <5>3 DEF SameRows
      <4> QED BY <2>2, <4>1, <4>4, <4>5 DEF SameRows, ToldBy, ClaimOf, FirstClaim
    <3>4. Newly(h)' /\ Apart(h)'
      BY <2>2, <3>1 DEF SameRows, Kept, Newly, Apart
    <3>5. Keyed(h)'
      <4> SUFFICES ASSUME NEW r \in Requests, NEW i \in 1..Len(ledger[h]), ClaimOf(r, h, i)'
                   PROVE  ledger'[h][i].key = req'[r].key
        BY <2>2 DEF SameRows, Keyed
      <4> QED BY <2>2, <3>1, <3>2 DEF SameRows, Kept, Keyed
    <3>6. Told(h)'
      <4> SUFFICES ASSUME claims[h] <= LedgerKeep, NEW i \in 1..Len(ledger[h])
                   PROVE  \E r \in Requests : ToldBy(r, h, i)'
        BY <2>2 DEF SameRows, Told
      <4>1. PICK r \in Requests : ToldBy(r, h, i)
        BY <3>1 DEF Kept, Told
      <4> QED BY <3>3, <4>1
    <3> QED BY <3>4, <3>5, <3>6 DEF Kept
  <2>4. CASE h = issued + 1
    <3>1. claims'[h] = 0 /\ ledger[h] = <<>>
      BY <1>2, <2>4, ClaimTypes DEF LedgerInv, Claims
    <3>2. Len(ledger'[h]) = 0 /\ 1..0 = {}
      BY <2>2, <3>1 DEF SameRows
    <3> QED BY <3>1, <3>2, ClaimTypes DEF Kept, Newly, Apart, Keyed, Told
  <2>5. h # 0
    BY <1>2 DEF Handles
  <2> QED BY <2>1, <2>3, <2>4, <2>5 DEF Handed
<1> QED BY <1>1, <1>2, RunsApart DEF LedgerInv

\* A claim that finds no row.
LEMMA LedgerClaim ==
    ASSUME TInv, LedgerInv, NEW r \in Requests, ClaimNew(r)
    PROVE  LedgerInv'
<1> DEFINE q == req[r]
           h == q.handle
           c == claims[h]
           L == ledger[h]
           n == Len(L)
           K == ledger'[h]
<1>1. q.pc = "claiming" /\ q.claim = 0 /\ q.outcome = "none" /\ h \in Handles /\ h <= issued /\ q.name \in Names
  <2>1. q.pc = "claiming"
    BY DEF ClaimNew
  <2> QED BY <2>1, ReqGiven DEF LedgerInv, Claims, ClaimStage
<1>2. \A i \in 1..n : L[i].key # q.key
  BY DEF ClaimNew, Rows
<1>3. /\ c \in Nat /\ n \in Nat /\ n <= LedgerKeep /\ LedgerKeep \in Nat \ {0}
      /\ \A s \in Requests : req[s].claim \in Nat
      /\ \A s \in Requests : req[s].handle = h /\ req[s].claim # 0 => req[s].claim <= c
  BY <1>1, ClaimTypes DEF LedgerInv, Claims
<1>4. /\ claims'[h] = c + 1 /\ \A g \in Handles : g # h => claims'[g] = claims[g]
      /\ hooks' = hooks /\ issued' = issued
  BY <1>1 DEF ClaimNew, TInv, Types, config
<1>5. /\ req'[r].pc = "recording" /\ req'[r].claim = c + 1 /\ req'[r].outcome = "none"
      /\ req'[r].handle = h /\ req'[r].key = q.key /\ req'[r].payload = q.payload /\ req'[r].name = q.name
      /\ \A s \in Requests : s # r => req'[s] = req[s]
  <2>1. req' = [req EXCEPT ![r] = [q EXCEPT !.pc = "recording", !.claim = c + 1]]
    BY DEF ClaimNew
  <2>2. req \in [Requests -> ReqRows] /\ q \in ReqRows
    BY TypedRow DEF TInv, Types
  <2> QED BY <1>1, <2>1, <2>2 DEF ReqRows
<1>6. /\ \A g \in Handles : g # h => ledger'[g] = ledger[g]
      /\ Len(K) = IF n = LedgerKeep THEN LedgerKeep ELSE n + 1
      /\ K[Len(K)].key = q.key /\ K[Len(K)].payload = q.payload /\ K[Len(K)].status = "running"
      /\ \A i \in 1..(Len(K) - 1) : K[i] = L[n + 1 - Len(K) + i]
      /\ Len(K) \in Nat /\ Len(K) >= 1
  <2>1. /\ \A g \in Handles : g # h => ledger'[g] = ledger[g]
        /\ Len(K) = IF n = LedgerKeep THEN LedgerKeep ELSE n + 1
        /\ \A i \in 1..Len(K) :
              K[i] = IF i = Len(K) THEN [key |-> q.key, payload |-> q.payload, status |-> "running"]
                     ELSE L[n + 1 - Len(K) + i]
    BY ClaimNewLedger
  <2>2. Len(K) \in Nat /\ Len(K) >= 1
    BY <1>3, <2>1
  <2> HIDE DEF K, L, n
  <2>3. Len(K) \in 1..Len(K) /\ \A i \in 1..(Len(K) - 1) : i \in 1..Len(K) /\ i # Len(K)
    BY <2>2
  <2> QED BY <2>1, <2>2, <2>3
<1> HIDE DEF K, L, c, n
<1>7. Claims'
  <2>1. \A s \in Requests : ClaimStage(req'[s])
    <3>1. ClaimStage(req'[r])
      BY <1>3, <1>5 DEF ClaimStage
    <3> QED BY <1>5, <3>1 DEF LedgerInv, Claims
  <2>2. ASSUME NEW s \in Requests, req'[s].claim # 0 PROVE req'[s].claim <= claims'[req'[s].handle]
    <3>1. CASE s = r
      BY <1>3, <1>4, <1>5, <3>1
    <3>2. CASE s # r
      <4>1. req'[s] = req[s] /\ req[s].claim <= claims[req[s].handle]
        BY <1>5, <2>2, <3>2 DEF LedgerInv, Claims
      <4>2. req[s].handle \in Handles
        BY <2>2, <4>1, ClaimTypes DEF LedgerInv, Claims, ClaimStage
      <4> QED BY <1>3, <1>4, <4>1, <4>2
    <3> QED BY <3>1, <3>2
  <2>3. ASSUME NEW s \in Requests, NEW t \in Requests, req'[s].claim # 0, req'[t].claim = req'[s].claim,
               req'[t].handle = req'[s].handle
        PROVE  t = s
    BY <1>3, <1>5, <2>3 DEF LedgerInv, Claims
  <2>4. \A g \in Handles : g > issued' => claims'[g] = 0 /\ ledger'[g] = <<>>
    <3> SUFFICES ASSUME NEW g \in Handles, g > issued PROVE claims'[g] = 0 /\ ledger'[g] = <<>>
      BY <1>4
    <3>1. g # h
      BY <1>1, ClaimTypes DEF Handles
    <3> QED BY <1>4, <1>6, <3>1 DEF LedgerInv, Claims
  <2> QED BY <2>1, <2>2, <2>3, <2>4 DEF Claims, ClaimStage
<1>8. ASSUME NEW g \in Handles, Held(g)' PROVE Kept(g)'
  <2>1. Kept(g)
    BY <1>4, <1>8 DEF LedgerInv, Held
  <2>2. CASE g # h
    <3>1. claims'[g] = claims[g] /\ ledger'[g] = ledger[g]
      BY <1>4, <1>6, <2>2
    <3>2. \A s \in Requests : req'[s].handle = g => req'[s] = req[s]
      BY <1>5, <2>2
    <3>3. \A s \in Requests : req[s].handle = g => req'[s] = req[s]
      BY <1>5, <2>2
    <3>4. Newly(g)' /\ Apart(g)'
      BY <2>1, <3>1 DEF Kept, Newly, Apart
    <3>5. Keyed(g)'
      BY <2>1, <3>1, <3>2 DEF Kept, Keyed, ClaimOf, FirstClaim
    <3>6. \A s \in Requests, i \in 1..Len(ledger[g]) : ToldBy(s, g, i) => ToldBy(s, g, i)'
      BY <3>1, <3>3 DEF ToldBy, ClaimOf, FirstClaim
    <3>7. Told(g)'
      BY <2>1, <3>1, <3>6 DEF Kept, Told
    <3> QED BY <3>4, <3>5, <3>7 DEF Kept
  <2>3. CASE g = h
    <3>1. /\ n = IF c > LedgerKeep THEN LedgerKeep ELSE c
          /\ \A i, j \in 1..n : L[i].key = L[j].key => i = j
          /\ \A s \in Requests, i \in 1..n : req[s].handle = h /\ req[s].claim = c - n + i => L[i].key = req[s].key
      BY <2>1, <2>3 DEF Kept, Newly, Apart, Keyed, ClaimOf, FirstClaim, c, n, L
    <3> DEFINE k == Len(K)
    <3>2. k = (IF n = LedgerKeep THEN LedgerKeep ELSE n + 1) /\ k \in Nat /\ k >= 1
      BY <1>6
    <3> HIDE DEF k
    <3>3. k \in Nat /\ k >= 1 /\ n - k + 1 >= 0 /\ c + 1 - k = c - n + (n + 1 - k)
      BY <1>3, <3>2
    <3>4. k = IF c + 1 > LedgerKeep THEN LedgerKeep ELSE c + 1
      BY <1>3, <3>1, <3>2
    <3>5. \A i \in 1..k : i # k => i \in 1..(k - 1) /\ n + 1 - k + i \in 1..n
      BY <1>3, <3>3, <3>2
    <3>6. \A i \in 1..k : i # k => K[i] = L[n + 1 - k + i]
      BY <1>6, <3>5 DEF k
    <3>7. K[k].key = q.key /\ K[k].payload = q.payload /\ K[k].status = "running"
      BY <1>6 DEF k
    <3>8. \A i, j \in 1..k : K[i].key = K[j].key => i = j
      <4> TAKE i, j \in 1..k
      <4>1. CASE i = k /\ j = k
        BY <4>1
      <4>2. CASE i = k /\ j # k
        BY <1>2, <3>5, <3>6, <3>7, <4>2
      <4>3. CASE i # k /\ j = k
        BY <1>2, <3>5, <3>6, <3>7, <4>3
      <4>4. CASE i # k /\ j # k
        <5>1. K[i] = L[n + 1 - k + i] /\ K[j] = L[n + 1 - k + j]
          BY <3>6, <4>4
        <5>2. K[i].key = K[j].key => n + 1 - k + i = n + 1 - k + j
          BY <3>1, <3>5, <4>4, <5>1
        <5> QED BY <1>3, <3>3, <5>2
      <4> QED BY <4>1, <4>2, <4>3, <4>4
    <3>9. ASSUME NEW s \in Requests, NEW i \in 1..k, req'[s].handle = h, req'[s].claim = c + 1 - k + i
          PROVE  K[i].key = req'[s].key
      <4>1. CASE s = r
        <5>1. i = k
          BY <1>3, <1>5, <3>3, <3>9, <4>1
        <5> QED BY <1>5, <3>7, <4>1, <5>1
      <4>2. CASE s # r
        <5>1. req'[s] = req[s]
          BY <1>5, <4>2
        <5>2. i # k
          <6>1. req[s].claim # 0 => req[s].claim <= c
            BY <1>3, <3>9, <5>1
          <6> QED BY <1>3, <3>3, <3>9, <5>1, <6>1
        <5>3. req[s].claim = c - n + (n + 1 - k + i)
          <6>1. c + 1 - k + i = c - n + (n + 1 - k + i)
            BY <1>3, <3>3
          <6> QED BY <3>9, <5>1, <6>1
        <5>4. n + 1 - k + i \in 1..n /\ req[s].handle = h
          BY <3>5, <3>9, <5>1, <5>2
        <5>5. L[n + 1 - k + i].key = req[s].key
          BY <3>1, <5>3, <5>4
        <5> QED BY <3>6, <5>1, <5>2, <5>5
      <4> QED BY <4>1, <4>2
    <3>10. ASSUME c + 1 <= LedgerKeep, NEW i \in 1..k
          PROVE  \E s \in Requests : /\ req'[s].handle = h /\ req'[s].claim = c + 1 - k + i /\ K[i].payload = req'[s].payload
                                     /\ K[i].status # "running" => req'[s].outcome = K[i].status
      <4>1. k = c + 1 /\ n = c
        BY <1>3, <3>1, <3>4, <3>10
      <4>2. CASE i = k
        <5>1. c + 1 - k + i = c + 1
          BY <1>3, <4>1, <4>2
        <5> QED BY <1>5, <3>7, <4>2, <5>1
      <4>3. CASE i # k
        <5>1. K[i] = L[i] /\ i \in 1..n
          <6>1. n + 1 - k + i = i
            BY <1>3, <4>1
          <6> QED BY <3>5, <3>6, <4>3, <6>1
        <5>2. PICK s \in Requests : ToldBy(s, h, i)
          <6>1. claims[h] <= LedgerKeep
            BY <1>3, <3>10 DEF c
          <6> QED BY <2>1, <2>3, <5>1, <6>1 DEF Kept, Told, n, L
        <5>3. /\ req[s].handle = h /\ req[s].claim = c - n + i /\ L[i].payload = req[s].payload
              /\ L[i].status # "running" => req[s].outcome = L[i].status
          BY <5>2 DEF ToldBy, ClaimOf, FirstClaim, c, n, L
        <5>4. req[s].claim = i /\ i # 0 /\ s # r
          <6>1. req[s].claim = i /\ i # 0
            BY <1>3, <4>1, <5>1, <5>3
          <6> QED BY <1>1, <6>1
        <5>5. req'[s] = req[s]
          BY <1>5, <5>4
        <5>6. c + 1 - k + i = i
          BY <1>3, <4>1
        <5> QED BY <5>1, <5>3, <5>4, <5>5, <5>6
      <4> QED BY <4>2, <4>3
    <3>11. claims'[h] = c + 1 /\ Len(ledger'[h]) = k
      BY <1>4 DEF k, K
    <3> HIDE DEF h
    <3>12. Newly(g)' /\ Apart(g)'
      BY <2>3, <3>4, <3>8, <3>11 DEF Newly, Apart, K
    <3>13. Keyed(g)'
      <4> SUFFICES ASSUME NEW s \in Requests, NEW i \in 1..Len(ledger'[g]), req'[s].handle = g,
                          req'[s].claim = claims'[g] - Len(ledger'[g]) + i
                   PROVE  ledger'[g][i].key = req'[s].key
        BY DEF Keyed, ClaimOf, FirstClaim
      <4>1. claims'[g] = c + 1 /\ Len(ledger'[g]) = k /\ K = ledger'[g]
        BY <2>3, <3>11 DEF K
      <4>2. i \in 1..k /\ req'[s].handle = h /\ req'[s].claim = c + 1 - k + i /\ K = ledger'[g]
        BY <1>3, <2>3, <3>2, <4>1
      <4> QED BY <3>9, <4>2
    <3>14. Told(g)'
      <4> SUFFICES ASSUME claims'[g] <= LedgerKeep, NEW i \in 1..Len(ledger'[g])
                   PROVE  \E s \in Requests :
                             /\ req'[s].handle = g /\ req'[s].claim = claims'[g] - Len(ledger'[g]) + i
                             /\ ledger'[g][i].payload = req'[s].payload
                             /\ ledger'[g][i].status # "running" => req'[s].outcome = ledger'[g][i].status
        BY DEF Told, ToldBy, ClaimOf, FirstClaim
      <4>1. i \in 1..k /\ c + 1 <= LedgerKeep /\ K = ledger'[g]
        BY <2>3, <3>11 DEF K
      <4>2. PICK s \in Requests : /\ req'[s].handle = h /\ req'[s].claim = c + 1 - k + i /\ K[i].payload = req'[s].payload
                                  /\ K[i].status # "running" => req'[s].outcome = K[i].status
        BY <3>10, <4>1
      <4>3. claims'[g] = c + 1 /\ Len(ledger'[g]) = k
        BY <2>3, <3>11
      <4>4. claims'[g] - Len(ledger'[g]) + i = c + 1 - k + i
        <5>1. c \in Nat /\ k \in Nat /\ i \in Nat
          BY <1>3, <3>2, <4>1
        <5> QED BY <4>3, <5>1
      <4> QED BY <2>3, <4>1, <4>2, <4>4
    <3> QED BY <3>12, <3>13, <3>14 DEF Kept
  <2> QED BY <2>2, <2>3
<1>9. OneRunPerKey'
  <2> SUFFICES ASSUME NEW s \in Requests, NEW t \in Requests, Running(s)', Running(t)',
                      req'[s].handle = req'[t].handle, req'[s].key = req'[t].key, req'[s].claim < req'[t].claim,
                      hooks'[req'[s].name].handle = req'[s].handle
               PROVE  req'[t].claim - req'[s].claim > LedgerKeep
    BY DEF OneRunPerKey, Known
  <2>1. CASE s # r /\ t # r
    BY <1>4, <1>5, <2>1 DEF LedgerInv, OneRunPerKey, Running, Known
  <2>2. CASE s = r
    <3>1. t # r /\ req'[t] = req[t] /\ req[t].handle = h /\ req[t].claim > c + 1
      BY <1>3, <1>5, <2>2 DEF Running
    <3> QED BY <1>3, <3>1
  <2>3. CASE t = r /\ s # r
    <3>1. /\ req'[s] = req[s] /\ req[s].handle = h /\ req[s].key = q.key /\ Running(s)
          /\ hooks[req[s].name].handle = h
      BY <1>4, <1>5, <2>3 DEF Running
    <3>2. req[s].claim # 0 /\ req[s].claim \in Nat /\ req[s].name \in Names
      BY <1>3, <3>1, ReqGiven DEF Running, LedgerInv, Claims, ClaimStage
    <3>3. Kept(h)
      BY <1>1, <3>1, <3>2 DEF LedgerInv, Held
    <3>4. /\ n = IF c > LedgerKeep THEN LedgerKeep ELSE c
          /\ \A i \in 1..n : req[s].claim = c - n + i => L[i].key = req[s].key
      BY <3>1, <3>3 DEF Kept, Newly, Keyed, ClaimOf, FirstClaim, c, n, L
    <3>5. req[s].claim <= c - n
      <4>1. SUFFICES ASSUME req[s].claim > c - n PROVE FALSE
        BY <1>3
      <4>2. req[s].claim <= c
        BY <1>3, <3>1, <3>2
      <4>3. req[s].claim - (c - n) \in 1..n
        BY <1>3, <3>2, <4>1, <4>2
      <4>4. req[s].claim = c - n + (req[s].claim - (c - n))
        BY <1>3, <3>2
      <4> QED BY <1>2, <3>1, <3>4, <4>3, <4>4
    <3>6. n = LedgerKeep
      BY <1>3, <3>2, <3>4, <3>5
    <3> QED BY <1>3, <1>5, <2>3, <3>1, <3>2, <3>5, <3>6
  <2> QED BY <2>1, <2>2, <2>3
<1> QED BY <1>7, <1>8, <1>9 DEF LedgerInv

\* Settling a claim: until a row was dropped, the row of the key is the row of the delivery.
LEMMA LedgerSettle ==
    ASSUME TInv, TInv', LedgerInv, NEW r \in Requests, webhookIdempotencyFinish(r)
    PROVE  LedgerInv'
<1> DEFINE q == req[r]
           h == q.handle
<1>1. q.pc = "settling" /\ q.key # NoKey /\ q.claim # 0 /\ q.outcome # "none" /\ h \in Handles
  <2>1. q.pc = "settling"
    BY DEF webhookIdempotencyFinish
  <2>2. q.key # NoKey /\ q.outcome # "none"
    BY <2>1 DEF TInv, Stages, Stage
  <2>3. q.claim # 0
    BY <2>1, <2>2 DEF LedgerInv, Claims, ClaimStage
  <2> QED BY <2>1, <2>2, <2>3, ReqGiven
<1>2. /\ hooks' = hooks /\ claims' = claims /\ issued' = issued
      /\ req' = [req EXCEPT ![r] = [q EXCEPT !.pc = "done", !.reply = Answer(q)]]
  BY DEF webhookIdempotencyFinish, config
<1>3. /\ req'[r].pc = "done" /\ req'[r].claim = q.claim /\ req'[r].outcome = q.outcome /\ req'[r].name = q.name
      /\ req'[r].handle = h /\ req'[r].key = q.key /\ req'[r].payload = q.payload
      /\ \A s \in Requests : s # r => req'[s] = req[s]
  <2>1. req \in [Requests -> ReqRows] /\ q \in ReqRows
    BY TypedRow DEF TInv, Types
  <2> QED BY <1>2, <2>1 DEF ReqRows
<1>4. \A s \in Requests : Goes(s)
  <2>1. Goes(r)
    BY <1>1, <1>3 DEF Goes, ClaimStage
  <2>2. ASSUME NEW s \in Requests, s # r PROVE Goes(s)
    <3>1. req'[s] = req[s]
      BY <1>3, <2>2
    <3> QED BY <3>1 DEF Goes, Running, LedgerInv, Claims
  <2> QED BY <2>1, <2>2
<1>5. ASSUME NEW g \in Handles, Held(g) PROVE SameRows(g)
  <2>1. CASE g # h
    <3>1. ledger'[g] = ledger[g]
      BY <2>1, SettledLedger
    <3> QED BY <3>1 DEF SameRows
  <2>2. CASE g = h
    <3>1. /\ Len(ledger'[h]) = Len(ledger[h])
          /\ \A i \in 1..Len(ledger[h]) :
                /\ ledger'[h][i].key = ledger[h][i].key /\ ledger'[h][i].payload = ledger[h][i].payload
                /\ ledger'[h][i].status = IF ledger[h][i].key = q.key THEN q.outcome ELSE ledger[h][i].status
      BY SettledLedger
    <3>2. ASSUME NEW i \in 1..Len(ledger[h]), ledger[h][i].key = q.key, claims[h] <= LedgerKeep,
                 NEW s \in Requests, ToldBy(s, h, i)
          PROVE  s = r
      <4>1. Kept(h)
        BY <1>1, <1>5, <2>2 DEF LedgerInv
      <4>2. FirstClaim(h) = 0 /\ Len(ledger[h]) = claims[h]
        BY <1>1, <3>2, <4>1, ClaimTypes DEF Kept, Newly, FirstClaim
      <4>3. q.claim \in 1..Len(ledger[h]) /\ ClaimOf(r, h, q.claim)
        BY <1>1, <4>2, ClaimTypes DEF LedgerInv, Claims, ClaimOf
      <4>4. ledger[h][q.claim].key = q.key
        BY <4>1, <4>3 DEF Kept, Keyed
      <4>5. i = q.claim
        BY <3>2, <4>1, <4>3, <4>4 DEF Kept, Apart
      <4>6. req[s].claim = q.claim /\ req[s].handle = h
        BY <3>2, <4>2, <4>5, ClaimTypes DEF ToldBy, ClaimOf
      <4> QED BY <1>1, <4>6 DEF LedgerInv, Claims
    <3>3. ASSUME NEW i \in 1..Len(ledger[h])
          PROVE  \/ ledger'[h][i].status = ledger[h][i].status
                 \/ claims[h] <= LedgerKeep =>
                       \A s \in Requests : ToldBy(s, h, i) => req'[s].outcome = ledger'[h][i].status
      BY <1>3, <3>1, <3>2
    <3> QED BY <2>2, <3>1, <3>3 DEF SameRows
  <2> QED BY <2>1, <2>2
<1>6. \A g \in Handles : g > issued' => ledger'[g] = ledger[g]
  <2> SUFFICES ASSUME NEW g \in Handles, g > issued PROVE ledger'[g] = ledger[g]
    BY <1>2
  <2>1. g # h
    BY <1>1, ReqGiven, ClaimTypes DEF Handles
  <2> QED BY <2>1, SettledLedger
<1>7. \A w \in Names : hooks'[w].handle \in Handles => SameRows(hooks'[w].handle)
  BY <1>2, <1>5 DEF Held
<1>8. Handed /\ \A w \in Names : hooks'[w].handle = issued + 1 => issued + 1 <= issued'
  <2>1. \A w \in Names : hooks[w].handle # issued + 1
    <3>1. \A w \in Names : hooks[w].handle # 0 => hooks[w].handle \in 1..issued
      BY DEF TInv, Issued, HooksGiven, Given
    <3> QED BY <3>1, ClaimTypes
  <2> QED BY <1>2, <2>1 DEF Handed
<1>9. issued <= issued'
  BY <1>2, ClaimTypes
<1> QED BY <1>2, <1>4, <1>6, <1>7, <1>8, <1>9, LedgerFrame

\* Every step of a delivery but a claim leaves what the ledger knows of it; only a claim found replays.
Answers(r) ==
    /\ Goes(r)
    /\ req'[r].reply \in {"replay_ok", "replay_failed"} => req'[r].reply = req[r].reply \/ ClaimTaken(r)

LEMMA StepAnswers ==
    ASSUME TInv, LedgerInv, NEW r \in Requests, Ingress(r) \/ Crash(r), ~ClaimNew(r)
    PROVE  Answers(r)
<1> DEFINE q == req[r]
           q2 == req'[r]
<1>1. Moves(r) /\ ClaimStage(q) /\ req \in [Requests -> ReqRows] /\ q \in ReqRows
  BY MovesStep, TypedRow DEF TInv, Types, LedgerInv, Claims
<1>2. ASSUME ClaimStage(q2), q2.claim = q.claim, q.outcome # "none" => q2.outcome = q.outcome,
             q2.pc \in {"recording", "executing", "finishing", "settling"} /\ q2.key # NoKey =>
                q.pc \in {"recording", "executing", "finishing", "settling"},
             q2.reply \in {"replay_ok", "replay_failed"} => q2.reply = q.reply \/ ClaimTaken(r)
      PROVE  Answers(r)
  BY <1>1, <1>2 DEF Answers, Goes, Moves, Running
<1>3. CASE AdmitRead(r)
  <2>1. q.pc = "arrived" /\ req' = [req EXCEPT ![r] = IF Known(q) THEN [q EXCEPT !.pc = "hashing", !.row = hooks[q.name]]
                                                        ELSE [q EXCEPT !.pc = "done", !.reply = "not_found"]]
    BY <1>3, <1>1 DEF AdmitRead
  <2>2. q2.pc \in {"hashing", "done"} /\ q2.claim = q.claim /\ q2.outcome = q.outcome /\ q2.reply \in {q.reply, "not_found"} /\ q2.key = q.key
    BY <1>1, <2>1 DEF ReqRows
  <2> QED BY <1>1, <1>2, <2>1, <2>2 DEF ClaimStage
<1>4. CASE AdmitRefuse(r)
  <2>1. q.pc = "hashing" /\ req' = [req EXCEPT ![r] = [q EXCEPT !.pc = "rejecting", !.row = NoHook, !.reply = "not_found"]]
    BY <1>4, <1>1 DEF AdmitRefuse
  <2>2. q2.pc = "rejecting" /\ q2.claim = q.claim /\ q2.outcome = q.outcome /\ q2.reply = "not_found" /\ q2.key = q.key
    BY <1>1, <2>1 DEF ReqRows
  <2> QED BY <1>1, <1>2, <2>1, <2>2 DEF ClaimStage
<1>5. CASE AdmitLimited(r)
  <2>1. q.pc = "hashing" /\ req' = [req EXCEPT ![r] = [q EXCEPT !.pc = "rejecting", !.row = NoHook, !.reply = "rate_limited"]]
    BY <1>5, <1>1 DEF AdmitLimited
  <2>2. q2.pc = "rejecting" /\ q2.claim = q.claim /\ q2.outcome = q.outcome /\ q2.reply = "rate_limited" /\ q2.key = q.key
    BY <1>1, <2>1 DEF ReqRows
  <2> QED BY <1>1, <1>2, <2>1, <2>2 DEF ClaimStage
<1>6. CASE Admit(r)
  <2>1. q.pc = "hashing" /\ req' = [req EXCEPT ![r] = [q EXCEPT !.pc = "admitted", !.row = NoHook, !.mode = declared[q.name]]]
    BY <1>6, <1>1 DEF Admit
  <2>2. q2.pc = "admitted" /\ q2.claim = q.claim /\ q2.outcome = q.outcome /\ q2.reply = q.reply /\ q2.key = q.key
    BY <1>1, <2>1 DEF ReqRows
  <2> QED BY <1>1, <1>2, <2>1, <2>2 DEF ClaimStage
<1>7. CASE Verify(r)
  <2>1. q.pc = "admitted"
    BY <1>7 DEF Verify
  <2>2. CASE Rejects(r, "refused")
    <3>1. q2.pc = "rejecting" /\ q2.claim = q.claim /\ q2.outcome = q.outcome /\ q2.reply = "refused"
      BY <1>1, <2>2 DEF Rejects, ReqRows
    <3> QED BY <1>2, <3>1 DEF ClaimStage
  <2>3. CASE Goto(r, IF q.key = NoKey THEN "recording" ELSE "claiming")
    <3>1. req' = [req EXCEPT ![r] = [q EXCEPT !.pc = IF q.key = NoKey THEN "recording" ELSE "claiming"]]
      BY <1>1, <2>3 DEF Goto
    <3>2. /\ q2.pc = (IF q.key = NoKey THEN "recording" ELSE "claiming")
          /\ q2.claim = q.claim /\ q2.outcome = q.outcome /\ q2.reply = q.reply /\ q2.key = q.key
      BY <1>1, <3>1 DEF ReqRows
    <3> QED BY <1>1, <1>2, <2>1, <3>2 DEF ClaimStage
  <2> QED BY <1>7, <2>2, <2>3 DEF Verify
<1>8. CASE RecordRejected(r) \/ RecordReplayed(r)
  <2>1. req' = [req EXCEPT ![r] = [q EXCEPT !.pc = "done"]]
    BY <1>8, <1>1 DEF RecordRejected, RecordReplayed, Goto
  <2>2. q2.pc = "done" /\ q2.claim = q.claim /\ q2.outcome = q.outcome /\ q2.reply = q.reply /\ q2.key = q.key
    BY <1>1, <2>1 DEF ReqRows
  <2> QED BY <1>1, <1>2, <2>1, <2>2 DEF ClaimStage
<1>9. CASE RecordAccepted(r)
  <2>1. q.pc = "recording" /\ req' = [req EXCEPT ![r] = [q EXCEPT !.pc = "executing", !.reply = IF q.mode = "ack" THEN "accepted" ELSE "none"]]
    BY <1>9, <1>1 DEF RecordAccepted
  <2>2. q2.pc = "executing" /\ q2.claim = q.claim /\ q2.outcome = q.outcome /\ q2.reply \in {"accepted", "none"} /\ q2.key = q.key
    BY <1>1, <2>1 DEF ReqRows
  <2> QED BY <1>1, <1>2, <2>1, <2>2 DEF ClaimStage
<1>10. CASE webhookDeliveryFinish(r)
  <2>1. q.pc = "finishing" /\ req' = [req EXCEPT ![r] = IF q.key = NoKey THEN [q EXCEPT !.pc = "done", !.reply = Answer(q)]
                                                          ELSE [q EXCEPT !.pc = "settling"]]
    BY <1>10, <1>1 DEF webhookDeliveryFinish
  <2>2. q2.pc \in {"settling", "done"} /\ q2.claim = q.claim /\ q2.outcome = q.outcome /\ q2.reply \in {q.reply, "accepted", "ok", "failed"} /\ q2.key = q.key
    BY <1>1, <2>1 DEF ReqRows, Answer
  <2> QED BY <1>1, <1>2, <2>1, <2>2 DEF ClaimStage
<1>11. CASE webhookIdempotencyFinish(r)
  <2>1. q.pc = "settling" /\ req' = [req EXCEPT ![r] = [q EXCEPT !.pc = "done", !.reply = Answer(q)]]
    BY <1>11, <1>1 DEF webhookIdempotencyFinish
  <2>2. q2.pc = "done" /\ q2.claim = q.claim /\ q2.outcome = q.outcome /\ q2.reply \in {"accepted", "ok", "failed"} /\ q2.key = q.key
    BY <1>1, <2>1 DEF ReqRows, Answer
  <2> QED BY <1>1, <1>2, <2>1, <2>2 DEF ClaimStage
<1>12. CASE Crash(r)
  <2>1. req' = [req EXCEPT ![r] = [q EXCEPT !.pc = "done", !.row = NoHook]]
    BY <1>12, <1>1 DEF Crash
  <2>2. q2.pc = "done" /\ q2.claim = q.claim /\ q2.outcome = q.outcome /\ q2.reply = q.reply /\ q2.key = q.key
    BY <1>1, <2>1 DEF ReqRows
  <2> QED BY <1>1, <1>2, <2>1, <2>2 DEF ClaimStage
<1>13. CASE ClaimTaken(r)
  <2>1. q.pc = "claiming" /\ q2.pc \in {"rejecting", "replaying"} /\ q2.claim = q.claim /\ q2.outcome = q.outcome
    BY <1>1, <1>13 DEF ClaimTaken, ReqRows
  <2> QED BY <1>1, <1>2, <1>13, <2>1 DEF ClaimStage
<1>14. CASE \E o \in {"success", "error"} : Execute(r, o)
  <2>1. /\ q.pc = "executing" /\ q2.pc = "finishing" /\ q2.claim = q.claim /\ q2.reply = q.reply /\ q2.key = q.key
        /\ q.outcome = "none"
    BY <1>1, <1>14 DEF Execute, ReqRows, ClaimStage
  <2> QED BY <1>1, <1>2, <2>1 DEF ClaimStage
<1> QED BY <1>3, <1>4, <1>5, <1>6, <1>7, <1>8, <1>9, <1>10, <1>11, <1>12, <1>13, <1>14 DEF Ingress

\* A claim that finds the row of another delivery answers how that one ended.
LEMMA TakenHonest ==
    ASSUME TInv, LedgerInv, NEW r \in Requests, ClaimTaken(r), Known(req[r]), claims[req[r].handle] <= LedgerKeep,
           req'[r].reply \in {"replay_ok", "replay_failed"}
    PROVE  \E s \in Requests :
              /\ s # r /\ req[s].handle = req[r].handle /\ req[s].key = req[r].key
              /\ req[s].outcome = (IF req'[r].reply = "replay_ok" THEN "success" ELSE "error")
              /\ Hashed(req[r].key) => req[s].payload = req[r].payload
<1> DEFINE q == req[r]
           h == q.handle
           row == Row(q)
<1>1. q.pc = "claiming" /\ Rows(q) # {} /\ h \in Handles /\ q.name \in Names /\ q.claim = 0
  <2>1. q.pc = "claiming" /\ Rows(q) # {}
    BY DEF ClaimTaken
  <2> QED BY <2>1, ReqGiven DEF LedgerInv, Claims, ClaimStage
<1>2. PICK i \in 1..Len(ledger[h]) : row = ledger[h][i] /\ row.key = q.key /\ row \in LedgerRows
  BY <1>1, FoundRow
<1>3. Kept(h)
  BY <1>1 DEF Known, LedgerInv, Held
<1>4. PICK s \in Requests : ToldBy(s, h, i)
  BY <1>2, <1>3 DEF Kept, Told
<1>5. /\ req[s].handle = h /\ req[s].claim = FirstClaim(h) + i /\ row.payload = req[s].payload
      /\ row.status # "running" => req[s].outcome = row.status
  BY <1>2, <1>4 DEF ToldBy, ClaimOf
<1>6. FirstClaim(h) \in Nat
  BY <1>1, <1>3, ClaimTypes DEF Kept, Newly, FirstClaim
<1>7. s # r
  <2>1. req[s].claim # 0
    BY <1>2, <1>5, <1>6
  <2> QED BY <1>1, <2>1
<1>8. req[s].key = q.key
  BY <1>2, <1>3, <1>4 DEF Kept, Keyed, ToldBy
<1>9. row.status \in Statuses
  BY <1>2 DEF LedgerRows
<1>10. ~Conflicts(q) /\ row.status = (IF req'[r].reply = "replay_ok" THEN "success" ELSE "error")
  <2> DEFINE reply == CASE row.status = "running" -> "in_progress"
                        [] row.status = "success" -> "replay_ok"
                        [] row.status = "error"   -> "replay_failed"
  <2>1. req' = [req EXCEPT ![r] = IF Conflicts(q) THEN [q EXCEPT !.pc = "rejecting", !.reply = "idempotency_mismatch"]
                                 ELSE [q EXCEPT !.pc = "replaying", !.reply = reply]]
    BY DEF ClaimTaken
  <2>2. /\ row.status = "running" => reply = "in_progress"
        /\ row.status = "success" => reply = "replay_ok"
        /\ row.status = "error" => reply = "replay_failed"
    OBVIOUS
  <2> HIDE DEF reply, row
  <2>3. req'[r].reply = IF Conflicts(q) THEN "idempotency_mismatch" ELSE reply
    <3>1. req \in [Requests -> ReqRows] /\ q \in ReqRows
      BY TypedRow DEF TInv, Types
    <3> QED BY <2>1, <3>1 DEF ReqRows
  <2> QED BY <1>9, <2>2, <2>3 DEF Statuses
<1>11. Hashed(q.key) => req[s].payload = q.payload
  BY <1>5, <1>10 DEF Conflicts
<1>12. req[s].outcome = (IF req'[r].reply = "replay_ok" THEN "success" ELSE "error")
  <2>1. row.status # "running"
    BY <1>10
  <2> QED BY <1>5, <1>10, <2>1
<1> QED BY <1>5, <1>7, <1>8, <1>11, <1>12

LEMMA ReplayFrame ==
    ASSUME TInv, LedgerInv, ReplayHonest, Handed, \A h \in Handles : claims'[h] \in Nat /\ claims[h] <= claims'[h],
           \A r \in Requests :
              /\ req[r].pc # "new" => /\ req'[r].name = req[r].name /\ req'[r].handle = req[r].handle
                                      /\ req'[r].key = req[r].key /\ req'[r].payload = req[r].payload
              /\ req[r].outcome # "none" => req'[r].outcome = req[r].outcome
              /\ req'[r].reply \in {"replay_ok", "replay_failed"} => req'[r].reply = req[r].reply \/ ClaimTaken(r)
    PROVE  ReplayHonest'
<1> SUFFICES ASSUME NEW r \in Requests, req'[r].reply \in {"replay_ok", "replay_failed"},
                    hooks'[req'[r].name].handle = req'[r].handle, claims'[req'[r].handle] <= LedgerKeep
             PROVE  \E s \in Requests :
                       /\ s # r /\ req'[s].handle = req'[r].handle /\ req'[s].key = req'[r].key
                       /\ req'[s].outcome = (IF req'[r].reply = "replay_ok" THEN "success" ELSE "error")
                       /\ Hashed(req'[r].key) => req'[s].payload = req'[r].payload
  BY DEF ReplayHonest, Known, Hashed
<1>1. req[r].pc # "new"
  <2>1. CASE ClaimTaken(r)
    BY <2>1 DEF ClaimTaken
  <2>2. CASE req'[r].reply = req[r].reply
    <3>1. req[r].pc = "new" => req[r] = NewRequest
      BY DEF TInv, Issued, SentGiven
    <3> QED BY <2>2, <3>1 DEF NewRequest
  <2> QED BY <2>1, <2>2
<1>2. /\ req'[r].name = req[r].name /\ req'[r].handle = req[r].handle
      /\ req'[r].key = req[r].key /\ req'[r].payload = req[r].payload
      /\ req[r].handle \in Handles /\ req[r].handle \in 1..issued /\ req[r].name \in Names
  BY <1>1, ReqGiven DEF TInv, Issued, SentGiven, Given
<1>3. Known(req[r])
  BY <1>2, ClaimTypes DEF Handed, Known
<1>4. claims[req[r].handle] <= LedgerKeep
  BY <1>2, ClaimTypes
<1>5. \E s \in Requests :
         /\ s # r /\ req[s].handle = req[r].handle /\ req[s].key = req[r].key
         /\ req[s].outcome = (IF req'[r].reply = "replay_ok" THEN "success" ELSE "error")
         /\ Hashed(req[r].key) => req[s].payload = req[r].payload
  <2>1. CASE ClaimTaken(r)
    BY <1>3, <1>4, <2>1, TakenHonest
  <2>2. CASE req'[r].reply = req[r].reply
    BY <1>3, <1>4, <2>2 DEF ReplayHonest
  <2> QED BY <2>1, <2>2
<1>6. PICK s \in Requests :
         /\ s # r /\ req[s].handle = req[r].handle /\ req[s].key = req[r].key
         /\ req[s].outcome = (IF req'[r].reply = "replay_ok" THEN "success" ELSE "error")
         /\ Hashed(req[r].key) => req[s].payload = req[r].payload
  BY <1>5
<1>7. req[s].outcome # "none" /\ req[s].pc # "new"
  BY <1>6 DEF LedgerInv, Claims, ClaimStage
<1> QED BY <1>2, <1>6, <1>7

LEMMA StepLedger ==
    ASSUME TInv, LedgerInv, ReplayHonest, Next
    PROVE  LedgerInv' /\ ReplayHonest'
<1>1. /\ TInv' /\ hooks \in [Names -> HookRows] /\ owner \in [Owners -> OwnerRows]
      /\ \A w \in Names : hooks[w].handle # issued + 1
  <2>1. TInv'
    BY StepTInv
  <2>2. \A w \in Names : hooks[w].handle = 0 \/ hooks[w].handle \in 1..issued
    BY DEF TInv, Issued, HooksGiven, Given
  <2>3. hooks \in [Names -> HookRows] /\ owner \in [Owners -> OwnerRows]
    BY DEF TInv, Types
  <2> QED BY <2>1, <2>2, <2>3, ClaimTypes
<1>2. ASSUME Handed, claims' = claims, issued <= issued', \A r \in Requests : Answers(r),
             \A h \in Handles : h > issued' => ledger'[h] = ledger[h],
             \A w \in Names : hooks'[w].handle \in Handles => ledger'[hooks'[w].handle] = ledger[hooks'[w].handle],
             \A w \in Names : hooks'[w].handle = issued + 1 => issued + 1 <= issued'
      PROVE  LedgerInv' /\ ReplayHonest'
  <2>1. \A w \in Names : hooks'[w].handle \in Handles => SameRows(hooks'[w].handle)
    BY <1>2 DEF SameRows
  <2>2. LedgerInv'
    BY <1>1, <1>2, <2>1, LedgerFrame DEF Answers
  <2>3. \A h \in Handles : claims'[h] \in Nat /\ claims[h] <= claims'[h]
    BY <1>2, ClaimTypes
  <2>4. ReplayHonest'
    BY <1>2, <2>3, ReplayFrame DEF Answers, Goes
  <2> QED BY <2>2, <2>4
<1>3. req' = req => \A r \in Requests : Answers(r)
  BY DEF Answers, Goes, Running, LedgerInv, Claims
<1>4. ASSUME req' = req, claims' = claims, ledger' = ledger, issued' = issued, hooks' = hooks
      PROVE  LedgerInv' /\ ReplayHonest'
  BY <1>1, <1>2, <1>3, <1>4, ClaimTypes DEF Handed
<1>5. ASSUME NEW W \in SUBSET Names, Forget(W), req' = req, claims' = claims, issued' = issued
      PROVE  LedgerInv' /\ ReplayHonest'
  <2> DEFINE H == {hooks[w].handle : w \in W}
  <2>1. /\ \A h \in Handles : ledger'[h] = IF h \in H THEN <<>> ELSE ledger[h]
        /\ \A w \in Names : hooks'[w] = IF w \in W THEN NoHook ELSE hooks[w]
    BY <1>5 DEF Forget
  <2>2. Handed /\ \A w \in Names : hooks'[w].handle # issued + 1
    BY <1>1, <2>1, ClaimTypes DEF Handed, NoHook
  <2>3. ASSUME NEW w \in Names, hooks'[w].handle \in Handles
        PROVE  ledger'[hooks'[w].handle] = ledger[hooks'[w].handle]
    <3>1. w \notin W /\ hooks'[w] = hooks[w] /\ hooks[w].handle # 0
      BY <2>1, <2>3 DEF NoHook, Handles
    <3>2. hooks[w].handle \notin H
      BY <3>1 DEF TInv, OneHolder, Minted
    <3> QED BY <2>1, <2>3, <3>1, <3>2
  <2>4. ASSUME NEW h \in Handles, h > issued' PROVE ledger'[h] = ledger[h]
    BY <1>5, <2>1, <2>4 DEF LedgerInv, Claims
  <2> QED BY <1>2, <1>3, <1>5, <2>2, <2>3, <2>4, ClaimTypes
<1>6. ASSUME NEW o \in Owners, OwnerStep(o) PROVE LedgerInv' /\ ReplayHonest'
  <2>1. CASE MintInsert(o)
    <3>1. req' = req /\ claims' = claims /\ ledger' = ledger
      BY <2>1 DEF MintInsert
    <3>2. \/ hooks' = hooks /\ issued' = issued
          \/ issued' = issued + 1 /\ \A w \in Names : hooks'[w].handle \in {hooks[w].handle, issued + 1}
      BY <1>1, <2>1 DEF MintInsert
    <3>3. Handed /\ issued <= issued' /\ \A w \in Names : hooks'[w].handle = issued + 1 => issued + 1 <= issued'
      BY <1>1, <3>2, ClaimTypes DEF Handed
    <3> QED BY <1>2, <1>3, <3>1, <3>3
  <2>2. CASE RotateWrite(o)
    <3>1. req' = req /\ claims' = claims /\ ledger' = ledger /\ issued' = issued + 1
      BY <2>2 DEF RotateWrite
    <3>2. \A w \in Names : hooks'[w].handle = hooks[w].handle
      BY <1>1, <2>2 DEF RotateWrite
    <3>3. Handed /\ issued <= issued' /\ \A w \in Names : hooks'[w].handle = issued + 1 => issued + 1 <= issued'
      BY <1>1, <3>1, <3>2, ClaimTypes DEF Handed
    <3> QED BY <1>2, <1>3, <3>1, <3>3
  <2>3. CASE (\E w \in Names : MintBegin(o, w) \/ RotateBegin(o, w) \/ ApplyReveal(o, w)) \/ ApplySend(o) \/ ApplyFails(o)
    BY <1>4, <2>3 DEF MintBegin, RotateBegin, ApplyReveal, ApplySend, ApplyFails, tables
  <2> QED BY <1>6, <2>1, <2>2, <2>3 DEF OwnerStep
<1>7. ASSUME NEW w \in Names, webhookDelete(w) PROVE LedgerInv' /\ ReplayHonest'
  BY <1>5, <1>7 DEF webhookDelete, config
<1>8. CASE packageDelete
  <2>1. Minted \in SUBSET Names
    BY DEF Minted
  <2> QED BY <1>5, <1>8, <2>1 DEF packageDelete
<1>9. ASSUME NEW w \in Names, NEW b \in BOOLEAN, webhookSetEnabled(w, b) PROVE LedgerInv' /\ ReplayHonest'
  <2>1. req' = req /\ claims' = claims /\ ledger' = ledger /\ issued' = issued
    BY <1>9 DEF webhookSetEnabled, config
  <2>2. \A v \in Names : hooks'[v].handle = hooks[v].handle
    BY <1>1, <1>9 DEF webhookSetEnabled, HookRows
  <2> QED BY <1>1, <1>2, <1>3, <2>1, <2>2, ClaimTypes DEF Handed
<1>10. CASE (\E modes \in [Names -> Modes] : packageSave(modes)) \/ Tick
  BY <1>4, <1>10 DEF packageSave, Tick, tables, config
<1>11. ASSUME NEW r \in Requests, NEW w \in Names, NEW k \in Keys \cup {NoKey}, NEW p \in Payloads, Arrive(r, w, k, p)
       PROVE  LedgerInv' /\ ReplayHonest'
  <2>1. /\ hooks' = hooks /\ claims' = claims /\ ledger' = ledger /\ issued' = issued
        /\ req[r].pc = "new" /\ \A s \in Requests : s # r => req'[s] = req[s]
        /\ req'[r].pc = "arrived" /\ req'[r].claim = 0 /\ req'[r].outcome = "none" /\ req'[r].reply = "none"
    BY <1>11, NullRows DEF Arrive, tables, config, TInv, Types, ReqRows, NewRequest
  <2>2. Answers(r)
    BY <2>1 DEF Answers, Goes, LedgerInv, Claims, ClaimStage
  <2>3. ASSUME NEW s \in Requests, s # r PROVE Answers(s)
    <3>1. req'[s] = req[s]
      BY <2>1, <2>3
    <3> QED BY <3>1 DEF Answers, Goes, Running, LedgerInv, Claims
  <2> QED BY <1>1, <1>2, <2>1, <2>2, <2>3, ClaimTypes DEF Handed
<1>12. ASSUME NEW r \in Requests, Ingress(r) \/ Crash(r) PROVE LedgerInv' /\ ReplayHonest'
  <2>1. /\ Moves(r) /\ issued' = issued
        /\ \A w \in Names : hooks'[w].handle = hooks[w].handle
    BY <1>1, <1>12, MovesStep, TypedRow DEF Moves, TInv, HookRows
  <2>2. Handed /\ issued <= issued' /\ \A w \in Names : hooks'[w].handle # issued + 1
    BY <1>1, <2>1, ClaimTypes DEF Handed
  <2>3. ASSUME ~ClaimNew(r) PROVE \A s \in Requests : Answers(s)
    <3>1. Answers(r)
      BY <1>12, <2>3, StepAnswers
    <3>2. ASSUME NEW s \in Requests, s # r PROVE Answers(s)
      <4>1. req'[s] = req[s]
        BY <2>1, <3>2 DEF Moves
      <4> QED BY <4>1 DEF Answers, Goes, Running, LedgerInv, Claims
    <3> QED BY <3>1, <3>2
  <2>4. CASE ClaimNew(r)
    <3>1. LedgerInv'
      BY <2>4, LedgerClaim
    <3>2. req[r].handle \in Handles /\ claims' = [claims EXCEPT ![req[r].handle] = @ + 1]
      BY <2>4, ReqGiven DEF ClaimNew
    <3>3. \A h \in Handles : claims'[h] \in Nat /\ claims[h] <= claims'[h]
      <4>1. claims \in [Handles -> Nat]
        BY DEF TInv, Types
      <4> QED BY <3>2, <4>1
    <3>4. req'[r].outcome = req[r].outcome /\ req'[r].reply = req[r].reply
      <4>1. req' = [req EXCEPT ![r] = [req[r] EXCEPT !.pc = "recording", !.claim = claims[req[r].handle] + 1]]
        BY <2>4 DEF ClaimNew
      <4>2. req \in [Requests -> ReqRows] /\ req[r] \in ReqRows
        BY TypedRow DEF TInv, Types
      <4> QED BY <4>1, <4>2 DEF ReqRows
    <3>5. ReplayHonest'
      BY <2>1, <2>2, <3>3, <3>4, ReplayFrame DEF Moves
    <3> QED BY <3>1, <3>5
  <2>5. CASE webhookIdempotencyFinish(r)
    <3>1. LedgerInv'
      BY <1>1, <2>5, LedgerSettle
    <3>2. \A h \in Handles : claims'[h] \in Nat /\ claims[h] <= claims'[h]
      BY <2>5, ClaimTypes DEF webhookIdempotencyFinish
    <3>3. ~ClaimNew(r)
      BY <2>5 DEF ClaimNew, webhookIdempotencyFinish
    <3>4. ReplayHonest'
      BY <2>2, <2>3, <3>2, <3>3, ReplayFrame DEF Answers, Goes
    <3> QED BY <3>1, <3>4
  <2>6. CASE ~ClaimNew(r) /\ ~webhookIdempotencyFinish(r)
    <3>1. ledger' = ledger /\ claims' = claims
      BY <1>12, <2>6 DEF Ingress, AdmitRead, AdmitRefuse, AdmitLimited, Admit, Verify, ClaimTaken, RecordRejected,
                         RecordReplayed, RecordAccepted, Execute, webhookDeliveryFinish, Crash, tables
    <3> QED BY <1>2, <2>1, <2>2, <2>3, <2>6, <3>1
  <2> QED BY <2>4, <2>5, <2>6
<1> QED BY <1>6, <1>7, <1>8, <1>9, <1>10, <1>11, <1>12 DEF Next

(***************************************************************************)
(* Two runs of one key never overlap, and a replayed answer is how the run *)
(* of the same key, and for a client key the same payload, ended           *)
(* (webhookIdempotencyClaim and webhookIdempotencyFinish in                *)
(* cells/user-cell.ts), for any number of deliveries and any number of     *)
(* keys kept, with Workers that stop anywhere in between.                  *)
(***************************************************************************)
THEOREM IdempotentDeliveries == Spec => []LedgerSound
<1>1. Init => LedgerInv /\ ReplayHonest
  <2> SUFFICES ASSUME Init PROVE LedgerInv /\ ReplayHonest
    OBVIOUS
  <2>1. /\ \A r \in Requests : req[r] = NewRequest
        /\ \A w \in Names : hooks[w].handle = 0
        /\ \A h \in Handles : claims[h] = 0 /\ ledger[h] = <<>>
    BY DEF Init, NoHook
  <2>2. \A r \in Requests : req[r].pc = "new" /\ req[r].claim = 0 /\ req[r].outcome = "none" /\ req[r].reply = "none"
    <3>1. NewRequest.pc = "new" /\ NewRequest.claim = 0 /\ NewRequest.outcome = "none" /\ NewRequest.reply = "none"
      BY DEF NewRequest
    <3> QED BY <2>1, <3>1
  <2>3. Claims
    BY <2>1, <2>2 DEF Claims, ClaimStage
  <2>4. \A h \in Handles : ~Held(h)
    BY <2>1 DEF Held, Handles
  <2>5. OneRunPerKey /\ ReplayHonest
    BY <2>2 DEF OneRunPerKey, ReplayHonest, Running
  <2> QED BY <2>3, <2>4, <2>5 DEF LedgerInv
<1>2. TInv /\ LedgerInv /\ ReplayHonest /\ [Next]_vars => LedgerInv' /\ ReplayHonest'
  <2> SUFFICES ASSUME TInv, LedgerInv, ReplayHonest, [Next]_vars PROVE LedgerInv' /\ ReplayHonest'
    OBVIOUS
  <2>1. CASE UNCHANGED vars
    BY <2>1 DEF LedgerInv, Claims, ClaimStage, Held, Kept, Newly, Apart, Keyed, Told, ToldBy, ClaimOf, FirstClaim,
                OneRunPerKey, Running, Known, ReplayHonest, Hashed, vars
  <2> QED BY <2>1, StepLedger
<1>3. LedgerInv /\ ReplayHonest => LedgerSound
  BY DEF LedgerInv, LedgerSound
<1> QED BY <1>1, <1>2, <1>3, InitTInv, StepTInv, PTL DEF Spec

=============================================================================
