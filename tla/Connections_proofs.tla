------------------------- MODULE Connections_proofs -------------------------
(***************************************************************************)
(* Proofs about module McpClient, for any URLs, calls and bounds, about    *)
(* module SingleNode, for any number of starts and values, and about       *)
(* module GitClone, for any repository, packs, redirects and limits.       *)
(***************************************************************************)
EXTENDS Connections, Sequences, FiniteSetTheorems, SequenceTheorems, WellFoundedInduction, TLAPS

-----------------------------------------------------------------------------
(* The inductive invariant *)

Tokens == {NoToken} \cup [grant : Attempts, seq : Nat]
Kinds == {"none", "bearer", "oauth"}
Statuses == {"error", "ready", "authenticating"}
Stages == {"idle", "saving", "resealing", "authorize", "reading", "waiting", "client", "asked", "sealing", "refused", "sending",
           "rediscover", "outcome", "load", "begin", "storing", "pending", "claimed", "exchange", "complete",
           "clientclear", "clientstore"}
Goals == {"none", "discover", "reconnect", "tool", "find", "set", "remove"}
Results == {"none", "stale", "newer", "authenticating", "error", "tools", "auth", "park"}
ServerRows == [id : Nat, url : Urls \cup {None}, kind : Kinds, bearer : Urls \cup {None}, status : Statuses, usable : BOOLEAN]
OAuthRows == [exists : BOOLEAN, client : Nat, access : Tokens, refresh : Tokens]
CallRows == [pc : Stages, goal : Goals, id : Nat, url : Urls \cup {None}, kind : Kinds, client : Nat,
             attempt : 0..MaxAttempts, access : Tokens, refresh : Tokens, forced : BOOLEAN, changed : BOOLEAN,
             on : Calls \cup {None}, result : Results]

TInv ==
    /\ server \in ServerRows /\ lastId \in Nat /\ oneOrigin \in BOOLEAN
    /\ oauth \in OAuthRows
    /\ attempts \in [Attempts -> [state : {"none", "open", "used"}, id : Nat, url : Urls \cup {None}, client : Nat]]
    /\ lastAttempt \in 0..MaxAttempts
    /\ inFlight \in Calls \cup {None}
    /\ calls \in [Calls -> CallRows]
    /\ issuer \in [Attempts -> Nat]
    /\ issued \in [Attempts -> [id : Nat, url : Urls \cup {None}]]
    /\ exchanges \in [Attempts -> Nat]
    /\ late \subseteq {"rekey", "tokens"}

Refreshing(q) == q.pc \in {"client", "asked", "sealing"}
Starting(q) == q.pc \in {"begin", "storing", "pending"}
Finishing(q) == q.pc \in {"claimed", "exchange", "complete"}
Owning(q) == Starting(q) \/ Finishing(q)

\* What a call holds at each of its stages.
Form(q) ==
    /\ q.pc \in {"client", "asked"} => q.refresh # NoToken
    /\ q.pc = "sealing" => q.access # NoToken
    /\ Owning(q) => q.attempt # 0
    /\ q.pc \in {"saving", "resealing"} => q.url # None
    /\ q.pc = "refused" => q.result \in Statuses
    /\ q.pc = "complete" => q.access = [grant |-> q.attempt, seq |-> 1] /\ q.refresh \in {NoToken, q.access}
CodeInv == \A c \in Calls : Form(calls[c])

\* A bearer and the kind of its row, and the bearer that is being sealed again.
ServerInv ==
    /\ server.kind = "bearer" => server.bearer # None
    /\ "rekey" \notin late =>
         /\ server.bearer # None => server.kind = "bearer" /\ sameOrigin(server.url, server.bearer)
         /\ \A c \in Calls : calls[c].pc = "resealing" => calls[c].url = server.bearer

\* An attempt belongs to one call at a time: the one that starts it, then the one that claimed it.
ClaimInv ==
    /\ \A a \in Attempts : attempts[a].state = "open" => a <= lastAttempt
    /\ \A c \in Calls : Owning(calls[c]) => calls[c].attempt <= lastAttempt /\ attempts[calls[c].attempt].state # "open"
    /\ \A c, d \in Calls : Owning(calls[c]) /\ Owning(calls[d]) /\ calls[c].attempt = calls[d].attempt => c = d
    /\ \A a \in Attempts : exchanges[a] <= 1
    /\ \A a \in Attempts : a > lastAttempt \/ attempts[a].state = "open" => exchanges[a] = 0
    /\ \A c \in Calls : Starting(calls[c]) \/ calls[c].pc = "claimed" => exchanges[calls[c].attempt] = 0

\* An attempt whose code may still be exchanged, or whose first tokens are not stored yet.
Live(a) == a > lastAttempt \/ attempts[a].state = "open" \/ \E c \in Calls : Owning(calls[c]) /\ calls[c].attempt = a

\* A grant whose tokens are stored, or in the hands of a call that read them.
Circulating(g) ==
    \/ oauth.access.grant = g \/ oauth.refresh.grant = g
    \/ \E c \in Calls : calls[c].pc # "complete" /\ (calls[c].access.grant = g \/ calls[c].refresh.grant = g)
FreshInv == \A a \in Attempts : Live(a) => ~Circulating(a)

\* A refresh that is not out of date is the one registered.
FlightInv == \A c \in Calls : Refreshing(calls[c]) /\ ~calls[c].changed => inFlight = c

\* The tokens stored: of one grant, issued for the server of the row unless that holds a bearer.
StoreInv ==
    /\ oauth.access = NoToken => oauth.refresh = NoToken
    /\ oauth.refresh # NoToken => oauth.refresh.grant = oauth.access.grant
    /\ server.kind # "bearer" /\ oauth.access # NoToken => issued[oauth.access.grant] = [id |-> server.id, url |-> server.url]
    /\ \A c \in Calls : calls[c].pc = "complete" => issued[calls[c].attempt] = [id |-> calls[c].id, url |-> calls[c].url]

\* No refresh token is newer than the one honoured.
Minted(t) == t # NoToken => t.seq <= issuer[t.grant]
SeqInv ==
    /\ Minted(oauth.refresh)
    /\ \A c \in Calls : Refreshing(calls[c]) => Minted(calls[c].refresh)
    /\ \A c \in Calls : calls[c].pc = "complete" => issuer[calls[c].attempt] >= 1

\* The refresh that is not out of date works on the token stored.
Current(q) ==
    Refreshing(q) /\ ~q.changed =>
        IF q.pc = "sealing" THEN oauth.refresh # NoToken /\ q.access.grant = oauth.refresh.grant /\ q.refresh.grant \in {0, q.access.grant}
        ELSE q.refresh = oauth.refresh

\* No two refreshes hold one refresh token, and one out of date never holds the token stored.
Apart(q) == Refreshing(q) /\ q.refresh # NoToken /\ (q.pc = "sealing" \/ q.changed) => q.refresh # oauth.refresh
HeldInv ==
    /\ \A c \in Calls : Current(calls[c]) /\ Apart(calls[c])
    /\ \A c, d \in Calls : Refreshing(calls[c]) /\ Refreshing(calls[d]) /\ calls[c].refresh # NoToken
                           /\ calls[c].refresh = calls[d].refresh => c = d

TokenInv == "tokens" \notin late => StoreInv /\ SeqInv /\ HeldInv
IInv == TInv /\ CodeInv /\ ServerInv /\ ClaimInv /\ FreshInv /\ FlightInv /\ TokenInv

-----------------------------------------------------------------------------
(* What a step does to the calls *)

\* A call stays where it is, or goes on with all that it holds.
Alike(q, r) ==
    /\ \/ r.pc = q.pc
       \/ q.pc = "begin" /\ r.pc = "storing"
       \/ q.pc = "storing" /\ r.pc = "pending"
       \/ q.pc = "client" /\ r.pc = "asked"
    /\ r.attempt = q.attempt /\ r.id = q.id /\ r.url = q.url /\ r.access = q.access /\ r.refresh = q.refresh
    /\ r.result = q.result /\ (q.changed => r.changed)

\* A call that neither refreshes nor owns an attempt, with tokens that were already in circulation.
Carried(t) == t = NoToken \/ Circulating(t.grant)
Plain(r) ==
    /\ ~Owning(r) /\ ~Refreshing(r)
    /\ r.pc = "saving" => r.url # None
    /\ r.pc = "resealing" => r.url # None /\ r.url = server.bearer
    /\ r.pc = "refused" => r.result \in Statuses
    /\ Carried(r.access) /\ Carried(r.refresh)

Turns(q, r) == Alike(q, r) \/ Plain(r)
Ordinary == \A d \in Calls : Turns(calls[d], calls'[d])

\* The refreshes under way are told that they are out of date, or left alone.
Told == \A d \in Calls : Refreshing(calls'[d]) => calls'[d].changed
Untold == \A d \in Calls : Refreshing(calls'[d]) => calls'[d].changed = calls[d].changed

LEMMA NoTokenIsNone ==
    /\ NoToken.grant = 0 /\ NoToken \in Tokens
    /\ \A t \in Tokens : t # NoToken => t.grant \in Attempts /\ t.seq \in Nat /\ t = [grant |-> t.grant, seq |-> t.seq]
    /\ \A t \in Tokens : t.grant = 0 <=> t = NoToken
    /\ \A t \in Tokens : t.grant \in 0..MaxAttempts
  BY McpAssumption DEF Tokens, NoToken, Attempts

LEMMA NoCallPlain ==
    /\ NoCall \in CallRows /\ Plain(NoCall)
  <1>1. NoCall \in CallRows
    BY McpAssumption, NoTokenIsNone DEF NoCall, CallRows, Stages, Goals, Results, Kinds
  <1>2. Plain(NoCall)
    BY DEF NoCall, Plain, Owning, Starting, Finishing, Refreshing, Carried
  <1> QED
    BY <1>1, <1>2

\* One call moves.
LEMMA OneTurn ==
    ASSUME calls \in [Calls -> CallRows], NEW c \in Calls, NEW r \in CallRows, Turns(calls[c], r),
           calls' = [calls EXCEPT ![c] = r]
    PROVE  /\ calls' \in [Calls -> CallRows] /\ Ordinary
           /\ (Refreshing(r) => r.changed = calls[c].changed) => Untold
  <1>1. \A d \in Calls : calls'[d] = IF d = c THEN r ELSE calls[d]
    OBVIOUS
  <1>2. calls' \in [Calls -> CallRows]
    OBVIOUS
  <1>3. Ordinary
    BY <1>1 DEF Ordinary, Turns, Alike
  <1> QED
    BY <1>1, <1>2, <1>3 DEF Untold

\* One call moves and the generation is bumped.
LEMMA BumpTurn ==
    ASSUME calls \in [Calls -> CallRows], NEW c \in Calls, NEW r \in CallRows, Turns(calls[c], r), ~Refreshing(r),
           calls' = bumpGeneration([calls EXCEPT ![c] = r])
    PROVE  calls' \in [Calls -> CallRows] /\ Ordinary /\ Told /\ calls'[c] = r
  <1>1. \A d \in Calls : calls'[d] = LET q == IF d = c THEN r ELSE calls[d]
                                     IN  IF Refreshing(q) THEN [q EXCEPT !.changed = TRUE] ELSE q
    BY DEF bumpGeneration, Refreshing
  <1>2. ASSUME NEW d \in Calls
        PROVE  calls'[d] \in CallRows
    <2>1. calls[d] \in CallRows
      OBVIOUS
    <2> QED
      BY <1>1, <2>1 DEF CallRows
  <1>3. calls' \in [Calls -> CallRows]
    BY <1>2 DEF bumpGeneration
  <1>4. ASSUME NEW d \in Calls, d # c
        PROVE  Turns(calls[d], calls'[d])
    <2>1. calls[d] \in CallRows
      OBVIOUS
    <2> QED
      BY <1>1, <1>4, <2>1 DEF Turns, Alike, CallRows
  <1>5. calls'[c] = r
    BY <1>1
  <1>6. Ordinary
    BY <1>4, <1>5 DEF Ordinary
  <1>7. ASSUME NEW d \in Calls, Refreshing(calls'[d])
        PROVE  calls'[d].changed
    <2>1. calls[d] \in CallRows
      OBVIOUS
    <2> QED
      BY <1>1, <1>7, <2>1 DEF Refreshing, CallRows
  <1> QED
    BY <1>3, <1>5, <1>6, <1>7 DEF Told

\* The generation is bumped and no call moves.
LEMMA BumpAll ==
    ASSUME calls \in [Calls -> CallRows], calls' = bumpGeneration(calls)
    PROVE  calls' \in [Calls -> CallRows] /\ Ordinary /\ Told
  <1>1. \A d \in Calls : calls'[d] = IF Refreshing(calls[d]) THEN [calls[d] EXCEPT !.changed = TRUE] ELSE calls[d]
    BY DEF bumpGeneration, Refreshing
  <1>2. ASSUME NEW d \in Calls
        PROVE  calls'[d] \in CallRows /\ Turns(calls[d], calls'[d]) /\ (Refreshing(calls'[d]) => calls'[d].changed)
    <2>1. calls[d] \in CallRows
      OBVIOUS
    <2>2. calls'[d] = IF Refreshing(calls[d]) THEN [calls[d] EXCEPT !.changed = TRUE] ELSE calls[d]
      BY <1>1
    <2>3. calls'[d] \in CallRows
      BY <2>1, <2>2 DEF CallRows
    <2>4. Turns(calls[d], calls'[d])
      BY <2>1, <2>2 DEF CallRows, Turns, Alike
    <2> QED
      BY <2>1, <2>2, <2>3, <2>4 DEF Refreshing, CallRows
  <1>3. calls' \in [Calls -> CallRows]
    BY <1>2 DEF bumpGeneration
  <1> QED
    BY <1>2, <1>3 DEF Ordinary, Told

\* The row a refresh that ends leaves to the call q.
SettledAs(q, pc, result, t) ==
    [q EXCEPT !.pc = pc, !.result = result, !.on = None, !.client = 0, !.changed = FALSE, !.access = t, !.refresh = NoToken]

LEMMA SettledRow ==
    ASSUME NEW q \in CallRows, NEW pc \in Stages, NEW result \in Results, NEW t \in Tokens
    PROVE  /\ SettledAs(q, pc, result, t) \in CallRows
           /\ SettledAs(q, pc, result, t).pc = pc /\ SettledAs(q, pc, result, t).result = result
           /\ SettledAs(q, pc, result, t).access = t
           /\ SettledAs(q, pc, result, t).refresh = NoToken
  BY NoTokenIsNone DEF CallRows, SettledAs

\* A refresh ends, for the call that runs it and those that wait.
LEMMA SettledTurn ==
    ASSUME calls \in [Calls -> CallRows], NEW c \in Calls, Refreshing(calls[c]),
           NEW pc \in {"refused", "sending"}, NEW result \in Results,
           pc = "refused" => result \in Statuses,
           NEW cs, cs = Settled(calls, c, pc, result)
    PROVE  /\ cs \in [Calls -> CallRows] /\ ~Refreshing(cs[c])
           /\ \A d \in Calls : Turns(calls[d], cs[d]) /\ (cs[d] = calls[d] \/ ~Refreshing(cs[d]))
  <1>1. \A d \in Calls : calls[d] \in CallRows
    OBVIOUS
  <1>2. \A d \in Calls : cs[d] = IF d = c \/ (calls[d].pc = "waiting" /\ calls[d].on = c)
                                 THEN [calls[d] EXCEPT !.pc = pc, !.result = result, !.on = None, !.client = 0, !.changed = FALSE,
                                              !.access = IF pc = "sending" THEN calls[c].access ELSE NoToken, !.refresh = NoToken]
                                 ELSE calls[d]
    BY DEF Settled
  <1>3. Carried(calls[c].access)
    BY DEF Carried, Circulating, Refreshing
  <1>4. ASSUME NEW d \in Calls
        PROVE  cs[d] \in CallRows /\ Turns(calls[d], cs[d]) /\ (cs[d] = calls[d] \/ ~Refreshing(cs[d]))
               /\ (d = c => ~Refreshing(cs[d]))
    <2>1. CASE d = c \/ (calls[d].pc = "waiting" /\ calls[d].on = c)
      <3>1. calls[d] \in CallRows /\ calls[c].access \in Tokens /\ pc \in Stages
        BY <1>1 DEF CallRows, Stages
      <3>2. DEFINE t == IF pc = "sending" THEN calls[c].access ELSE NoToken
      <3>3. cs[d] = SettledAs(calls[d], pc, result, t)
        BY <1>2, <2>1 DEF SettledAs
      <3>4. t \in Tokens /\ t \in {calls[c].access, NoToken}
        BY <3>1, NoTokenIsNone
      <3> HIDE DEF t
      <3>5. /\ cs[d].pc = pc /\ cs[d].result = result /\ cs[d].refresh = NoToken /\ cs[d].access \in {calls[c].access, NoToken}
            /\ cs[d] \in CallRows
        BY <3>1, <3>3, <3>4, NoTokenIsNone, SettledRow
      <3>6. Plain(cs[d])
        BY <3>5, <1>3 DEF Plain, Owning, Starting, Finishing, Refreshing, Carried
      <3> QED
        BY <3>5, <3>6 DEF Turns, Plain
    <2>2. CASE ~(d = c \/ (calls[d].pc = "waiting" /\ calls[d].on = c))
      BY <1>1, <1>2, <2>2 DEF Turns, Alike
    <2> QED
      BY <2>1, <2>2
  <1> QED
    BY <1>4 DEF Settled

-----------------------------------------------------------------------------
(* What ordinary steps preserve *)

LEMMA OrdinaryCode ==
    ASSUME CodeInv, Ordinary
    PROVE  CodeInv'
  <1> SUFFICES ASSUME NEW d \in Calls
               PROVE  Form(calls'[d])
    BY DEF CodeInv, Form, Owning, Starting, Finishing
  <1>1. Form(calls[d]) /\ Turns(calls[d], calls'[d])
    BY DEF CodeInv, Ordinary
  <1>2. CASE Alike(calls[d], calls'[d])
    BY <1>1, <1>2 DEF Alike, Form, Owning, Starting, Finishing
  <1>3. CASE Plain(calls'[d])
    BY <1>3 DEF Plain, Form, Owning, Starting, Finishing, Refreshing
  <1> QED
    BY <1>1, <1>2, <1>3 DEF Turns

LEMMA OrdinaryOwners ==
    ASSUME Ordinary
    PROVE  \A d \in Calls :
              /\ Owning(calls'[d]) => Owning(calls[d]) /\ Alike(calls[d], calls'[d])
              /\ Refreshing(calls'[d]) => Refreshing(calls[d]) /\ Alike(calls[d], calls'[d])
              /\ Starting(calls'[d]) => Starting(calls[d])
              /\ \A p \in {"claimed", "exchange", "complete", "sealing"} : calls'[d].pc = p => calls[d].pc = p
              /\ calls'[d].pc \in {"client", "asked"} => calls[d].pc \in {"client", "asked"}
  <1> SUFFICES ASSUME NEW d \in Calls
               PROVE  /\ Owning(calls'[d]) => Owning(calls[d]) /\ Alike(calls[d], calls'[d])
                      /\ Refreshing(calls'[d]) => Refreshing(calls[d]) /\ Alike(calls[d], calls'[d])
                      /\ Starting(calls'[d]) => Starting(calls[d])
                      /\ \A p \in {"claimed", "exchange", "complete", "sealing"} : calls'[d].pc = p => calls[d].pc = p
                      /\ calls'[d].pc \in {"client", "asked"} => calls[d].pc \in {"client", "asked"}
    OBVIOUS
  <1>1. Turns(calls[d], calls'[d])
    BY DEF Ordinary
  <1>2. CASE Alike(calls[d], calls'[d])
    BY <1>2 DEF Alike, Owning, Starting, Finishing, Refreshing
  <1>3. CASE Plain(calls'[d])
    BY <1>3 DEF Plain, Owning, Starting, Finishing, Refreshing
  <1> QED
    BY <1>1, <1>2, <1>3 DEF Turns

\* The calls that own attempts, and those with tokens on their way into the store.
OwnersStay ==
    \A d \in Calls : /\ Owning(calls'[d]) => Owning(calls[d]) /\ calls'[d].attempt = calls[d].attempt
                     /\ Starting(calls'[d]) => Starting(calls[d])
                     /\ calls'[d].pc = "claimed" => calls[d].pc = "claimed"
HoldersStay ==
    \A d \in Calls : /\ Refreshing(calls'[d]) => Refreshing(calls[d]) /\ Alike(calls[d], calls'[d])
                     /\ calls'[d].pc = "complete" => calls[d].pc = "complete" /\ Alike(calls[d], calls'[d])

LEMMA OrdinaryStays ==
    ASSUME Ordinary
    PROVE  OwnersStay /\ HoldersStay
  BY OrdinaryOwners DEF OwnersStay, HoldersStay, Alike, Owning, Finishing

LEMMA OwnersAttempt ==
    ASSUME TInv, CodeInv
    PROVE  \A d \in Calls : Owning(calls[d]) => calls[d].attempt \in Attempts
  <1> SUFFICES ASSUME NEW d \in Calls, Owning(calls[d])
               PROVE  calls[d].attempt \in Attempts
    OBVIOUS
  <1>1. calls[d] \in CallRows
    BY DEF TInv
  <1>2. calls[d].attempt \in 0..MaxAttempts
    BY <1>1 DEF CallRows
  <1>3. calls[d].attempt # 0
    BY DEF CodeInv, Form
  <1> QED
    BY <1>2, <1>3, McpAssumption DEF Attempts

AttemptsStay == attempts' = attempts \/ attempts' = [a \in Attempts |-> NoAttempt]

LEMMA ClaimStays ==
    ASSUME TInv, TInv', CodeInv, ClaimInv, OwnersStay, AttemptsStay, UNCHANGED <<lastAttempt, exchanges>>
    PROVE  ClaimInv' /\ \A a \in Attempts : Live(a)' => Live(a)
  <1>1. \A a \in Attempts : attempts'[a].state = "open" => attempts[a].state = "open"
    BY DEF AttemptsStay, NoAttempt
  <1>2. \A d \in Calls : Owning(calls'[d]) => Owning(calls[d]) /\ calls'[d].attempt = calls[d].attempt
    BY DEF OwnersStay
  <1>3. \A d \in Calls : /\ Starting(calls'[d]) => Starting(calls[d])
                         /\ calls'[d].pc = "claimed" => calls[d].pc = "claimed"
    BY DEF OwnersStay
  <1>4. \A d \in Calls : Owning(calls[d]) => calls[d].attempt \in Attempts
    BY OwnersAttempt
  <1>5. ClaimInv'
    <2>1. \A a \in Attempts : attempts'[a].state = "open" => a <= lastAttempt'
      BY <1>1 DEF ClaimInv
    <2>2. \A c \in Calls : Owning(calls'[c]) => calls'[c].attempt <= lastAttempt' /\ attempts'[calls'[c].attempt].state # "open"
      BY <1>1, <1>2, <1>4 DEF ClaimInv
    <2>3. \A c, d \in Calls : Owning(calls'[c]) /\ Owning(calls'[d]) /\ calls'[c].attempt = calls'[d].attempt => c = d
      BY <1>2 DEF ClaimInv
    <2>4. \A a \in Attempts : exchanges'[a] <= 1
      BY DEF ClaimInv
    <2>5. \A a \in Attempts : a > lastAttempt' \/ attempts'[a].state = "open" => exchanges'[a] = 0
      BY <1>1 DEF ClaimInv
    <2>6. \A c \in Calls : Starting(calls'[c]) \/ calls'[c].pc = "claimed" => exchanges'[calls'[c].attempt] = 0
      <3> SUFFICES ASSUME NEW c \in Calls, Starting(calls'[c]) \/ calls'[c].pc = "claimed"
                   PROVE  exchanges'[calls'[c].attempt] = 0
        OBVIOUS
      <3>1. Owning(calls'[c])
        BY DEF Owning, Finishing
      <3> QED
        BY <1>2, <1>3, <3>1 DEF ClaimInv
    <2> QED
      BY <2>1, <2>2, <2>3, <2>4, <2>5, <2>6 DEF ClaimInv, Owning, Starting, Finishing
  <1>6. \A a \in Attempts : Live(a)' => Live(a)
    BY <1>1, <1>2 DEF Live, Owning, Starting, Finishing
  <1> QED
    BY <1>5, <1>6

LEMMA CirculatingSame ==
    ASSUME TInv, TInv', Ordinary, Carried(oauth'.access), Carried(oauth'.refresh)
    PROVE  \A g \in Attempts : Circulating(g)' => Circulating(g)
  <1> SUFFICES ASSUME NEW g \in Attempts, Circulating(g)'
               PROVE  Circulating(g)
    OBVIOUS
  <1>1. g # 0 /\ NoToken.grant = 0
    BY McpAssumption DEF Attempts, NoToken
  <1>2. CASE oauth'.access.grant = g \/ oauth'.refresh.grant = g
    BY <1>1, <1>2 DEF Carried
  <1>3. CASE \E c \in Calls : calls'[c].pc # "complete" /\ (calls'[c].access.grant = g \/ calls'[c].refresh.grant = g)
    <2> PICK c \in Calls : calls'[c].pc # "complete" /\ (calls'[c].access.grant = g \/ calls'[c].refresh.grant = g)
      BY <1>3
    <2>1. CASE Alike(calls[c], calls'[c])
      BY <2>1 DEF Alike, Circulating
    <2>2. CASE Plain(calls'[c])
      BY <1>1, <2>2 DEF Plain, Carried
    <2> QED
      BY <2>1, <2>2 DEF Ordinary, Turns
  <1> QED
    BY <1>2, <1>3 DEF Circulating

LEMMA OrdinaryFresh ==
    ASSUME TInv, TInv', FreshInv, Ordinary, Carried(oauth'.access), Carried(oauth'.refresh), \A a \in Attempts : Live(a)' => Live(a)
    PROVE  FreshInv'
  BY CirculatingSame DEF FreshInv

LEMMA FlightStays ==
    ASSUME FlightInv, HoldersStay, inFlight' = inFlight \/ Told \/ \E c \in Calls : inFlight = c /\ ~Refreshing(calls'[c])
    PROVE  FlightInv'
  <1> SUFFICES ASSUME NEW d \in Calls, Refreshing(calls'[d]), ~calls'[d].changed
               PROVE  inFlight' = d
    BY DEF FlightInv, Refreshing
  <1>1. Refreshing(calls[d]) /\ Alike(calls[d], calls'[d])
    BY DEF HoldersStay
  <1>2. inFlight = d
    BY <1>1 DEF Alike, FlightInv
  <1> QED
    BY <1>2 DEF Told

\* What a step may do to the row of the server.
ServerKept ==
    /\ server'.id = server.id /\ server'.url = server.url /\ server'.bearer = server.bearer
    /\ server'.kind # server.kind => server'.kind # "bearer" /\ server.bearer = None
LateGrows == late \subseteq late'
TokensKept == oauth'.access = oauth.access /\ oauth'.refresh = oauth.refresh
IssuerGrows == \A a \in Attempts : issuer'[a] >= issuer[a]
FitsStill == server'.kind # "bearer" /\ oauth.access # NoToken =>
                 server.kind # "bearer" /\ server'.id = server.id /\ server'.url = server.url

LEMMA OrdinaryServer ==
    ASSUME ServerInv, Ordinary, ServerKept, LateGrows, UNCHANGED oneOrigin
    PROVE  ServerInv' /\ FitsStill
  <1>1. server'.kind = "bearer" => server'.bearer # None
    BY DEF ServerKept, ServerInv
  <1>2. ASSUME "rekey" \notin late'
        PROVE  /\ server'.bearer # None => server'.kind = "bearer" /\ (server'.url = server'.bearer \/ oneOrigin')
               /\ \A c \in Calls : calls'[c].pc = "resealing" => calls'[c].url = server'.bearer
    <2>1. "rekey" \notin late
      BY <1>2 DEF LateGrows
    <2>2. server'.bearer # None => server'.kind = "bearer" /\ (server'.url = server'.bearer \/ oneOrigin')
      BY <2>1 DEF ServerKept, ServerInv, sameOrigin
    <2>3. ASSUME NEW c \in Calls, calls'[c].pc = "resealing"
          PROVE  calls'[c].url = server'.bearer
      BY <2>1, <2>3 DEF ServerKept, ServerInv, Ordinary, Turns, Alike, Plain
    <2> QED
      BY <2>2, <2>3
  <1>3. FitsStill
    BY DEF FitsStill, ServerKept, ServerInv
  <1> QED
    BY <1>1, <1>2, <1>3 DEF ServerInv, sameOrigin

\* The stored tokens stay, and the refreshes keep their marks.
LEMMA KeptTokens ==
    ASSUME TInv, TInv', CodeInv, FlightInv, TokenInv, HoldersStay, Untold, LateGrows, TokensKept, IssuerGrows, FitsStill, UNCHANGED issued
    PROVE  TokenInv'
  <1> SUFFICES ASSUME "tokens" \notin late'
               PROVE  StoreInv' /\ SeqInv' /\ HeldInv'
    BY DEF TokenInv
  <1>1. StoreInv /\ SeqInv /\ HeldInv
    BY DEF LateGrows, TokenInv
  <1>2. StoreInv'
    <2>1. /\ oauth'.access = NoToken => oauth'.refresh = NoToken
          /\ oauth'.refresh # NoToken => oauth'.refresh.grant = oauth'.access.grant
          /\ server'.kind # "bearer" /\ oauth'.access # NoToken => issued'[oauth'.access.grant] = [id |-> server'.id, url |-> server'.url]
      BY <1>1 DEF StoreInv, TokensKept, FitsStill
    <2>2. ASSUME NEW c \in Calls, calls'[c].pc = "complete"
          PROVE  issued'[calls'[c].attempt] = [id |-> calls'[c].id, url |-> calls'[c].url]
      <3>1. calls[c].pc = "complete" /\ Alike(calls[c], calls'[c])
        BY <2>2 DEF HoldersStay
      <3> QED
        BY <3>1, <1>1 DEF Alike, StoreInv
    <2> QED
      BY <2>1, <2>2 DEF StoreInv
  <1>3. SeqInv'
    <2>1. \A t \in Tokens : Minted(t) => Minted(t)'
      <3> SUFFICES ASSUME NEW t \in Tokens, Minted(t), t # NoToken
                   PROVE  t.seq <= issuer'[t.grant]
        BY DEF Minted
      <3>1. t.grant \in Attempts /\ t.seq \in Nat
        BY NoTokenIsNone
      <3>2. issuer[t.grant] \in Nat /\ issuer'[t.grant] \in Nat /\ issuer'[t.grant] >= issuer[t.grant] /\ t.seq <= issuer[t.grant]
        BY <3>1 DEF TInv, IssuerGrows, Minted
      <3> QED
        BY <3>1, <3>2
    <2>2. oauth'.refresh \in Tokens /\ \A c \in Calls : calls'[c].refresh \in Tokens
      BY DEF TInv, OAuthRows, CallRows
    <2>3. Minted(oauth.refresh)'
      BY <2>1, <2>2, <1>1 DEF SeqInv, TokensKept
    <2>4. ASSUME NEW c \in Calls, Refreshing(calls'[c])
          PROVE  Minted(calls[c].refresh)'
      <3>1. Refreshing(calls[c]) /\ Alike(calls[c], calls'[c])
        BY <2>4 DEF HoldersStay
      <3> QED
        BY <2>1, <2>2, <3>1, <1>1 DEF Alike, SeqInv
    <2>5. ASSUME NEW c \in Calls, calls'[c].pc = "complete"
          PROVE  issuer'[calls'[c].attempt] >= 1
      <3>1. calls[c].pc = "complete" /\ Alike(calls[c], calls'[c])
        BY <2>5 DEF HoldersStay
      <3>2. calls[c].attempt \in Attempts
        BY <3>1, OwnersAttempt DEF Owning, Finishing
      <3> QED
        BY <3>1, <3>2, <1>1 DEF Alike, SeqInv, IssuerGrows, TInv
    <2> QED
      BY <2>3, <2>4, <2>5 DEF SeqInv, Refreshing
  <1>4. HeldInv'
    <2>1. ASSUME NEW c \in Calls, Refreshing(calls'[c])
          PROVE  /\ Refreshing(calls[c]) /\ calls'[c].refresh = calls[c].refresh /\ calls'[c].access = calls[c].access
                 /\ calls'[c].changed = calls[c].changed
                 /\ calls'[c].pc = "sealing" <=> calls[c].pc = "sealing"
      BY <2>1 DEF HoldersStay, Alike, Untold, Refreshing
    <2>2. ASSUME NEW c \in Calls
          PROVE  Current(calls[c])' /\ Apart(calls[c])'
      BY <1>1, <2>1 DEF HeldInv, Current, Apart, TokensKept, Refreshing
    <2>3. ASSUME NEW c \in Calls, NEW d \in Calls, Refreshing(calls'[c]), Refreshing(calls'[d]),
                 calls'[c].refresh # NoToken, calls'[c].refresh = calls'[d].refresh
          PROVE  c = d
      BY <1>1, <2>1, <2>3 DEF HeldInv
    <2> QED
      BY <2>2, <2>3 DEF HeldInv, Refreshing
  <1> QED
    BY <1>2, <1>3, <1>4

\* The stored tokens are cleared, and the refreshes under way are told.
LEMMA ClearedTokens ==
    ASSUME TInv, TInv', CodeInv, TokenInv, HoldersStay, Told, LateGrows,
           oauth'.access = NoToken, oauth'.refresh = NoToken, UNCHANGED <<issuer, issued>>
    PROVE  TokenInv'
  <1> SUFFICES ASSUME "tokens" \notin late'
               PROVE  StoreInv' /\ SeqInv' /\ HeldInv'
    BY DEF TokenInv
  <1>1. StoreInv /\ SeqInv /\ HeldInv
    BY DEF LateGrows, TokenInv
  <1>2. StoreInv'
    <2>1. ASSUME NEW c \in Calls, calls'[c].pc = "complete"
          PROVE  issued'[calls'[c].attempt] = [id |-> calls'[c].id, url |-> calls'[c].url]
      <3>1. calls[c].pc = "complete" /\ Alike(calls[c], calls'[c])
        BY <2>1 DEF HoldersStay
      <3> QED
        BY <3>1, <1>1 DEF Alike, StoreInv
    <2> QED
      BY <2>1 DEF StoreInv
  <1>3. SeqInv'
    <2>1. ASSUME NEW c \in Calls, Refreshing(calls'[c])
          PROVE  Minted(calls[c].refresh)'
      <3>1. Refreshing(calls[c]) /\ Alike(calls[c], calls'[c])
        BY <2>1 DEF HoldersStay
      <3> QED
        BY <3>1, <1>1 DEF Alike, SeqInv, Minted
    <2>2. ASSUME NEW c \in Calls, calls'[c].pc = "complete"
          PROVE  issuer'[calls'[c].attempt] >= 1
      <3>1. calls[c].pc = "complete" /\ Alike(calls[c], calls'[c])
        BY <2>2 DEF HoldersStay
      <3> QED
        BY <3>1, <1>1 DEF Alike, SeqInv
    <2> QED
      BY <2>1, <2>2 DEF SeqInv, Minted, Refreshing
  <1>4. HeldInv'
    <2>1. ASSUME NEW c \in Calls, Refreshing(calls'[c])
          PROVE  Refreshing(calls[c]) /\ calls'[c].refresh = calls[c].refresh /\ calls'[c].changed
      BY <2>1 DEF HoldersStay, Alike, Told
    <2>2. ASSUME NEW c \in Calls
          PROVE  Current(calls[c])' /\ Apart(calls[c])'
      BY <2>1 DEF Current, Apart, Refreshing
    <2>3. ASSUME NEW c \in Calls, NEW d \in Calls, Refreshing(calls'[c]), Refreshing(calls'[d]),
                 calls'[c].refresh # NoToken, calls'[c].refresh = calls'[d].refresh
          PROVE  c = d
      BY <1>1, <2>1, <2>3 DEF HeldInv
    <2> QED
      BY <2>2, <2>3 DEF HeldInv, Refreshing
  <1> QED
    BY <1>2, <1>3, <1>4

LEMMA Keeping ==
    ASSUME IInv, TInv', ServerInv', Ordinary, Untold, LateGrows, TokensKept, IssuerGrows, FitsStill, AttemptsStay,
           UNCHANGED <<lastAttempt, exchanges, issued>>,
           inFlight' = inFlight \/ \E c \in Calls : inFlight = c /\ ~Refreshing(calls'[c])
    PROVE  IInv'
  <1>1. CodeInv' /\ ClaimInv' /\ (\A a \in Attempts : Live(a)' => Live(a)) /\ FlightInv' /\ TokenInv'
    BY OrdinaryCode, OrdinaryStays, ClaimStays, FlightStays, KeptTokens DEF IInv
  <1>2. Carried(oauth'.access) /\ Carried(oauth'.refresh)
    BY DEF TokensKept, Carried, Circulating
  <1>3. FreshInv'
    BY <1>1, <1>2, OrdinaryFresh DEF IInv
  <1> QED
    BY <1>1, <1>3 DEF IInv

LEMMA Clearing ==
    ASSUME IInv, TInv', ServerInv', Ordinary, Told, LateGrows, oauth'.access = NoToken, oauth'.refresh = NoToken, AttemptsStay,
           UNCHANGED <<lastAttempt, exchanges, issuer, issued>>
    PROVE  IInv'
  <1>1. CodeInv' /\ ClaimInv' /\ (\A a \in Attempts : Live(a)' => Live(a)) /\ FlightInv' /\ TokenInv'
    BY OrdinaryCode, OrdinaryStays, ClaimStays, FlightStays, ClearedTokens DEF IInv
  <1>2. Carried(oauth'.access) /\ Carried(oauth'.refresh)
    BY DEF Carried
  <1>3. FreshInv'
    BY <1>1, <1>2, OrdinaryFresh DEF IInv
  <1> QED
    BY <1>1, <1>3 DEF IInv

-----------------------------------------------------------------------------
(* Steps that move one call *)

others == <<server, lastId, oneOrigin, oauth, attempts, lastAttempt, inFlight, issuer, issued, exchanges, late>>

LEMMA CallRow ==
    ASSUME TInv, NEW c \in Calls
    PROVE  calls[c] \in CallRows
  BY DEF TInv

LEMMA CallMoves ==
    ASSUME IInv, NEW c \in Calls, NEW r \in CallRows, Turns(calls[c], r), Refreshing(r) => r.changed = calls[c].changed,
           calls' = [calls EXCEPT ![c] = r], UNCHANGED others
    PROVE  IInv'
  <1>1. calls' \in [Calls -> CallRows] /\ Ordinary /\ Untold
    BY OneTurn DEF IInv, TInv
  <1>2. TInv'
    BY <1>1 DEF IInv, TInv, others
  <1>3. ServerInv' /\ FitsStill
    BY <1>1, OrdinaryServer DEF IInv, ServerKept, LateGrows, others
  <1>4. IssuerGrows
    BY DEF IssuerGrows, others, IInv, TInv
  <1> QED
    BY <1>1, <1>2, <1>3, <1>4, Keeping DEF LateGrows, TokensKept, AttemptsStay, others


LEMMA NewDiscovery ==
    ASSUME NEW goal \in Goals, NEW r, r.url \in Urls \cup {None}, r.kind \in Kinds
    PROVE  Discovering(goal, r) \in CallRows /\ Plain(Discovering(goal, r))
  <1>1. /\ NoCall.access = NoToken /\ NoCall.refresh = NoToken
        /\ Discovering(goal, r) = [NoCall EXCEPT !.pc = "authorize", !.goal = goal, !.url = r.url, !.kind = r.kind]
    BY DEF NoCall, Discovering
  <1>2. /\ Discovering(goal, r) \in CallRows
        /\ Discovering(goal, r).pc = "authorize"
        /\ Discovering(goal, r).access = NoToken /\ Discovering(goal, r).refresh = NoToken
    BY <1>1, NoCallPlain, NoTokenIsNone, ZenonT(40) DEF CallRows, Stages
  <1> QED
    BY <1>2 DEF Plain, Carried, Owning, Starting, Finishing, Refreshing

LEMMA NewDecision ==
    ASSUME NEW q, q.goal \in Goals, q.url \in Urls \cup {None}, NEW res \in Results
    PROVE  Deciding(q, res) \in CallRows /\ Plain(Deciding(q, res))
  <1>1. /\ NoCall.access = NoToken /\ NoCall.refresh = NoToken
        /\ Deciding(q, res) = [NoCall EXCEPT !.pc = "outcome", !.goal = q.goal, !.url = q.url, !.result = res]
    BY DEF NoCall, Deciding
  <1>2. /\ Deciding(q, res) \in CallRows
        /\ Deciding(q, res).pc = "outcome"
        /\ Deciding(q, res).access = NoToken /\ Deciding(q, res).refresh = NoToken
    BY <1>1, NoCallPlain, NoTokenIsNone, ZenonT(40) DEF CallRows, Stages
  <1> QED
    BY <1>2 DEF Plain, Carried, Owning, Starting, Finishing, Refreshing

LEMMA DiscoveringFresh ==
    ASSUME TInv, NEW goal \in Goals
    PROVE  Discovering(goal, server) \in CallRows /\ Plain(Discovering(goal, server))
  <1>1. server.url \in Urls \cup {None} /\ server.kind \in Kinds
    BY DEF TInv, ServerRows
  <1> QED
    BY <1>1, NewDiscovery

LEMMA DecidingPlain ==
    ASSUME NEW q \in CallRows, NEW res \in Results
    PROVE  Deciding(q, res) \in CallRows /\ Plain(Deciding(q, res))
  <1>1. q.goal \in Goals /\ q.url \in Urls \cup {None}
    BY DEF CallRows
  <1> QED
    BY <1>1, NewDecision

LEMMA refreshMcpServerStep == ASSUME IInv, NEW c \in Calls, refreshMcpServer(c) PROVE IInv'
  <1>1. PICK r \in {Discovering("discover", server), NoCall} : calls' = [calls EXCEPT ![c] = r]
    BY DEF refreshMcpServer
  <1>2. r \in CallRows /\ Plain(r)
    BY DiscoveringFresh, NoCallPlain DEF IInv, Goals
  <1> QED
    BY <1>1, <1>2, CallMoves DEF refreshMcpServer, history, others, Turns, Plain

LEMMA reconnectMcpServerStep == ASSUME IInv, NEW c \in Calls, reconnectMcpServer(c) PROVE IInv'
  <1> DEFINE q == Discovering("reconnect", server)
             r == [q EXCEPT !.forced = TRUE]
  <1>1. q \in CallRows /\ Plain(q)
    BY DiscoveringFresh DEF IInv, Goals
  <1>2. calls' = [calls EXCEPT ![c] = r]
    BY DEF reconnectMcpServer
  <1> HIDE DEF q
  <1>3. r \in CallRows /\ r.pc = q.pc /\ r.access = q.access /\ r.refresh = q.refresh
    BY <1>1 DEF CallRows
  <1>4. Plain(r)
    BY <1>1, <1>3 DEF Plain, Owning, Starting, Finishing, Refreshing
  <1> HIDE DEF r
  <1> QED
    BY <1>2, <1>3, <1>4, CallMoves DEF reconnectMcpServer, history, others, Turns, Plain

LEMMA callMcpToolStep == ASSUME IInv, NEW c \in Calls, callMcpTool(c) PROVE IInv'
  <1>1. PICK goal \in {"tool", "find"} : calls' = [calls EXCEPT ![c] = Discovering(goal, server)]
    BY DEF callMcpTool
  <1>2. Discovering(goal, server) \in CallRows /\ Plain(Discovering(goal, server))
    BY DiscoveringFresh DEF IInv, Goals
  <1> QED
    BY <1>1, <1>2, CallMoves DEF callMcpTool, history, others, Turns, Plain

LEMMA AuthBeginStep == ASSUME IInv, NEW c \in Calls, AuthBegin(c) PROVE IInv'
  <1> DEFINE q == calls[c]
             res == NewerOr(q)
             sent == [q EXCEPT !.pc = "sending", !.access = NoToken]
             joined == [q EXCEPT !.pc = "waiting", !.on = inFlight]
             read == [q EXCEPT !.pc = "reading", !.result = res, !.access = oauth.access, !.refresh = oauth.refresh]
  <1>1. q \in CallRows /\ q.pc = "authorize" /\ res \in Results /\ inFlight \in Calls \cup {None}
        /\ oauth.access \in Tokens /\ oauth.refresh \in Tokens
    BY CallRow DEF IInv, TInv, AuthBegin, At, NewerOr, CallRows, OAuthRows, Results
  <1>2. \E r \in {NoCall, sent, joined, read} : calls' = [calls EXCEPT ![c] = r]
    <2>1. CASE ~Exists
      BY <2>1 DEF AuthBegin
    <2>2. CASE Exists /\ server.kind # "oauth"
      BY <2>2 DEF AuthBegin
    <2>3. CASE Exists /\ server.kind = "oauth" /\ inFlight # None
      BY <2>3 DEF AuthBegin
    <2>4. CASE Exists /\ server.kind = "oauth" /\ inFlight = None
      BY <2>4 DEF AuthBegin
    <2> QED
      BY <2>1, <2>2, <2>3, <2>4
  <1>3. Carried(q.access) /\ Carried(q.refresh) /\ Carried(oauth.access) /\ Carried(oauth.refresh) /\ Carried(NoToken)
    BY <1>1 DEF Carried, Circulating
  <1> HIDE DEF q, res
  <1>4. sent \in CallRows /\ Plain(sent)
    BY <1>1, <1>3, NoTokenIsNone DEF CallRows, Stages, Plain, Owning, Starting, Finishing, Refreshing
  <1>5. joined \in CallRows /\ Plain(joined)
    BY <1>1, <1>3 DEF CallRows, Stages, Plain, Owning, Starting, Finishing, Refreshing
  <1>6. read \in CallRows /\ Plain(read)
    BY <1>1, <1>3 DEF CallRows, Stages, Plain, Owning, Starting, Finishing, Refreshing
  <1> HIDE DEF sent, joined, read
  <1>7. PICK r \in {NoCall, sent, joined, read} : calls' = [calls EXCEPT ![c] = r]
    BY <1>2
  <1>8. r \in CallRows /\ Plain(r)
    BY <1>4, <1>5, <1>6, NoCallPlain
  <1> QED
    BY <1>7, <1>8, CallMoves DEF AuthBegin, history, others, Turns, Plain

LEMMA AuthReadyStep == ASSUME IInv, NEW c \in Calls, AuthReady(c) PROVE IInv'
  <1> DEFINE q == calls[c]
             r == [q EXCEPT !.pc = "sending", !.refresh = NoToken]
  <1>1. q \in CallRows /\ q.pc = "reading"
    BY CallRow DEF IInv, AuthReady, At
  <1>2. calls' = [calls EXCEPT ![c] = r]
    BY DEF AuthReady
  <1>3. Carried(q.access) /\ Carried(NoToken)
    BY <1>1 DEF Carried, Circulating
  <1> HIDE DEF q
  <1>4. r \in CallRows /\ Plain(r)
    BY <1>1, <1>3, NoTokenIsNone DEF CallRows, Stages, Plain, Owning, Starting, Finishing, Refreshing
  <1> HIDE DEF r
  <1> QED
    BY <1>2, <1>4, CallMoves DEF AuthReady, history, others, Turns, Plain

LEMMA AuthMissingStep == ASSUME IInv, NEW c \in Calls, AuthMissing(c) PROVE IInv'
  <1> DEFINE q == calls[c]
             r == [q EXCEPT !.pc = "refused", !.result = "authenticating", !.access = NoToken]
  <1>1. q \in CallRows /\ q.pc = "reading"
    BY CallRow DEF IInv, AuthMissing, At
  <1>2. calls' = [calls EXCEPT ![c] = r]
    BY DEF AuthMissing
  <1>3. Carried(q.refresh) /\ Carried(NoToken)
    BY <1>1 DEF Carried, Circulating
  <1> HIDE DEF q
  <1>4. r \in CallRows /\ Plain(r)
    BY <1>1, <1>3, NoTokenIsNone, ZenonT(40) DEF CallRows, Stages, Results, Statuses, Plain, Owning, Starting, Finishing, Refreshing
  <1> HIDE DEF r
  <1> QED
    BY <1>2, <1>4, CallMoves DEF AuthMissing, history, others, Turns, Plain

LEMMA AuthJoinStep == ASSUME IInv, NEW c \in Calls, AuthJoin(c) PROVE IInv'
  <1> DEFINE q == calls[c]
             r == [q EXCEPT !.pc = "waiting", !.on = inFlight, !.access = NoToken, !.refresh = NoToken]
  <1>1. q \in CallRows /\ inFlight \in Calls \cup {None}
    BY CallRow DEF IInv, TInv
  <1>2. calls' = [calls EXCEPT ![c] = r]
    BY DEF AuthJoin
  <1>3. Carried(NoToken)
    BY DEF Carried
  <1> HIDE DEF q
  <1>4. r \in CallRows /\ Plain(r)
    BY <1>1, <1>3, NoTokenIsNone, ZenonT(40) DEF CallRows, Stages, Results, Statuses, Plain, Owning, Starting, Finishing, Refreshing
  <1> HIDE DEF r
  <1> QED
    BY <1>2, <1>4, CallMoves DEF AuthJoin, history, others, Turns, Plain

LEMMA RefreshAskStep == ASSUME IInv, NEW c \in Calls, RefreshAsk(c) PROVE IInv'
  <1> DEFINE q == calls[c]
             r == [q EXCEPT !.pc = "asked"]
  <1>1. q \in CallRows /\ q.pc = "client"
    BY CallRow DEF IInv, RefreshAsk, At
  <1>2. calls' = [calls EXCEPT ![c] = r]
    BY DEF RefreshAsk, Goes
  <1> HIDE DEF q
  <1>3. r \in CallRows /\ Alike(q, r) /\ r.changed = q.changed
    BY <1>1 DEF CallRows, Stages, Alike
  <1> HIDE DEF r
  <1>4. Alike(calls[c], r) /\ r.changed = calls[c].changed
    BY <1>3 DEF q
  <1> QED
    BY <1>2, <1>3, <1>4, CallMoves DEF RefreshAsk, history, others, Turns

LEMMA SendRejectedStep == ASSUME IInv, NEW c \in Calls, SendRejected(c) PROVE IInv'
  <1> DEFINE q == calls[c]
             r == [q EXCEPT !.pc = "authorize", !.forced = TRUE, !.result = "stale"]
  <1>1. q \in CallRows /\ q.pc = "sending"
    BY CallRow DEF IInv, SendRejected, At
  <1>2. calls' = [calls EXCEPT ![c] = r]
    BY DEF SendRejected
  <1>3. Carried(q.access) /\ Carried(q.refresh)
    BY <1>1 DEF Carried, Circulating
  <1> HIDE DEF q
  <1>4. r \in CallRows /\ Plain(r)
    BY <1>1, <1>3 DEF CallRows, Stages, Results, Statuses, Plain, Owning, Starting, Finishing, Refreshing
  <1> HIDE DEF r
  <1> QED
    BY <1>2, <1>4, CallMoves DEF SendRejected, history, others, Turns, Plain

LEMMA SendToolStep == ASSUME IInv, NEW c \in Calls, SendTool(c) PROVE IInv'
  <1> DEFINE q == calls[c]
  <1>1. q \in CallRows
    BY CallRow DEF IInv
  <1>2. Discovering("find", q) \in CallRows /\ Plain(Discovering("find", q))
    BY <1>1, NewDiscovery DEF CallRows, Goals
  <1>3. PICK r \in {NoCall, Discovering("find", q)} : calls' = [calls EXCEPT ![c] = r]
    BY DEF SendTool, Ends
  <1>4. r \in CallRows /\ Plain(r)
    BY <1>2, NoCallPlain
  <1> QED
    BY <1>3, <1>4, CallMoves DEF SendTool, history, others, Turns, Plain

LEMMA SendReconnectStep == ASSUME IInv, NEW c \in Calls, SendReconnect(c) PROVE IInv'
  <1> DEFINE r == [NoCall EXCEPT !.pc = "rediscover"]
  <1>1. r \in CallRows /\ Plain(r)
    BY NoCallPlain DEF NoCall, CallRows, Stages, Plain, Carried, Owning, Starting, Finishing, Refreshing
  <1>2. calls' = [calls EXCEPT ![c] = r]
    BY DEF SendReconnect
  <1> HIDE DEF r
  <1> QED
    BY <1>1, <1>2, CallMoves DEF SendReconnect, history, others, Turns, Plain

LEMMA SendDiscoverStep == ASSUME IInv, NEW c \in Calls, SendDiscover(c) PROVE IInv'
  <1>1. PICK res \in {"tools", "error", "auth"} : calls' = [calls EXCEPT ![c] = Deciding(calls[c], res)]
    BY DEF SendDiscover
  <1>2. Deciding(calls[c], res) \in CallRows /\ Plain(Deciding(calls[c], res))
    BY CallRow, DecidingPlain DEF IInv, Results
  <1> QED
    BY <1>1, <1>2, CallMoves DEF SendDiscover, history, others, Turns, Plain

LEMMA StartBeginStep == ASSUME IInv, NEW c \in Calls, StartBegin(c) PROVE IInv'
  <1> DEFINE r == [NoCall EXCEPT !.pc = "load", !.id = server.id, !.url = server.url]
  <1>1. server.id \in Nat /\ server.url \in Urls \cup {None}
    BY DEF IInv, TInv, ServerRows
  <1>2. r \in CallRows /\ Plain(r)
    BY <1>1, NoCallPlain DEF NoCall, CallRows, Stages, Plain, Carried, Owning, Starting, Finishing, Refreshing
  <1>3. calls' = [calls EXCEPT ![c] = r]
    BY DEF StartBegin
  <1> HIDE DEF r
  <1> QED
    BY <1>2, <1>3, CallMoves DEF StartBegin, history, others, Turns, Plain

LEMMA StartSaveStep == ASSUME IInv, NEW c \in Calls, StartSave(c) PROVE IInv'
  <1> DEFINE q == calls[c]
             r == [q EXCEPT !.pc = "storing"]
  <1>1. q \in CallRows /\ q.pc = "begin"
    BY CallRow DEF IInv, StartSave, At
  <1>2. calls' = [calls EXCEPT ![c] = r] \/ calls' = [calls EXCEPT ![c] = NoCall]
    BY DEF StartSave, Goes, Ends
  <1> HIDE DEF q
  <1>3. r \in CallRows /\ Alike(q, r) /\ r.changed = q.changed
    BY <1>1 DEF CallRows, Stages, Alike
  <1> HIDE DEF r
  <1>4. Alike(calls[c], r) /\ r.changed = calls[c].changed
    BY <1>3 DEF q
  <1>5. UNCHANGED others
    BY DEF StartSave, history, others
  <1>6. CASE calls' = [calls EXCEPT ![c] = r]
    BY <1>3, <1>4, <1>5, <1>6, CallMoves DEF Turns
  <1>7. CASE calls' = [calls EXCEPT ![c] = NoCall]
    BY <1>5, <1>7, NoCallPlain, CallMoves DEF Turns, Plain
  <1> QED
    BY <1>2, <1>6, <1>7

LEMMA ClientBeginStep == ASSUME IInv, NEW c \in Calls, ClientBegin(c) PROVE IInv'
  <1>1. PICK goal \in {"set", "remove"} : calls' = [calls EXCEPT ![c] = [NoCall EXCEPT !.pc = "clientclear", !.goal = goal]]
    BY DEF ClientBegin
  <1> DEFINE r == [NoCall EXCEPT !.pc = "clientclear", !.goal = goal]
  <1>2. r \in CallRows /\ Plain(r)
    BY NoCallPlain, ZenonT(40) DEF NoCall, CallRows, Stages, Goals, Plain, Carried, Owning, Starting, Finishing, Refreshing
  <1>3. calls' = [calls EXCEPT ![c] = r]
    BY <1>1
  <1> HIDE DEF r
  <1> QED
    BY <1>2, <1>3, CallMoves DEF ClientBegin, history, others, Turns, Plain

LEMMA RekeyBeginStep == ASSUME IInv, NEW c \in Calls, RekeyBegin(c) PROVE IInv'
  <1> DEFINE r == [NoCall EXCEPT !.pc = "resealing", !.url = server.bearer]
  <1>1. server.bearer \in Urls \cup {None} /\ server.bearer # None
    BY DEF IInv, TInv, ServerRows, RekeyBegin
  <1>2. r \in CallRows /\ Plain(r)
    BY <1>1, NoCallPlain DEF NoCall, CallRows, Stages, Plain, Carried, Owning, Starting, Finishing, Refreshing
  <1>3. calls' = [calls EXCEPT ![c] = r]
    BY DEF RekeyBegin
  <1> HIDE DEF r
  <1> QED
    BY <1>2, <1>3, CallMoves DEF RekeyBegin, history, others, Turns, Plain

-----------------------------------------------------------------------------
(* Steps that write the row of the server *)

\* A call ends or goes on while the row keeps its address and its bearer.
LEMMA RowMoves ==
    ASSUME IInv, Ordinary, Untold, calls' \in [Calls -> CallRows], server' \in ServerRows, ServerKept,
           oauth' \in OAuthRows, TokensKept,
           UNCHANGED <<lastId, oneOrigin, attempts, lastAttempt, inFlight, issuer, issued, exchanges, late>>
    PROVE  IInv'
  <1>1. TInv'
    BY DEF IInv, TInv
  <1>2. ServerInv' /\ FitsStill
    BY OrdinaryServer DEF IInv, LateGrows
  <1>3. IssuerGrows
    BY DEF IssuerGrows, IInv, TInv
  <1> QED
    BY <1>1, <1>2, <1>3, Keeping DEF LateGrows, TokensKept, AttemptsStay

LEMMA SameCalls ==
    ASSUME calls \in [Calls -> CallRows], UNCHANGED calls
    PROVE  Ordinary /\ Untold /\ calls' \in [Calls -> CallRows]
  BY DEF Ordinary, Untold, Turns, Alike

LEMMA setUsableStep == ASSUME IInv, setUsable PROVE IInv'
  <1>1. server \in ServerRows
    BY DEF IInv, TInv
  <1>2. server' = [server EXCEPT !.usable = ~server.usable]
    BY DEF setUsable
  <1>3. server' \in ServerRows /\ ServerKept
    BY <1>1, <1>2 DEF ServerRows, ServerKept
  <1>4. Ordinary /\ Untold /\ calls' \in [Calls -> CallRows]
    BY SameCalls DEF setUsable, IInv, TInv
  <1>5. UNCHANGED <<lastId, oneOrigin, oauth, attempts, lastAttempt, inFlight, issuer, issued, exchanges, late>>
    BY DEF setUsable, history
  <1> QED
    BY <1>3, <1>4, <1>5, RowMoves DEF TokensKept, IInv, TInv

LEMMA RelabelledKept ==
    ASSUME TInv, NEW o, NEW status \in Statuses, server' = Relabelled(o, status) \/ server' = server
    PROVE  server' \in ServerRows /\ ServerKept
  <1>1. server \in ServerRows
    BY DEF TInv
  <1>2. server' = server \/ (server.bearer = None /\ server' = [server EXCEPT !.kind = "oauth", !.status = status])
    BY DEF Relabelled
  <1> QED
    BY <1>1, <1>2 DEF ServerRows, ServerKept, Kinds

LEMMA AuthRefusedStep == ASSUME IInv, NEW c \in Calls, AuthRefused(c) PROVE IInv'
  <1> DEFINE q == calls[c]
             sent == [q EXCEPT !.pc = "sending", !.access = NoToken]
             again == [NoCall EXCEPT !.pc = "rediscover"]
             found(r) == Deciding(q, r)
  <1>1. q \in CallRows /\ q.pc = "refused"
    BY CallRow DEF IInv, AuthRefused, At
  <1>2. sent \in CallRows /\ Plain(sent)
    <2>1. Carried(q.refresh) /\ Carried(NoToken)
      BY <1>1 DEF Carried, Circulating
    <2> HIDE DEF q
    <2> QED
      BY <1>1, <2>1, NoTokenIsNone DEF CallRows, Stages, Plain, Owning, Starting, Finishing, Refreshing
  <1>3. again \in CallRows /\ Plain(again)
    BY NoCallPlain DEF NoCall, CallRows, Stages, Plain, Carried, Owning, Starting, Finishing, Refreshing
  <1>4. \A r \in {"error", "auth"} : found(r) \in CallRows /\ Plain(found(r))
    BY <1>1, DecidingPlain DEF Results
  <1>5. \E r \in {sent, again, NoCall, found("error"), found("auth")} : calls' = [calls EXCEPT ![c] = r]
    <2> HIDE DEF sent, again, found
    <2>1. CASE Exists /\ server.kind # "oauth"
      BY <2>1 DEF AuthRefused, sent
    <2>2. CASE ~(Exists /\ server.kind # "oauth")
      <3>1. calls' = [calls EXCEPT ![c] =
                         IF q.goal = "reconnect" /\ Exists THEN again
                         ELSE IF q.goal \in {"discover", "find"} /\ Exists
                         THEN found(IF q.result = "error" \/ q.kind = "bearer" THEN "error" ELSE "auth")
                         ELSE NoCall]
        BY <2>2 DEF AuthRefused, again, found
      <3>2. CASE q.result = "error" \/ q.kind = "bearer"
        BY <3>1, <3>2
      <3>3. CASE ~(q.result = "error" \/ q.kind = "bearer")
        BY <3>1, <3>3
      <3> QED
        BY <3>2, <3>3
    <2> QED
      BY <2>1, <2>2
  <1> HIDE DEF sent, again, found
  <1>6. PICK r \in {sent, again, NoCall, found("error"), found("auth")} : calls' = [calls EXCEPT ![c] = r]
    BY <1>5
  <1>7. r \in CallRows /\ Plain(r)
    BY <1>2, <1>3, <1>4, NoCallPlain
  <1>8. Ordinary /\ Untold /\ calls' \in [Calls -> CallRows]
    BY <1>6, <1>7, OneTurn DEF IInv, TInv, Turns, Plain
  <1>9. server' \in ServerRows /\ ServerKept
    <2>1. CASE server' = server
      BY <2>1 DEF IInv, TInv, ServerKept
    <2>2. CASE server' # server
      <3>1. server' = Relabelled(None, q.result)
        BY <2>2 DEF AuthRefused
      <3>2. q.result \in Statuses
        BY <1>1 DEF IInv, CodeInv, Form
      <3> QED
        BY <3>1, <3>2, RelabelledKept DEF IInv
    <2> QED
      BY <2>1, <2>2
  <1> QED
    BY <1>8, <1>9, RowMoves DEF AuthRefused, history, TokensKept, IInv, TInv

LEMMA setDiscoveryStep == ASSUME IInv, NEW c \in Calls, setDiscovery(c) PROVE IInv'
  <1> DEFINE q == calls[c]
             next == IF q.result = "tools" THEN [server EXCEPT !.status = "ready"]
                     ELSE IF q.result = "error" THEN [server EXCEPT !.status = "error"]
                     ELSE Relabelled(IF q.result = "park" THEN q.url ELSE None, "authenticating")
  <1>1. server \in ServerRows /\ oauth \in OAuthRows
    BY DEF IInv, TInv
  <1>2. next \in ServerRows /\ next.id = server.id /\ next.url = server.url /\ next.bearer = server.bearer
        /\ (next.kind # server.kind => next.kind # "bearer" /\ server.bearer = None)
    BY <1>1 DEF Relabelled, ServerRows, Kinds, Statuses
  <1>3. server' = next \/ server' = server
    BY DEF setDiscovery
  <1>4. oauth' = oauth \/ oauth' = [oauth EXCEPT !.exists = TRUE]
    BY DEF setDiscovery
  <1>5. \E r \in {Discovering("tool", next), NoCall} : calls' = [calls EXCEPT ![c] = r]
    BY DEF setDiscovery, Ends
  <1> HIDE DEF next
  <1>6. Discovering("tool", next) \in CallRows /\ Plain(Discovering("tool", next))
    BY <1>2, NewDiscovery DEF ServerRows, Goals
  <1>7. PICK r \in {Discovering("tool", next), NoCall} : calls' = [calls EXCEPT ![c] = r]
    BY <1>5
  <1>8. r \in CallRows /\ Plain(r)
    BY <1>6, NoCallPlain
  <1>9. Ordinary /\ Untold /\ calls' \in [Calls -> CallRows]
    BY <1>7, <1>8, OneTurn DEF IInv, TInv, Turns, Plain
  <1>10. server' \in ServerRows /\ ServerKept
    BY <1>1, <1>2, <1>3 DEF ServerKept
  <1>11. oauth' \in OAuthRows /\ TokensKept
    BY <1>1, <1>4 DEF OAuthRows, TokensKept
  <1> QED
    BY <1>9, <1>10, <1>11, RowMoves DEF setDiscovery, history

LEMMA RekeyWriteStep == ASSUME IInv, NEW c \in Calls, RekeyWrite(c) PROVE IInv'
  <1>1. server \in ServerRows /\ calls[c] \in CallRows /\ calls[c].pc = "resealing"
    BY CallRow DEF IInv, TInv, RekeyWrite, At
  <1>2. calls[c].url \in Urls \cup {None} /\ calls[c].url # None
    BY <1>1 DEF IInv, CodeInv, Form, CallRows
  <1>3. server' = server \/ server' = [server EXCEPT !.bearer = calls[c].url]
    BY DEF RekeyWrite
  <1>4. server' \in ServerRows /\ server'.id = server.id /\ server'.url = server.url /\ server'.kind = server.kind
        /\ server'.bearer \in {server.bearer, calls[c].url}
    BY <1>1, <1>2, <1>3 DEF ServerRows
  <1>5. Ordinary /\ Untold /\ calls' \in [Calls -> CallRows]
    BY NoCallPlain, OneTurn DEF RekeyWrite, Ends, IInv, TInv, Turns, Plain
  <1>6. TInv' /\ IssuerGrows
    BY <1>4, <1>5 DEF RekeyWrite, IInv, TInv, history, IssuerGrows
  <1>7. ServerInv'
    <2>1. server'.kind = "bearer" => server'.bearer # None
      BY <1>2, <1>4 DEF IInv, ServerInv
    <2>2. ASSUME "rekey" \notin late'
          PROVE  /\ server'.bearer # None => server'.kind = "bearer" /\ (server'.url = server'.bearer \/ oneOrigin')
                 /\ \A d \in Calls : calls'[d].pc = "resealing" => calls'[d].url = server'.bearer
      <3>1. "rekey" \notin late /\ oneOrigin' = oneOrigin
        BY <2>2 DEF RekeyWrite, history
      <3>2. server'.bearer = server.bearer
        BY <3>1, <1>1, <1>4 DEF IInv, ServerInv
      <3>3. \A d \in Calls : calls'[d].pc = "resealing" => calls[d].pc = "resealing" /\ calls'[d] = calls[d]
        BY DEF RekeyWrite, Ends, NoCall, IInv, TInv
      <3> QED
        BY <3>1, <3>2, <3>3, <1>4 DEF IInv, ServerInv, sameOrigin
    <2> QED
      BY <2>1, <2>2 DEF ServerInv, sameOrigin
  <1>8. FitsStill
    BY <1>4 DEF FitsStill
  <1> QED
    BY <1>5, <1>6, <1>7, <1>8, Keeping DEF RekeyWrite, history, LateGrows, TokensKept, AttemptsStay

\* A row that is written over while no bearer is being sealed again.
LEMMA RowWritten ==
    ASSUME IInv, TInv', Overlap, \A d \in Calls : calls'[d].pc = "resealing" => calls[d].pc = "resealing",
           server'.kind = "bearer" => server'.bearer # None,
           "rekey" \notin late /\ server'.bearer # None => server'.kind = "bearer" /\ (server'.url = server'.bearer \/ oneOrigin')
    PROVE  ServerInv' /\ LateGrows
  <1>1. LateGrows
    BY DEF Overlap, LateGrows
  <1>2. ASSUME "rekey" \notin late'
        PROVE  /\ server'.bearer # None => server'.kind = "bearer" /\ (server'.url = server'.bearer \/ oneOrigin')
               /\ \A d \in Calls : calls'[d].pc = "resealing" => calls'[d].url = server'.bearer
    <2>1. ~Resealing /\ "rekey" \notin late
      BY <1>2 DEF Overlap
    <2> QED
      BY <2>1 DEF Resealing
  <1> QED
    BY <1>1, <1>2 DEF ServerInv, sameOrigin

LEMMA OverlapType ==
    ASSUME TInv, Overlap
    PROVE  late' \subseteq {"rekey", "tokens"}
  BY DEF TInv, Overlap

LEMMA SaveBearerStep == ASSUME IInv, NEW c \in Calls, SaveBearer(c) PROVE IInv'
  <1> DEFINE q == calls[c]
             next == Saved(IF Exists THEN server.id ELSE q.id, q.url, "bearer", q.url)
             r == Discovering("discover", next)
  <1>1. q \in CallRows /\ q.pc = "saving" /\ server.id \in Nat
    BY CallRow DEF IInv, TInv, SaveBearer, At, ServerRows
  <1>2. q.url \in Urls \cup {None} /\ q.url # None /\ q.id \in Nat
    BY <1>1 DEF IInv, CodeInv, Form, CallRows
  <1>3. next \in ServerRows /\ next.kind = "bearer" /\ next.url = q.url /\ next.bearer = q.url
    BY <1>1, <1>2 DEF Saved, ServerRows, Kinds, Statuses
  <1>4. server' = next /\ calls' = [calls EXCEPT ![c] = r] /\ Overlap
        /\ UNCHANGED <<lastId, oneOrigin, oauth, attempts, lastAttempt, inFlight, issuer, issued, exchanges>>
    BY DEF SaveBearer
  <1> HIDE DEF next
  <1>5. r \in CallRows /\ Plain(r) /\ r.pc = "authorize"
    <2>1. r.pc = "authorize"
      BY DEF Discovering, NoCall
    <2> QED
      BY <2>1, <1>3, NewDiscovery DEF ServerRows, Goals
  <1> HIDE DEF r
  <1>6. Ordinary /\ Untold /\ calls' \in [Calls -> CallRows]
    BY <1>4, <1>5, OneTurn DEF IInv, TInv, Turns, Plain
  <1>7. TInv' /\ IssuerGrows
    BY <1>3, <1>4, <1>6, OverlapType DEF IInv, TInv, IssuerGrows
  <1>8. \A d \in Calls : calls'[d].pc = "resealing" => calls[d].pc = "resealing"
    BY <1>4, <1>5 DEF IInv, TInv
  <1>9. ServerInv' /\ LateGrows
    BY <1>2, <1>3, <1>4, <1>7, <1>8, RowWritten
  <1>10. FitsStill
    BY <1>3, <1>4 DEF FitsStill
  <1> QED
    BY <1>4, <1>6, <1>7, <1>9, <1>10, Keeping DEF TokensKept, AttemptsStay

LEMMA addMcpServerStep == ASSUME IInv, NEW c \in Calls, NEW u \in Urls, addMcpServer(c, u) PROVE IInv'
  <1> DEFINE keeps == KeepsBearer(u)
             oauthStays == Exists /\ server.url = u /\ server.kind = "oauth"
             next == Saved(NewId, u, IF keeps THEN "bearer" ELSE IF oauthStays THEN "oauth" ELSE "none",
                           IF keeps THEN server.bearer ELSE None)
             r == Discovering("discover", next)
             cs == [calls EXCEPT ![c] = r]
  <1>1. server \in ServerRows /\ server.id \in Nat /\ lastId \in Nat /\ u # None
    BY McpAssumption DEF IInv, TInv, ServerRows
  <1>2. NewId \in Nat /\ server.bearer \in Urls \cup {None}
    BY <1>1 DEF NewId, ServerRows
  <1>3. next \in ServerRows /\ next.id = NewId /\ next.url = u /\ next.bearer = (IF keeps THEN server.bearer ELSE None)
        /\ next.kind = (IF keeps THEN "bearer" ELSE IF oauthStays THEN "oauth" ELSE "none")
    BY <1>1, <1>2 DEF Saved, ServerRows, Kinds, Statuses
  <1>4. server' = next /\ Overlap /\ Counted(NewId) /\ UNCHANGED <<oneOrigin, lastAttempt, issuer, issued, exchanges>>
    BY DEF addMcpServer
  <1>5. IF ~Exists \/ server.url # u THEN cleared(cs) ELSE calls' = cs /\ UNCHANGED <<oauth, attempts, inFlight>>
    BY DEF addMcpServer
  <1>6. lastId' \in Nat /\ IssuerGrows
    BY <1>1, <1>2, <1>4 DEF Counted, IssuerGrows, IInv, TInv
  <1>7. /\ server'.kind = "bearer" => server'.bearer # None
        /\ "rekey" \notin late /\ server'.bearer # None => server'.kind = "bearer" /\ (server'.url = server'.bearer \/ oneOrigin')
    <2>1. keeps => server.bearer # None /\ sameOrigin(server.url, u)
      BY DEF KeepsBearer
    <2>2. "rekey" \notin late /\ server.bearer # None => sameOrigin(server.url, server.bearer)
      BY DEF IInv, ServerInv
    <2> HIDE DEF keeps, next
    <2> QED
      BY <1>3, <1>4, <2>1, <2>2 DEF sameOrigin
  <1>8. FitsStill \/ ~Exists \/ server.url # u
    <2> SUFFICES ASSUME Exists, server.url = u, next.kind # "bearer"
                 PROVE  server.kind # "bearer" /\ next.id = server.id
      BY <1>3, <1>4 DEF FitsStill
    <2>1. ~keeps
      BY <1>3
    <2>2. server.bearer = None
      BY <2>1 DEF KeepsBearer, sameOrigin
    <2> QED
      BY <2>2, <1>3 DEF IInv, ServerInv, NewId
  <1> HIDE DEF next, keeps, oauthStays
  <1>9. r \in CallRows /\ Plain(r) /\ r.pc = "authorize"
    <2>1. r.pc = "authorize"
      BY DEF Discovering, NoCall
    <2> QED
      BY <2>1, <1>3, NewDiscovery DEF ServerRows, Goals
  <1> HIDE DEF r
  <1>10. CASE ~Exists \/ server.url # u
    <2>1. /\ oauth' = NoRow /\ attempts' = [a \in Attempts |-> NoAttempt] /\ inFlight' = None /\ calls' = bumpGeneration(cs)
      BY <1>5, <1>10 DEF cleared
    <2>2. Ordinary /\ Told /\ calls' \in [Calls -> CallRows] /\ calls'[c] = r
      BY <2>1, <1>9, BumpTurn DEF IInv, TInv, Turns, Plain
    <2>3. TInv'
      <3>1. oauth' \in OAuthRows
        BY <2>1, NoTokenIsNone DEF NoRow, OAuthRows
      <3>2. attempts' \in [Attempts -> [state : {"none", "open", "used"}, id : Nat, url : Urls \cup {None}, client : Nat]]
        BY <2>1 DEF NoAttempt
      <3> QED
        BY <1>3, <1>4, <1>6, <2>1, <2>2, <3>1, <3>2, OverlapType DEF IInv, TInv
    <2>4. \A d \in Calls : calls'[d].pc = "resealing" => calls[d].pc = "resealing"
      BY <2>1, <1>9 DEF bumpGeneration, IInv, TInv, CallRows
    <2>5. ServerInv' /\ LateGrows
      BY <1>4, <1>7, <2>3, <2>4, RowWritten
    <2> QED
      BY <1>4, <2>1, <2>2, <2>3, <2>5, Clearing DEF AttemptsStay, NoRow
  <1>11. CASE Exists /\ server.url = u
    <2>1. calls' = cs /\ UNCHANGED <<oauth, attempts, inFlight>>
      BY <1>5, <1>11
    <2>2. Ordinary /\ Untold /\ calls' \in [Calls -> CallRows]
      BY <2>1, <1>9, OneTurn DEF IInv, TInv, Turns, Plain
    <2>3. TInv'
      BY <1>3, <1>4, <1>6, <2>1, <2>2, OverlapType DEF IInv, TInv
    <2>4. \A d \in Calls : calls'[d].pc = "resealing" => calls[d].pc = "resealing"
      BY <2>1, <1>9 DEF IInv, TInv
    <2>5. ServerInv' /\ LateGrows
      BY <1>4, <1>7, <2>3, <2>4, RowWritten
    <2> QED
      BY <1>4, <1>6, <1>8, <1>11, <2>1, <2>2, <2>3, <2>5, Keeping DEF TokensKept, AttemptsStay
  <1> QED
    BY <1>10, <1>11

-----------------------------------------------------------------------------
(* Steps that clear tokens, and refreshes that end without any *)

LEMMA ClearedTypes ==
    /\ NoRow \in OAuthRows /\ NoRow.access = NoToken /\ NoRow.refresh = NoToken
    /\ [a \in Attempts |-> NoAttempt] \in [Attempts -> [state : {"none", "open", "used"}, id : Nat, url : Urls \cup {None}, client : Nat]]
    /\ NoServer \in ServerRows
    /\ \A row \in OAuthRows : clearedTokens(row) \in OAuthRows /\ clearedTokens(row).access = NoToken /\ clearedTokens(row).refresh = NoToken
    /\ \A row \in OAuthRows : clearedClient(row) \in OAuthRows /\ clearedClient(row).access = NoToken /\ clearedClient(row).refresh = NoToken
  <1>1. NoRow \in OAuthRows /\ NoRow.access = NoToken /\ NoRow.refresh = NoToken
    BY NoTokenIsNone DEF NoRow, OAuthRows
  <1>2. [a \in Attempts |-> NoAttempt] \in [Attempts -> [state : {"none", "open", "used"}, id : Nat, url : Urls \cup {None}, client : Nat]]
    BY DEF NoAttempt
  <1>3. NoServer \in ServerRows
    BY DEF NoServer, ServerRows, Kinds, Statuses
  <1>4. ASSUME NEW row \in OAuthRows
        PROVE  /\ clearedTokens(row) \in OAuthRows /\ clearedTokens(row).access = NoToken /\ clearedTokens(row).refresh = NoToken
               /\ clearedClient(row) \in OAuthRows /\ clearedClient(row).access = NoToken /\ clearedClient(row).refresh = NoToken
    BY <1>4, NoTokenIsNone DEF OAuthRows, clearedTokens, clearedClient
  <1> QED
    BY <1>1, <1>2, <1>3, <1>4

\* The server stays as it is, and so does the fence of its bearer.
LEMMA ServerUntouched ==
    ASSUME IInv, Ordinary, LateGrows, UNCHANGED <<server, oneOrigin>>
    PROVE  ServerInv' /\ FitsStill
  BY OrdinaryServer DEF ServerKept, IInv

LEMMA addWithBearerStep == ASSUME IInv, NEW c \in Calls, NEW u \in Urls, addWithBearer(c, u) PROVE IInv'
  <1> DEFINE r == [NoCall EXCEPT !.pc = "saving", !.id = NewId, !.url = u]
  <1>1. NewId \in Nat /\ u # None /\ lastId \in Nat
    BY McpAssumption DEF NewId, IInv, TInv, ServerRows
  <1>2. r \in CallRows /\ Plain(r)
    BY <1>1, NoCallPlain DEF NoCall, CallRows, Stages, Plain, Carried, Owning, Starting, Finishing, Refreshing
  <1>3. cleared([calls EXCEPT ![c] = r]) /\ Counted(NewId)
        /\ UNCHANGED <<server, oneOrigin, lastAttempt, issuer, issued, exchanges, late>>
    BY DEF addWithBearer, history
  <1> HIDE DEF r
  <1>4. Ordinary /\ Told /\ calls' \in [Calls -> CallRows]
    BY <1>2, <1>3, BumpTurn DEF cleared, IInv, TInv, Turns, Plain
  <1>5. TInv'
    BY <1>1, <1>3, <1>4, ClearedTypes DEF cleared, Counted, IInv, TInv
  <1>6. LateGrows /\ ServerInv'
    BY <1>3, <1>4, ServerUntouched DEF LateGrows
  <1> QED
    BY <1>3, <1>4, <1>5, <1>6, ClearedTypes, Clearing DEF cleared, AttemptsStay

LEMMA removeStep == ASSUME IInv, remove PROVE IInv'
  <1>1. cleared(calls) /\ server' = NoServer /\ Overlap
        /\ UNCHANGED <<lastId, oneOrigin, lastAttempt, issuer, issued, exchanges>>
    BY DEF remove
  <1>2. Ordinary /\ Told /\ calls' \in [Calls -> CallRows]
    BY <1>1, BumpAll DEF cleared, IInv, TInv
  <1>3. TInv'
    BY <1>1, <1>2, ClearedTypes, OverlapType DEF cleared, IInv, TInv
  <1>4. \A d \in Calls : calls'[d].pc = "resealing" => calls[d].pc = "resealing"
    BY <1>1 DEF cleared, bumpGeneration, IInv, TInv, CallRows
  <1>5. NoServer.kind # "bearer" /\ NoServer.bearer = None
    BY DEF NoServer
  <1>6. ServerInv' /\ LateGrows
    BY <1>1, <1>3, <1>4, <1>5, RowWritten
  <1> QED
    BY <1>1, <1>2, <1>3, <1>6, ClearedTypes, Clearing DEF cleared, AttemptsStay

LEMMA AuthUselessStep == ASSUME IInv, NEW c \in Calls, AuthUseless(c) PROVE IInv'
  <1> DEFINE q == calls[c]
             r == [q EXCEPT !.pc = "refused", !.result = "authenticating", !.access = NoToken]
  <1>1. q \in CallRows /\ q.pc = "reading" /\ oauth \in OAuthRows
    BY CallRow DEF IInv, TInv, AuthUseless, At
  <1>2. calls' = bumpGeneration([calls EXCEPT ![c] = r])
    BY DEF AuthUseless
  <1>3. Carried(q.refresh) /\ Carried(NoToken)
    BY <1>1 DEF Carried, Circulating
  <1> HIDE DEF q
  <1>4. r \in CallRows /\ Plain(r)
    BY <1>1, <1>3, NoTokenIsNone, ZenonT(40) DEF CallRows, Stages, Results, Statuses, Plain, Owning, Starting, Finishing, Refreshing
  <1> HIDE DEF r
  <1>5. Ordinary /\ Told /\ calls' \in [Calls -> CallRows]
    BY <1>2, <1>4, BumpTurn DEF IInv, TInv, Turns, Plain
  <1>6. oauth' = clearedTokens(oauth) /\ UNCHANGED <<server, lastId, oneOrigin, attempts, lastAttempt, inFlight, issuer, issued, exchanges, late>>
    BY DEF AuthUseless, history
  <1>7. TInv'
    BY <1>1, <1>5, <1>6, ClearedTypes DEF IInv, TInv
  <1>8. LateGrows /\ ServerInv'
    BY <1>5, <1>6, ServerUntouched DEF LateGrows
  <1> QED
    BY <1>1, <1>5, <1>6, <1>7, <1>8, ClearedTypes, Clearing DEF AttemptsStay

\* The refresh of c ended, for c and for those that waited.
LEMMA SettledCalls ==
    ASSUME IInv, NEW c \in Calls, Refreshing(calls[c]), NEW pc \in {"refused", "sending"}, NEW result \in Results,
           pc = "refused" => result \in Statuses, calls' = Settled(calls, c, pc, result), Released(c)
    PROVE  /\ calls' \in [Calls -> CallRows] /\ Ordinary /\ Untold
           /\ inFlight' \in Calls \cup {None}
           /\ inFlight' = inFlight \/ \E d \in Calls : inFlight = d /\ ~Refreshing(calls'[d])
  <1>1. /\ calls' \in [Calls -> CallRows] /\ ~Refreshing(calls'[c])
        /\ \A d \in Calls : Turns(calls[d], calls'[d]) /\ (calls'[d] = calls[d] \/ ~Refreshing(calls'[d]))
    BY SettledTurn DEF IInv, TInv
  <1>2. Ordinary /\ Untold
    BY <1>1 DEF Ordinary, Untold
  <1> QED
    BY <1>1, <1>2 DEF Released, IInv, TInv

LEMMA RefreshChangedStep == ASSUME IInv, NEW c \in Calls, RefreshChanged(c) PROVE IInv'
  <1>1. Refreshing(calls[c]) /\ calls' = Settled(calls, c, "refused", "authenticating") /\ Released(c)
        /\ UNCHANGED <<server, lastId, oneOrigin, oauth, attempts, lastAttempt, issuer, issued, exchanges, late>>
    BY DEF RefreshChanged, Refreshing, history
  <1>2. /\ calls' \in [Calls -> CallRows] /\ Ordinary /\ Untold /\ inFlight' \in Calls \cup {None}
        /\ inFlight' = inFlight \/ \E d \in Calls : inFlight = d /\ ~Refreshing(calls'[d])
    BY <1>1, SettledCalls DEF Results, Statuses
  <1>3. TInv' /\ IssuerGrows
    BY <1>1, <1>2 DEF IInv, TInv, IssuerGrows
  <1>4. LateGrows /\ ServerInv' /\ FitsStill
    BY <1>1, <1>2, ServerUntouched DEF LateGrows
  <1> QED
    BY <1>1, <1>2, <1>3, <1>4, Keeping DEF TokensKept, AttemptsStay

LEMMA RefreshFailsStep == ASSUME IInv, NEW c \in Calls, RefreshFails(c) PROVE IInv'
  <1> DEFINE t == calls[c].refresh
  <1>1. Refreshing(calls[c]) /\ calls' = Settled(calls, c, "refused", "error") /\ Released(c)
        /\ UNCHANGED <<server, lastId, oneOrigin, oauth, attempts, lastAttempt, issued, exchanges, late>>
    BY DEF RefreshFails, Refreshing, history, At
  <1>2. /\ calls' \in [Calls -> CallRows] /\ Ordinary /\ Untold /\ inFlight' \in Calls \cup {None}
        /\ inFlight' = inFlight \/ \E d \in Calls : inFlight = d /\ ~Refreshing(calls'[d])
    BY <1>1, SettledCalls DEF Results, Statuses
  <1>3. t \in Tokens /\ t # NoToken
    BY CallRow DEF RefreshFails, At, IInv, CodeInv, Form, CallRows
  <1>4. t.grant \in Attempts /\ t.seq \in Nat
    BY <1>3, NoTokenIsNone
  <1>5. issuer' = issuer \/ (issuer[t.grant] = t.seq /\ issuer' = [issuer EXCEPT ![t.grant] = t.seq + 1])
    BY DEF RefreshFails
  <1>6. issuer' \in [Attempts -> Nat] /\ IssuerGrows
    <2> HIDE DEF t
    <2>1. issuer \in [Attempts -> Nat]
      BY DEF IInv, TInv
    <2>2. CASE issuer' = issuer
      BY <2>1, <2>2 DEF IssuerGrows
    <2>3. CASE issuer[t.grant] = t.seq /\ issuer' = [issuer EXCEPT ![t.grant] = t.seq + 1]
      <3>1. \A a \in Attempts : issuer'[a] = IF a = t.grant THEN t.seq + 1 ELSE issuer[a]
        BY <2>1, <2>3, <1>4
      <3> QED
        BY <2>1, <2>3, <3>1, <1>4 DEF IssuerGrows
    <2> QED
      BY <1>5, <2>2, <2>3
  <1>7. TInv'
    BY <1>1, <1>2, <1>6 DEF IInv, TInv
  <1>8. LateGrows /\ ServerInv' /\ FitsStill
    BY <1>1, <1>2, ServerUntouched DEF LateGrows
  <1> QED
    BY <1>1, <1>2, <1>6, <1>7, <1>8, Keeping DEF TokensKept, AttemptsStay

LEMMA RefreshVoidStep == ASSUME IInv, NEW c \in Calls, RefreshVoid(c) PROVE IInv'
  <1> DEFINE cs == Settled(calls, c, "refused", "authenticating")
  <1>1. Refreshing(calls[c]) /\ oauth' = clearedTokens(oauth) /\ calls' = bumpGeneration(cs) /\ Released(c)
        /\ UNCHANGED <<server, lastId, oneOrigin, attempts, lastAttempt, issuer, issued, exchanges, late>>
    BY DEF RefreshVoid, Refreshing, At, history
  <1>2. /\ cs \in [Calls -> CallRows]
        /\ \A d \in Calls : Turns(calls[d], cs[d]) /\ (cs[d] = calls[d] \/ ~Refreshing(cs[d]))
    BY <1>1, SettledTurn DEF Results, Statuses, IInv, TInv
  <1> HIDE DEF cs
  <1>3. ASSUME NEW d \in Calls
        PROVE  calls'[d] \in CallRows /\ Turns(calls[d], calls'[d]) /\ (Refreshing(calls'[d]) => calls'[d].changed)
    <2>1. cs[d] \in CallRows /\ calls'[d] = IF Refreshing(cs[d]) THEN [cs[d] EXCEPT !.changed = TRUE] ELSE cs[d]
      BY <1>1, <1>2 DEF bumpGeneration, Refreshing
    <2>2. CASE Refreshing(cs[d])
      <3>1. cs[d] = calls[d]
        BY <1>2, <2>2
      <3> QED
        BY <2>1, <2>2, <3>1, ZenonT(40) DEF CallRows, Turns, Alike
    <2>3. CASE ~Refreshing(cs[d])
      BY <1>2, <2>1, <2>3
    <2> QED
      BY <2>2, <2>3
  <1>4. calls' \in [Calls -> CallRows] /\ Ordinary /\ Told
    BY <1>1, <1>3 DEF bumpGeneration, Ordinary, Told
  <1>5. inFlight' \in Calls \cup {None}
    BY <1>1 DEF Released, IInv, TInv
  <1>6. TInv'
    BY <1>1, <1>4, <1>5, ClearedTypes DEF IInv, TInv
  <1>7. LateGrows /\ ServerInv'
    BY <1>1, <1>4, ServerUntouched DEF LateGrows
  <1> QED
    BY <1>1, <1>4, <1>6, <1>7, ClearedTypes, Clearing DEF AttemptsStay, IInv, TInv

LEMMA clearClientStep == ASSUME IInv, NEW c \in Calls, clearClient(c) PROVE IInv'
  <1> DEFINE q == calls[c]
             goes(pc) == [q EXCEPT !.pc = pc]
  <1>1. q \in CallRows /\ q.pc = "clientclear" /\ oauth \in OAuthRows
    BY CallRow DEF IInv, TInv, clearClient, At
  <1>2. Carried(q.access) /\ Carried(q.refresh)
    BY <1>1 DEF Carried, Circulating
  <1>3. \A pc \in {"clientstore", "rediscover"} : goes(pc) \in CallRows /\ Plain(goes(pc))
    <2> HIDE DEF q
    <2> QED
      BY <1>1, <1>2 DEF CallRows, Stages, Plain, Owning, Starting, Finishing, Refreshing
  <1>4. UNCHANGED <<server, lastId, oneOrigin, attempts, lastAttempt, inFlight, issuer, issued, exchanges, late>>
    BY DEF clearClient, history
  <1>5. CASE calls[c].goal = "set" /\ ~Exists
    <2>1. calls' = [calls EXCEPT ![c] = NoCall] /\ UNCHANGED oauth
      BY <1>5 DEF clearClient, Ends
    <2> QED
      BY <1>4, <2>1, NoCallPlain, CallMoves DEF others, Turns, Plain
  <1>6. CASE ~(calls[c].goal = "set" /\ ~Exists)
    <2>1. oauth' = clearedClient(oauth)
      BY <1>6 DEF clearClient
    <2>2. PICK pc \in {"clientstore", "rediscover"} : calls' = bumpGeneration([calls EXCEPT ![c] = goes(pc)])
      BY <1>6 DEF clearClient
    <2> HIDE DEF goes
    <2>3. Ordinary /\ Told /\ calls' \in [Calls -> CallRows]
      BY <1>3, <2>2, BumpTurn DEF IInv, TInv, Turns, Plain
    <2>4. TInv'
      BY <1>1, <1>4, <2>1, <2>3, ClearedTypes DEF IInv, TInv
    <2>5. LateGrows /\ ServerInv'
      BY <1>4, <2>3, ServerUntouched DEF LateGrows
    <2> QED
      BY <1>1, <1>4, <2>1, <2>3, <2>4, <2>5, ClearedTypes, Clearing DEF AttemptsStay
  <1> QED
    BY <1>5, <1>6

\* A client is written, and the tokens stay.
LEMMA ClientWritten ==
    ASSUME IInv, NEW c \in Calls, NEW k \in Nat, NEW r \in CallRows, Turns(calls[c], r), ~Refreshing(r),
           oauth' = writeClient(oauth, k), calls' = [calls EXCEPT ![c] = r],
           UNCHANGED <<server, lastId, oneOrigin, attempts, lastAttempt, inFlight, issuer, issued, exchanges, late>>
    PROVE  IInv'
  <1>1. Ordinary /\ Untold /\ calls' \in [Calls -> CallRows]
    BY OneTurn DEF IInv, TInv
  <1>2. oauth' \in OAuthRows /\ TokensKept
    BY DEF writeClient, TokensKept, OAuthRows, IInv, TInv
  <1>3. server' \in ServerRows /\ ServerKept
    BY DEF ServerKept, IInv, TInv
  <1> QED
    BY <1>1, <1>2, <1>3, RowMoves

LEMMA setPreregisteredClientStep == ASSUME IInv, NEW c \in Calls, setPreregisteredClient(c) PROVE IInv'
  <1> DEFINE q == calls[c]
             r == [q EXCEPT !.pc = "rediscover"]
  <1>1. q \in CallRows /\ q.pc = "clientstore"
    BY CallRow DEF IInv, setPreregisteredClient, At
  <1>2. calls' = [calls EXCEPT ![c] = r] /\ oauth' = writeClient(oauth, Preregistered)
        /\ UNCHANGED <<server, lastId, oneOrigin, attempts, lastAttempt, inFlight, issuer, issued, exchanges, late>>
    BY DEF setPreregisteredClient, Goes, history
  <1>3. Carried(q.access) /\ Carried(q.refresh)
    BY <1>1 DEF Carried, Circulating
  <1> HIDE DEF q
  <1>4. r \in CallRows /\ Plain(r)
    BY <1>1, <1>3 DEF CallRows, Stages, Plain, Owning, Starting, Finishing, Refreshing
  <1>5. Preregistered \in Nat
    BY McpAssumption DEF Preregistered
  <1> HIDE DEF r
  <1> QED
    BY <1>2, <1>4, <1>5, ClientWritten DEF Turns, Plain

LEMMA StartStoreStep == ASSUME IInv, NEW c \in Calls, StartStore(c) PROVE IInv'
  <1> DEFINE q == calls[c]
             r == [q EXCEPT !.pc = "pending"]
  <1>1. q \in CallRows /\ q.pc = "storing" /\ q.client \in Nat
    BY CallRow DEF IInv, StartStore, At, CallRows
  <1>2. calls' = [calls EXCEPT ![c] = r] /\ oauth' = writeClient(oauth, q.client)
        /\ UNCHANGED <<server, lastId, oneOrigin, attempts, lastAttempt, inFlight, issuer, issued, exchanges, late>>
    BY DEF StartStore, Goes, history
  <1>3. r \in CallRows /\ Alike(q, r) /\ ~Refreshing(r)
    <2> HIDE DEF q
    <2> QED
      BY <1>1 DEF CallRows, Stages, Alike, Refreshing
  <1> HIDE DEF r
  <1> QED
    BY <1>1, <1>2, <1>3, ClientWritten DEF Turns

-----------------------------------------------------------------------------
(* The attempts of an authorization *)

\* A call moves to a stage of an attempt: what that leaves alone.
LEMMA AttemptMoves ==
    ASSUME IInv, NEW c \in Calls, NEW r \in CallRows, Form(r), ~Refreshing(r), r.pc \notin {"resealing", "complete"},
           Carried(r.access), Carried(r.refresh),
           calls' = [calls EXCEPT ![c] = r], UNCHANGED <<server, oneOrigin, oauth, inFlight, issuer, issued, late>>
    PROVE  /\ calls' \in [Calls -> CallRows] /\ CodeInv' /\ ServerInv' /\ FlightInv'
           /\ \A g \in Attempts : Circulating(g)' => Circulating(g)
           /\ TInv' => TokenInv'
  <1>1. calls' \in [Calls -> CallRows] /\ \A d \in Calls : calls'[d] = IF d = c THEN r ELSE calls[d]
    BY DEF IInv, TInv
  <1>2. CodeInv'
    BY <1>1 DEF IInv, CodeInv, Form, Owning, Starting, Finishing
  <1>3. ServerInv'
    BY <1>1 DEF IInv, ServerInv, sameOrigin
  <1>4. HoldersStay /\ Untold
    BY <1>1 DEF HoldersStay, Untold, Alike
  <1>5. FlightInv'
    BY <1>4, FlightStays DEF IInv
  <1>6. ASSUME NEW g \in Attempts, Circulating(g)'
        PROVE  Circulating(g)
    <2>1. g # 0 /\ NoToken.grant = 0
      BY McpAssumption DEF Attempts, NoToken
    <2>2. r.access.grant = g \/ r.refresh.grant = g => Circulating(g)
      BY <2>1 DEF Carried
    <2> QED
      BY <1>1, <1>6, <2>2 DEF Circulating
  <1>7. ASSUME TInv'
        PROVE  TokenInv'
    <2>1. LateGrows /\ TokensKept /\ IssuerGrows /\ FitsStill
      BY DEF LateGrows, TokensKept, IssuerGrows, FitsStill, IInv, TInv
    <2> QED
      BY <1>4, <1>7, <2>1, KeptTokens DEF IInv
  <1> QED
    BY <1>1, <1>2, <1>3, <1>5, <1>6, <1>7

LEMMA OwnersOnce ==
    ASSUME IInv, NEW c \in Calls, Owning(calls[c])
    PROVE  /\ calls[c].attempt \in Attempts /\ Live(calls[c].attempt) /\ ~Circulating(calls[c].attempt)
           /\ calls[c].attempt <= lastAttempt /\ attempts[calls[c].attempt].state # "open"
           /\ \A d \in Calls : Owning(calls[d]) /\ d # c => calls[d].attempt # calls[c].attempt
  <1>1. calls[c].attempt \in Attempts
    BY OwnersAttempt DEF IInv
  <1>2. Live(calls[c].attempt)
    BY DEF Live
  <1> QED
    BY <1>1, <1>2 DEF IInv, FreshInv, ClaimInv

LEMMA StartLoadStep == ASSUME IInv, NEW c \in Calls, StartLoad(c) PROVE IInv'
  <1>1. CASE lastAttempt' = lastAttempt
    <2>1. lastAttempt # lastAttempt + 1
      BY DEF IInv, TInv
    <2>2. calls' = [calls EXCEPT ![c] = NoCall] /\ UNCHANGED others
      BY <1>1, <2>1 DEF StartLoad, Ends, history, others
    <2> QED
      BY <2>2, NoCallPlain, CallMoves DEF Turns, Plain
  <1>2. CASE lastAttempt' # lastAttempt
    <2> DEFINE n == lastAttempt + 1
               q == calls[c]
               r(k) == [q EXCEPT !.pc = "begin", !.client = k, !.attempt = n]
    <2>1. lastAttempt < MaxAttempts /\ lastAttempt' = n
          /\ UNCHANGED <<server, lastId, oneOrigin, oauth, attempts, inFlight, issuer, issued, exchanges, late>>
      BY <1>2 DEF StartLoad, history
    <2>2. PICK k \in {n, oauth.client} \ {0} : calls' = [calls EXCEPT ![c] = r(k)]
      BY <1>2 DEF StartLoad
    <2>3. n \in Attempts /\ n > lastAttempt /\ k \in Nat /\ lastAttempt \in 0..MaxAttempts
      BY <2>1, McpAssumption DEF IInv, TInv, OAuthRows, Attempts
    <2>4. q \in CallRows /\ q.pc = "load"
      BY CallRow DEF IInv, StartLoad, At
    <2>5. Carried(q.access) /\ Carried(q.refresh)
      BY <2>4 DEF Carried, Circulating
    <2>6. n # 0 /\ n \in 0..MaxAttempts
      BY <2>3 DEF Attempts
    <2> HIDE DEF q, n
    <2>7. /\ r(k) \in CallRows /\ r(k).pc = "begin" /\ r(k).attempt = n /\ r(k).access = q.access /\ r(k).refresh = q.refresh
      BY <2>3, <2>4, <2>6 DEF CallRows, Stages
    <2> HIDE DEF r
    <2>8. Form(r(k)) /\ ~Refreshing(r(k))
      BY <2>7, <2>6 DEF Form, Owning, Starting, Finishing, Refreshing
    <2>9. /\ calls' \in [Calls -> CallRows] /\ CodeInv' /\ ServerInv' /\ FlightInv' /\ (TInv' => TokenInv')
          /\ \A g \in Attempts : Circulating(g)' => Circulating(g)
      BY <2>1, <2>2, <2>7, <2>8, <2>5, AttemptMoves
    <2>10. TInv' /\ TokenInv'
      BY <2>1, <2>3, <2>9, <2>6 DEF IInv, TInv
    <2>11. \A d \in Calls : calls'[d] = IF d = c THEN r(k) ELSE calls[d]
      BY <2>2 DEF IInv, TInv
    <2>12. \A d \in Calls : Owning(calls[d]) => calls[d].attempt \in Attempts /\ calls[d].attempt <= lastAttempt
      BY OwnersOnce
    <2>13. \A a \in Attempts : a > n => a > lastAttempt
      BY <2>3 DEF n, Attempts
    <2>14. ~(lastAttempt >= n) /\ \A a \in Attempts : a <= lastAttempt => a <= n /\ a # n
      BY <2>3 DEF n, Attempts
    <2>15. attempts[n].state # "open" /\ exchanges[n] = 0
      BY <2>3, <2>14 DEF IInv, ClaimInv, Attempts
    <2>16. ClaimInv'
      <3>1. \A a \in Attempts : attempts'[a].state = "open" => a <= lastAttempt'
        BY <2>1, <2>14 DEF IInv, ClaimInv
      <3>2. ASSUME NEW d \in Calls, Owning(calls'[d])
            PROVE  calls'[d].attempt <= lastAttempt' /\ attempts'[calls'[d].attempt].state # "open"
        BY <2>1, <2>3, <2>7, <2>11, <2>12, <2>14, <2>15, <3>2 DEF IInv, ClaimInv, Attempts
      <3>3. \A d, e \in Calls : Owning(calls'[d]) /\ Owning(calls'[e]) /\ calls'[d].attempt = calls'[e].attempt => d = e
        BY <2>7, <2>11, <2>12, <2>14 DEF IInv, ClaimInv
      <3>4. \A a \in Attempts : exchanges'[a] <= 1 /\ (a > lastAttempt' \/ attempts'[a].state = "open" => exchanges'[a] = 0)
        BY <2>1, <2>13 DEF IInv, ClaimInv
      <3>5. \A d \in Calls : Starting(calls'[d]) \/ calls'[d].pc = "claimed" => exchanges'[calls'[d].attempt] = 0
        BY <2>1, <2>7, <2>11, <2>15 DEF IInv, ClaimInv
      <3> QED
        BY <3>1, <3>2, <3>3, <3>4, <3>5 DEF ClaimInv, Owning, Starting, Finishing
    <2>17. ASSUME NEW a \in Attempts, Live(a)'
           PROVE  Live(a)
      <3>1. a = n => Live(a)
        BY <2>3 DEF Live
      <3>2. a > lastAttempt' \/ attempts'[a].state = "open" => Live(a)
        BY <2>1, <2>13 DEF Live
      <3>3. ASSUME NEW d \in Calls, Owning(calls'[d]), calls'[d].attempt = a
            PROVE  Live(a)
        BY <3>1, <3>3, <2>7, <2>11 DEF Live
      <3> QED
        BY <2>17, <3>2, <3>3 DEF Live, Owning, Starting, Finishing
    <2>18. FreshInv'
      BY <2>9, <2>17 DEF IInv, FreshInv
    <2> QED
      BY <2>9, <2>10, <2>16, <2>18 DEF IInv
  <1> QED
    BY <1>1, <1>2

LEMMA createPendingStep == ASSUME IInv, NEW c \in Calls, createPending(c) PROVE IInv'
  <1> DEFINE q == calls[c]
             n == q.attempt
             row == [state |-> "open", id |-> q.id, url |-> q.url, client |-> q.client]
  <1>1. attempts' = [attempts EXCEPT ![n] = row] /\ calls' = [calls EXCEPT ![c] = NoCall]
        /\ UNCHANGED <<server, lastId, oneOrigin, oauth, lastAttempt, inFlight, issuer, issued, exchanges, late>>
    BY DEF createPending, Ends, history
  <1>2. q \in CallRows /\ q.pc = "pending"
    BY CallRow DEF IInv, createPending, At
  <1>3. Starting(q) /\ Owning(q)
    BY <1>2 DEF Owning, Starting
  <1>4. n \in Attempts /\ n <= lastAttempt /\ Live(n) /\ \A d \in Calls : Owning(calls[d]) /\ d # c => calls[d].attempt # n
    BY <1>3, OwnersOnce
  <1>5. row \in [state : {"none", "open", "used"}, id : Nat, url : Urls \cup {None}, client : Nat]
    BY <1>2 DEF CallRows
  <1>6. ~Owning(NoCall) /\ ~Refreshing(NoCall) /\ NoCall.pc \notin {"resealing", "complete", "claimed"} /\ ~Starting(NoCall)
        /\ Form(NoCall) /\ Carried(NoCall.access) /\ Carried(NoCall.refresh)
    BY DEF NoCall, Owning, Starting, Finishing, Refreshing, Form, Carried
  <1>7. /\ calls' \in [Calls -> CallRows] /\ CodeInv' /\ ServerInv' /\ FlightInv' /\ (TInv' => TokenInv')
        /\ \A g \in Attempts : Circulating(g)' => Circulating(g)
    BY <1>1, <1>6, NoCallPlain, AttemptMoves
  <1> HIDE DEF row
  <1>8. TInv' /\ TokenInv'
    BY <1>1, <1>4, <1>5, <1>7 DEF IInv, TInv
  <1>9. \A d \in Calls : calls'[d] = IF d = c THEN NoCall ELSE calls[d]
    BY <1>1 DEF IInv, TInv
  <1>10. \A a \in Attempts : a # n => attempts'[a] = attempts[a]
    BY <1>1 DEF IInv, TInv
  <1>11. exchanges[n] = 0
    BY <1>3 DEF IInv, ClaimInv
  <1>12. \A d \in Calls : Owning(calls[d]) => calls[d].attempt \in Attempts
    BY OwnersOnce
  <1>13. ClaimInv'
    <2>1. \A a \in Attempts : attempts'[a].state = "open" => a <= lastAttempt'
      BY <1>1, <1>4, <1>10 DEF IInv, ClaimInv
    <2>2. \A d \in Calls : Owning(calls'[d]) => calls'[d].attempt <= lastAttempt' /\ attempts'[calls'[d].attempt].state # "open"
      BY <1>1, <1>4, <1>6, <1>9, <1>10, <1>12 DEF IInv, ClaimInv
    <2>3. \A d, e \in Calls : Owning(calls'[d]) /\ Owning(calls'[e]) /\ calls'[d].attempt = calls'[e].attempt => d = e
      BY <1>6, <1>9 DEF IInv, ClaimInv
    <2>4. \A a \in Attempts : exchanges'[a] <= 1 /\ (a > lastAttempt' \/ attempts'[a].state = "open" => exchanges'[a] = 0)
      BY <1>1, <1>10, <1>11 DEF IInv, ClaimInv
    <2>5. \A d \in Calls : Starting(calls'[d]) \/ calls'[d].pc = "claimed" => exchanges'[calls'[d].attempt] = 0
      BY <1>1, <1>6, <1>9 DEF IInv, ClaimInv
    <2> QED
      BY <2>1, <2>2, <2>3, <2>4, <2>5 DEF ClaimInv, Owning, Starting, Finishing
  <1>14. ASSUME NEW a \in Attempts, Live(a)'
         PROVE  Live(a)
    <2>1. a = n => Live(a)
      BY <1>4
    <2>2. a > lastAttempt' \/ attempts'[a].state = "open" => Live(a)
      BY <1>1, <1>10, <2>1 DEF Live
    <2>3. ASSUME NEW d \in Calls, Owning(calls'[d]), calls'[d].attempt = a
          PROVE  Live(a)
      BY <2>3, <1>6, <1>9 DEF Live
    <2> QED
      BY <1>14, <2>2, <2>3 DEF Live, Owning, Starting, Finishing
  <1>15. FreshInv'
    BY <1>7, <1>14 DEF IInv, FreshInv
  <1> QED
    BY <1>7, <1>8, <1>13, <1>15 DEF IInv

LEMMA claimPendingStep == ASSUME IInv, NEW c \in Calls, NEW n \in Attempts, claimPending(c, n) PROVE IInv'
  <1> DEFINE p == attempts[n]
             r == [NoCall EXCEPT !.pc = "claimed", !.attempt = n, !.id = p.id, !.url = p.url, !.client = p.client]
  <1>1. attempts' = [attempts EXCEPT ![n].state = "used"] /\ calls' = [calls EXCEPT ![c] = r] /\ p.state = "open"
        /\ UNCHANGED <<server, lastId, oneOrigin, oauth, lastAttempt, inFlight, issuer, issued, exchanges, late>>
    BY DEF claimPending, history
  <1>2. p.id \in Nat /\ p.url \in Urls \cup {None} /\ p.client \in Nat /\ n # 0 /\ n \in 0..MaxAttempts
    BY McpAssumption DEF IInv, TInv, Attempts
  <1>3. NoCall.access = NoToken /\ NoCall.refresh = NoToken
    BY DEF NoCall
  <1>4. n <= lastAttempt /\ Live(n) /\ exchanges[n] = 0 /\ \A d \in Calls : Owning(calls[d]) => calls[d].attempt # n
    BY <1>1 DEF IInv, ClaimInv, Live
  <1>5. r \in CallRows /\ r.pc = "claimed" /\ r.attempt = n /\ r.access = NoToken /\ r.refresh = NoToken
    <2> HIDE DEF p
    <2> QED
      BY <1>2, <1>3, NoCallPlain DEF CallRows, Stages
  <1> HIDE DEF r
  <1>6. Form(r) /\ ~Refreshing(r) /\ Carried(r.access) /\ Carried(r.refresh)
    BY <1>2, <1>5 DEF Form, Owning, Starting, Finishing, Refreshing, Carried
  <1>7. /\ calls' \in [Calls -> CallRows] /\ CodeInv' /\ ServerInv' /\ FlightInv' /\ (TInv' => TokenInv')
        /\ \A g \in Attempts : Circulating(g)' => Circulating(g)
    BY <1>1, <1>5, <1>6, AttemptMoves
  <1>8. TInv' /\ TokenInv'
    <2> DEFINE AttemptRows == [state : {"none", "open", "used"}, id : Nat, url : Urls \cup {None}, client : Nat]
    <2>1. attempts \in [Attempts -> AttemptRows]
      BY DEF IInv, TInv
    <2>2. [attempts[n] EXCEPT !.state = "used"] \in AttemptRows
      BY <2>1
    <2>3. attempts' = [attempts EXCEPT ![n] = [attempts[n] EXCEPT !.state = "used"]]
      BY <1>1
    <2> HIDE DEF AttemptRows
    <2>4. attempts' \in [Attempts -> AttemptRows]
      BY <2>1, <2>2, <2>3
    <2> QED
      BY <1>1, <1>7, <2>4 DEF IInv, TInv, AttemptRows
  <1>9. \A d \in Calls : calls'[d] = IF d = c THEN r ELSE calls[d]
    BY <1>1 DEF IInv, TInv
  <1>10. attempts'[n].state = "used" /\ \A a \in Attempts : a # n => attempts'[a] = attempts[a]
    BY <1>1 DEF IInv, TInv
  <1>11. \A d \in Calls : Owning(calls[d]) => calls[d].attempt \in Attempts
    BY OwnersOnce
  <1>12. ClaimInv'
    <2>1. \A a \in Attempts : attempts'[a].state = "open" => a <= lastAttempt'
      BY <1>1, <1>4, <1>10 DEF IInv, ClaimInv
    <2>2. \A d \in Calls : Owning(calls'[d]) => calls'[d].attempt <= lastAttempt' /\ attempts'[calls'[d].attempt].state # "open"
      BY <1>1, <1>4, <1>5, <1>9, <1>10, <1>11 DEF IInv, ClaimInv
    <2>3. \A d, e \in Calls : Owning(calls'[d]) /\ Owning(calls'[e]) /\ calls'[d].attempt = calls'[e].attempt => d = e
      BY <1>4, <1>5, <1>9 DEF IInv, ClaimInv
    <2>4. \A a \in Attempts : exchanges'[a] <= 1 /\ (a > lastAttempt' \/ attempts'[a].state = "open" => exchanges'[a] = 0)
      BY <1>1, <1>10, <1>4 DEF IInv, ClaimInv
    <2>5. \A d \in Calls : Starting(calls'[d]) \/ calls'[d].pc = "claimed" => exchanges'[calls'[d].attempt] = 0
      BY <1>1, <1>4, <1>5, <1>9 DEF IInv, ClaimInv
    <2> QED
      BY <2>1, <2>2, <2>3, <2>4, <2>5 DEF ClaimInv, Owning, Starting, Finishing
  <1>13. ASSUME NEW a \in Attempts, Live(a)'
         PROVE  Live(a)
    <2>1. a = n => Live(a)
      BY <1>4
    <2>2. a > lastAttempt' \/ attempts'[a].state = "open" => Live(a)
      BY <1>1, <1>10, <2>1 DEF Live
    <2>3. ASSUME NEW d \in Calls, Owning(calls'[d]), calls'[d].attempt = a
          PROVE  Live(a)
      BY <2>1, <2>3, <1>5, <1>9 DEF Live
    <2> QED
      BY <1>13, <2>2, <2>3 DEF Live, Owning, Starting, Finishing
  <1>14. FreshInv'
    BY <1>7, <1>13 DEF IInv, FreshInv
  <1> QED
    BY <1>7, <1>8, <1>12, <1>14 DEF IInv

LEMMA FinishCheckStep == ASSUME IInv, NEW c \in Calls, FinishCheck(c) PROVE IInv'
  <1> DEFINE q == calls[c]
             n == q.attempt
             r == [q EXCEPT !.pc = "exchange"]
  <1>1. q \in CallRows /\ q.pc = "claimed"
    BY CallRow DEF IInv, FinishCheck, At
  <1>2. Owning(q) /\ exchanges[n] = 0
    BY <1>1 DEF Owning, Finishing, IInv, ClaimInv
  <1>3. CASE exchanges' = exchanges
    <2>1. exchanges' # [exchanges EXCEPT ![n] = exchanges[n] + 1]
      <3>1. n \in Attempts /\ exchanges \in [Attempts -> Nat]
        BY <1>2, OwnersOnce DEF IInv, TInv
      <3> QED
        BY <3>1, <1>3
    <2>2. PICK x \in {NoCall, Deciding(q, "park")} : calls' = [calls EXCEPT ![c] = x]
      BY <2>1 DEF FinishCheck, Ends
    <2>3. x \in CallRows /\ Plain(x)
      BY <1>1, NoCallPlain, DecidingPlain DEF Results
    <2>4. UNCHANGED others
      BY <1>3 DEF FinishCheck, others
    <2> QED
      BY <2>2, <2>3, <2>4, CallMoves DEF Turns, Plain
  <1>4. CASE exchanges' # exchanges
    <2>1. exchanges' = [exchanges EXCEPT ![n] = exchanges[n] + 1] /\ calls' = [calls EXCEPT ![c] = r]
          /\ UNCHANGED <<server, lastId, oneOrigin, oauth, attempts, lastAttempt, inFlight, issuer, issued, late>>
      BY <1>4 DEF FinishCheck, Goes
    <2>2. n \in Attempts /\ n <= lastAttempt /\ attempts[n].state # "open" /\ \A d \in Calls : Owning(calls[d]) /\ d # c => calls[d].attempt # n
      BY <1>2, OwnersOnce
    <2>3. Carried(q.access) /\ Carried(q.refresh)
      BY <1>1 DEF Carried, Circulating
    <2>4. n # 0
      BY <2>2 DEF Attempts
    <2>5. r \in CallRows /\ r.pc = "exchange" /\ r.attempt = n /\ r.access = q.access /\ r.refresh = q.refresh
      <3> HIDE DEF q
      <3> QED
        BY <1>1 DEF CallRows, Stages
    <2> HIDE DEF r
    <2>6. Form(r) /\ ~Refreshing(r) /\ ~Starting(r)
      BY <2>5, <2>4 DEF Form, Owning, Starting, Finishing, Refreshing
    <2>7. /\ calls' \in [Calls -> CallRows] /\ CodeInv' /\ ServerInv' /\ FlightInv' /\ (TInv' => TokenInv')
          /\ \A g \in Attempts : Circulating(g)' => Circulating(g)
      BY <2>1, <2>5, <2>6, <2>3, AttemptMoves
    <2>8. exchanges' \in [Attempts -> Nat] /\ exchanges'[n] = 1 /\ \A a \in Attempts : a # n => exchanges'[a] = exchanges[a]
      <3>1. exchanges \in [Attempts -> Nat]
        BY DEF IInv, TInv
      <3> HIDE DEF n
      <3> QED
        BY <1>2, <2>1, <2>2, <3>1
    <2>9. TInv' /\ TokenInv'
      BY <2>1, <2>7, <2>8 DEF IInv, TInv
    <2>10. \A d \in Calls : calls'[d] = IF d = c THEN r ELSE calls[d]
      BY <2>1 DEF IInv, TInv
    <2>11. \A d \in Calls : Owning(calls[d]) => calls[d].attempt \in Attempts
      BY OwnersOnce
    <2>12. ~(n > lastAttempt)
      BY <2>2 DEF Attempts, IInv, TInv
    <2>13. ClaimInv'
      <3>1. \A a \in Attempts : attempts'[a].state = "open" => a <= lastAttempt'
        BY <2>1 DEF IInv, ClaimInv
      <3>2. \A d \in Calls : Owning(calls'[d]) => calls'[d].attempt <= lastAttempt' /\ attempts'[calls'[d].attempt].state # "open"
        BY <2>1, <2>2, <2>5, <2>10, <2>11 DEF IInv, ClaimInv
      <3>3. \A d, e \in Calls : Owning(calls'[d]) /\ Owning(calls'[e]) /\ calls'[d].attempt = calls'[e].attempt => d = e
        BY <2>2, <2>5, <2>10 DEF IInv, ClaimInv
      <3>4. \A a \in Attempts : exchanges'[a] <= 1 /\ (a > lastAttempt' \/ attempts'[a].state = "open" => exchanges'[a] = 0)
        BY <2>1, <2>2, <2>8, <2>12 DEF IInv, ClaimInv
      <3>5. ASSUME NEW d \in Calls, Starting(calls'[d]) \/ calls'[d].pc = "claimed"
            PROVE  exchanges'[calls'[d].attempt] = 0
        <4>1. d # c /\ calls'[d] = calls[d]
          BY <2>5, <2>6, <2>10, <3>5
        <4>2. Owning(calls[d])
          BY <4>1, <3>5 DEF Owning, Finishing
        <4> QED
          BY <2>2, <2>8, <2>11, <4>1, <4>2, <3>5 DEF IInv, ClaimInv
      <3> QED
        BY <3>1, <3>2, <3>3, <3>4, <3>5 DEF ClaimInv, Owning, Starting, Finishing
    <2>14. ASSUME NEW a \in Attempts, Live(a)'
           PROVE  Live(a)
      <3>1. a > lastAttempt' \/ attempts'[a].state = "open" => Live(a)
        BY <2>1 DEF Live
      <3>2. ASSUME NEW d \in Calls, Owning(calls'[d]), calls'[d].attempt = a
            PROVE  Live(a)
        BY <3>2, <1>2, <2>5, <2>10 DEF Live
      <3> QED
        BY <2>14, <3>1, <3>2 DEF Live, Owning, Starting, Finishing
    <2>15. FreshInv'
      BY <2>7, <2>14 DEF IInv, FreshInv
    <2> QED
      BY <2>7, <2>9, <2>13, <2>15 DEF IInv
  <1> QED
    BY <1>3, <1>4

LEMMA FinishExchangeStep == ASSUME IInv, NEW c \in Calls, FinishExchange(c) PROVE IInv'
  <1> DEFINE q == calls[c]
             n == q.attempt
             first == [grant |-> n, seq |-> 1]
             r(t) == [q EXCEPT !.pc = "complete", !.access = first, !.refresh = t]
  <1>1. q \in CallRows /\ q.pc = "exchange"
    BY CallRow DEF IInv, FinishExchange, At
  <1>2. Owning(q)
    BY <1>1 DEF Owning, Finishing
  <1>3. /\ n \in Attempts /\ Live(n) /\ ~Circulating(n) /\ n <= lastAttempt /\ attempts[n].state # "open"
        /\ \A d \in Calls : Owning(calls[d]) /\ d # c => calls[d].attempt # n
    BY <1>2, OwnersOnce
  <1>4. UNCHANGED <<server, lastId, oneOrigin, oauth, attempts, lastAttempt, inFlight, exchanges, late>>
    BY DEF FinishExchange
  <1>5. CASE calls' = [calls EXCEPT ![c] = Deciding(q, "park")] /\ UNCHANGED <<issuer, issued>>
    <2>1. Deciding(q, "park") \in CallRows /\ Plain(Deciding(q, "park"))
      BY <1>1, DecidingPlain DEF Results
    <2> QED
      BY <1>4, <1>5, <2>1, CallMoves DEF Turns, Plain, others
  <1>6. CASE /\ issuer' = [issuer EXCEPT ![n] = 1]
             /\ issued' = [issued EXCEPT ![n] = [id |-> q.id, url |-> q.url]]
             /\ \E x \in {0, 1} : calls' = [calls EXCEPT ![c] = r(IF x = 1 THEN first ELSE NoToken)]
    <2>1. PICK t \in {first, NoToken} : calls' = [calls EXCEPT ![c] = r(t)]
      BY <1>6
    <2>2. first \in Tokens /\ NoToken \in Tokens /\ first # NoToken /\ first.grant = n /\ first.seq = 1 /\ n # 0
      BY <1>3, NoTokenIsNone DEF Tokens, Attempts, NoToken
    <2> HIDE DEF first
    <2>3. /\ r(t) \in CallRows /\ r(t).pc = "complete" /\ r(t).attempt = n /\ r(t).id = q.id /\ r(t).url = q.url
          /\ r(t).access = first /\ r(t).refresh = t
      <3> HIDE DEF q, first
      <3> QED
        BY <1>1, <2>1, <2>2 DEF CallRows, Stages
    <2>4. Form(r(t)) /\ ~Refreshing(r(t)) /\ Owning(r(t)) /\ ~Starting(r(t))
      <3>1. r(t).refresh \in {NoToken, r(t).access} /\ r(t).access = [grant |-> r(t).attempt, seq |-> 1]
        BY <2>1, <2>3 DEF first
      <3> HIDE DEF r
      <3> QED
        BY <2>2, <2>3, <3>1 DEF Form, Owning, Starting, Finishing, Refreshing
    <2>5. ~Refreshing(q)
      BY <1>1 DEF Refreshing
    <2>6. [id |-> q.id, url |-> q.url] \in [id : Nat, url : Urls \cup {None}]
      BY <1>1 DEF CallRows
    <2>7. issuer \in [Attempts -> Nat] /\ issued \in [Attempts -> [id : Nat, url : Urls \cup {None}]]
      BY DEF IInv, TInv
    <2> HIDE DEF r, n
    <2>8. calls' \in [Calls -> CallRows] /\ \A d \in Calls : calls'[d] = IF d = c THEN r(t) ELSE calls[d]
      BY <2>1, <2>3 DEF IInv, TInv
    <2>9. /\ issuer' \in [Attempts -> Nat] /\ issuer'[n] = 1 /\ \A a \in Attempts : a # n => issuer'[a] = issuer[a]
          /\ issued' \in [Attempts -> [id : Nat, url : Urls \cup {None}]]
          /\ issued'[n] = [id |-> q.id, url |-> q.url] /\ \A a \in Attempts : a # n => issued'[a] = issued[a]
      <3> HIDE DEF q
      <3> QED
        BY <1>3, <1>6, <2>6, <2>7
    <2>10. TInv'
      BY <1>4, <2>8, <2>9 DEF IInv, TInv
    <2>11. CodeInv'
      BY <2>4, <2>8 DEF IInv, CodeInv, Form, Owning, Starting, Finishing
    <2>12. ServerInv'
      BY <1>4, <2>3, <2>8 DEF IInv, ServerInv, sameOrigin
    <2>13. OwnersStay
      BY <1>2, <2>3, <2>4, <2>8 DEF OwnersStay, n
    <2>14. ClaimInv' /\ \A a \in Attempts : Live(a)' => Live(a)
      BY <1>4, <2>10, <2>13, ClaimStays DEF IInv, AttemptsStay
    <2>15. FreshInv'
      <3>1. \A g \in Attempts : Circulating(g)' => Circulating(g)
        BY <1>4, <2>3, <2>8 DEF Circulating
      <3> QED
        BY <2>14, <3>1 DEF IInv, FreshInv
    <2>16. \A d \in Calls : Refreshing(calls'[d]) => Refreshing(calls[d]) /\ calls'[d] = calls[d]
      BY <2>4, <2>8
    <2>17. FlightInv'
      BY <1>4, <2>16 DEF IInv, FlightInv, Refreshing
    <2>18. ASSUME "tokens" \notin late'
           PROVE  StoreInv' /\ SeqInv' /\ HeldInv'
      <3>1. StoreInv /\ SeqInv /\ HeldInv
        BY <1>4, <2>18 DEF IInv, TokenInv
      <3>2. oauth \in OAuthRows /\ oauth.access \in Tokens /\ oauth.refresh \in Tokens /\ oauth.access.grant # n /\ oauth.refresh.grant # n
        BY <1>3 DEF Circulating, IInv, TInv, OAuthRows
      <3>3. \A d \in Calls : calls[d].pc = "complete" /\ d # c => calls[d].attempt # n /\ calls[d].attempt \in Attempts
        BY <1>3, OwnersOnce DEF Owning, Finishing
      <3>4. StoreInv'
        <4>1. server'.kind # "bearer" /\ oauth'.access # NoToken => issued'[oauth'.access.grant] = [id |-> server'.id, url |-> server'.url]
          <5>1. oauth.access # NoToken => oauth.access.grant \in Attempts
            BY <3>2, NoTokenIsNone
          <5> QED
            BY <1>4, <2>9, <3>1, <3>2, <5>1 DEF StoreInv
        <4>2. ASSUME NEW d \in Calls, calls'[d].pc = "complete"
              PROVE  issued'[calls'[d].attempt] = [id |-> calls'[d].id, url |-> calls'[d].url]
          <5>1. CASE d = c
            <6>1. calls'[d].attempt = n /\ calls'[d].id = q.id /\ calls'[d].url = q.url
              BY <5>1, <2>3, <2>8
            <6> QED
              BY <6>1, <2>9
          <5>2. CASE d # c
            <6>1. calls'[d] = calls[d] /\ calls[d].pc = "complete"
              BY <4>2, <5>2, <2>8
            <6>2. calls[d].attempt # n /\ calls[d].attempt \in Attempts
              BY <3>3, <5>2, <6>1
            <6>3. issued[calls[d].attempt] = [id |-> calls[d].id, url |-> calls[d].url]
              BY <3>1, <6>1 DEF StoreInv
            <6> QED
              BY <2>9, <6>1, <6>2, <6>3
          <5> QED
            BY <5>1, <5>2
        <4> QED
          BY <1>4, <3>1, <4>1, <4>2 DEF StoreInv
      <3>5. SeqInv'
        <4>1. ASSUME NEW t2 \in Tokens, Minted(t2), t2.grant # n
              PROVE  Minted(t2)'
          <5>1. t2 # NoToken => t2.grant \in Attempts
            BY NoTokenIsNone
          <5> QED
            BY <2>9, <4>1, <5>1 DEF Minted
        <4>2. Minted(oauth.refresh)'
          BY <1>4, <3>1, <3>2, <4>1 DEF SeqInv
        <4>3. ASSUME NEW d \in Calls, Refreshing(calls'[d])
              PROVE  Minted(calls[d].refresh)'
          <5>1. Refreshing(calls[d]) /\ calls'[d] = calls[d]
            BY <2>16, <4>3
          <5>2. calls[d].refresh.grant # n
            BY <1>3, <5>1 DEF Circulating, Refreshing
          <5>3. calls[d].refresh \in Tokens
            BY CallRow DEF IInv, CallRows
          <5> QED
            BY <3>1, <4>1, <5>1, <5>2, <5>3 DEF SeqInv
        <4>4. ASSUME NEW d \in Calls, calls'[d].pc = "complete"
              PROVE  issuer'[calls'[d].attempt] >= 1
          BY <4>4, <2>3, <2>8, <2>9, <3>1, <3>3 DEF SeqInv
        <4> QED
          BY <4>2, <4>3, <4>4 DEF SeqInv, Refreshing
      <3>6. HeldInv'
        <4>1. \A d \in Calls : Current(calls[d])' /\ Apart(calls[d])'
          BY <1>4, <2>16, <3>1 DEF HeldInv, Current, Apart, Refreshing
        <4>2. ASSUME NEW d \in Calls, NEW e \in Calls, Refreshing(calls'[d]), Refreshing(calls'[e]),
                     calls'[d].refresh # NoToken, calls'[d].refresh = calls'[e].refresh
              PROVE  d = e
          BY <2>16, <3>1, <4>2 DEF HeldInv
        <4> QED
          BY <4>1, <4>2 DEF HeldInv, Refreshing
      <3> QED
        BY <3>4, <3>5, <3>6
    <2>19. TokenInv'
      BY <2>18 DEF TokenInv
    <2> QED
      BY <2>10, <2>11, <2>12, <2>14, <2>15, <2>17, <2>19 DEF IInv
  <1> QED
    BY <1>5, <1>6 DEF FinishExchange

-----------------------------------------------------------------------------
(* The steps of a refresh, and the first tokens of a grant *)

LEMMA RefreshBeginStep == ASSUME IInv, NEW c \in Calls, RefreshBegin(c) PROVE IInv'
  <1> DEFINE q == calls[c]
             r == [q EXCEPT !.pc = "client", !.client = oauth.client, !.changed = FALSE]
  <1>1. /\ q.pc = "reading" /\ q.refresh # NoToken /\ inFlight = None /\ inFlight' = c /\ calls' = [calls EXCEPT ![c] = r]
        /\ late' = IF q.refresh # oauth.refresh THEN late \cup {"tokens"} ELSE late
        /\ UNCHANGED <<server, lastId, oneOrigin, oauth, attempts, lastAttempt, issuer, issued, exchanges>>
    BY DEF RefreshBegin, At
  <1>2. q \in CallRows /\ oauth.client \in Nat
    BY CallRow DEF IInv, TInv, OAuthRows
  <1>3. r \in CallRows /\ r.pc = "client" /\ r.access = q.access /\ r.refresh = q.refresh /\ ~r.changed
    <2> HIDE DEF q
    <2> QED
      BY <1>2 DEF CallRows, Stages
  <1> HIDE DEF r
  <1>4. Form(r) /\ ~Owning(r) /\ ~Owning(q) /\ Refreshing(r) /\ ~Refreshing(q)
    BY <1>1, <1>3 DEF Form, Owning, Starting, Finishing, Refreshing
  <1>5. calls' \in [Calls -> CallRows] /\ \A d \in Calls : calls'[d] = IF d = c THEN r ELSE calls[d]
    BY <1>1, <1>3 DEF IInv, TInv
  <1>6. TInv'
    BY <1>1, <1>5 DEF IInv, TInv
  <1>7. CodeInv'
    BY <1>4, <1>5 DEF IInv, CodeInv, Form, Owning, Starting, Finishing
  <1>8. ServerInv'
    BY <1>1, <1>3, <1>5 DEF IInv, ServerInv, sameOrigin
  <1>9. OwnersStay
    BY <1>3, <1>4, <1>5 DEF OwnersStay, Owning
  <1>10. ClaimInv' /\ \A a \in Attempts : Live(a)' => Live(a)
    BY <1>1, <1>6, <1>9, ClaimStays DEF IInv, AttemptsStay
  <1>11. FreshInv'
    <2>1. \A g \in Attempts : Circulating(g)' => Circulating(g)
      BY <1>1, <1>3, <1>5 DEF Circulating
    <2> QED
      BY <1>10, <2>1 DEF IInv, FreshInv
  <1>12. \A d \in Calls : Refreshing(calls[d]) => calls[d].changed
    BY <1>1, McpAssumption DEF IInv, FlightInv
  <1>13. FlightInv'
    BY <1>1, <1>4, <1>5, <1>12 DEF FlightInv, Refreshing
  <1>14. ASSUME "tokens" \notin late'
         PROVE  StoreInv' /\ SeqInv' /\ HeldInv'
    <2>1. "tokens" \notin late /\ r.refresh = oauth.refresh /\ oauth.refresh # NoToken
      BY <1>1, <1>3, <1>14
    <2>2. StoreInv /\ SeqInv /\ HeldInv
      BY <2>1 DEF IInv, TokenInv
    <2>3. StoreInv'
      BY <1>1, <1>3, <1>5, <2>2 DEF StoreInv
    <2>4. SeqInv'
      <3>1. \A d \in Calls : Refreshing(calls'[d]) => Minted(calls[d].refresh)'
        BY <1>1, <1>4, <1>5, <2>1, <2>2 DEF SeqInv, Minted
      <3>2. \A d \in Calls : calls'[d].pc = "complete" => issuer'[calls'[d].attempt] >= 1
        BY <1>1, <1>3, <1>5, <2>2 DEF SeqInv
      <3> QED
        BY <1>1, <2>2, <3>1, <3>2 DEF SeqInv, Minted, Refreshing
    <2>5. HeldInv'
      <3>1. ASSUME NEW d \in Calls
            PROVE  Current(calls[d])' /\ Apart(calls[d])'
        <4>1. CASE d = c
          BY <1>1, <1>3, <1>5, <2>1, <4>1 DEF Current, Apart
        <4>2. CASE d # c
          BY <1>1, <1>5, <1>12, <2>2, <4>2 DEF HeldInv, Current, Apart, Refreshing
        <4> QED
          BY <4>1, <4>2
      <3>2. \A d \in Calls : Refreshing(calls[d]) /\ calls[d].refresh # NoToken => calls[d].refresh # oauth.refresh
        BY <1>12, <2>2 DEF HeldInv, Apart
      <3>3. ASSUME NEW d \in Calls, NEW e \in Calls, Refreshing(calls'[d]), Refreshing(calls'[e]),
                   calls'[d].refresh # NoToken, calls'[d].refresh = calls'[e].refresh
            PROVE  d = e
        BY <1>5, <2>1, <2>2, <3>2, <3>3 DEF HeldInv
      <3> QED
        BY <3>1, <3>3 DEF HeldInv, Refreshing
    <2> QED
      BY <2>3, <2>4, <2>5
  <1>15. TokenInv'
    BY <1>14 DEF TokenInv
  <1> QED
    BY <1>6, <1>7, <1>8, <1>10, <1>11, <1>13, <1>15 DEF IInv

LEMMA RefreshAnsweredStep == ASSUME IInv, NEW c \in Calls, RefreshAnswered(c) PROVE IInv'
  <1> DEFINE q == calls[c]
             t == q.refresh
             new == [t EXCEPT !.seq = t.seq + 1]
             r(f) == [q EXCEPT !.pc = "sealing", !.access = new, !.refresh = f]
  <1>1. q.pc = "asked" /\ issuer[t.grant] = t.seq
        /\ UNCHANGED <<server, lastId, oneOrigin, oauth, attempts, lastAttempt, inFlight, issued, exchanges, late>>
    BY DEF RefreshAnswered, At, history
  <1>2. PICK f \in {new, NoToken} : /\ calls' = [calls EXCEPT ![c] = r(f)]
                                    /\ issuer' = IF f = new THEN [issuer EXCEPT ![t.grant] = t.seq + 1] ELSE issuer
    <2>1. new # NoToken
      <3>1. t \in Tokens /\ t # NoToken
        BY <1>1, CallRow DEF IInv, CodeInv, Form, CallRows
      <3>2. t.grant \in Attempts /\ t.seq \in Nat /\ t = [grant |-> t.grant, seq |-> t.seq]
        BY <3>1, NoTokenIsNone
      <3>3. new.seq = t.seq + 1
        BY <3>2
      <3> QED
        BY <3>2, <3>3 DEF NoToken
    <2>2. PICK rotates \in BOOLEAN :
             /\ issuer' = IF rotates THEN [issuer EXCEPT ![t.grant] = t.seq + 1] ELSE issuer
             /\ calls' = [calls EXCEPT ![c].pc = "sealing", ![c].access = new, ![c].refresh = IF rotates THEN new ELSE NoToken]
      BY DEF RefreshAnswered
    <2> HIDE DEF new
    <2>3. calls' = [calls EXCEPT ![c] = r(IF rotates THEN new ELSE NoToken)]
      BY <2>2
    <2> HIDE DEF r
    <2> QED
      BY <2>1, <2>2, <2>3
  <1>3. q \in CallRows /\ t \in Tokens /\ t # NoToken
    BY <1>1, CallRow DEF IInv, CodeInv, Form, CallRows
  <1>4. t.grant \in Attempts /\ t.seq \in Nat /\ t = [grant |-> t.grant, seq |-> t.seq] /\ t.grant # 0
    BY <1>3, NoTokenIsNone DEF Attempts
  <1>5. new = [grant |-> t.grant, seq |-> t.seq + 1]
    BY <1>4
  <1>6. new \in Tokens /\ new # NoToken /\ new.grant = t.grant /\ new.seq = t.seq + 1 /\ NoToken \in Tokens
    BY <1>4, <1>5, NoTokenIsNone DEF Tokens, NoToken
  <1> HIDE DEF new
  <1>7. r(f) \in CallRows /\ r(f).pc = "sealing" /\ r(f).access = new /\ r(f).refresh = f /\ r(f).changed = q.changed
    <2> HIDE DEF q, t
    <2> QED
      BY <1>2, <1>3, <1>6 DEF CallRows, Stages
  <1> HIDE DEF r
  <1>8. Form(r(f)) /\ ~Owning(r(f)) /\ Refreshing(r(f)) /\ Refreshing(q)
    BY <1>1, <1>6, <1>7 DEF Form, Owning, Starting, Finishing, Refreshing
  <1>9. calls' \in [Calls -> CallRows] /\ \A d \in Calls : calls'[d] = IF d = c THEN r(f) ELSE calls[d]
    BY <1>2, <1>7 DEF IInv, TInv
  <1>10. issuer' \in [Attempts -> Nat] /\ IssuerGrows /\ (f = new => issuer'[t.grant] = t.seq + 1)
    <2>1. issuer \in [Attempts -> Nat]
      BY DEF IInv, TInv
    <2> HIDE DEF t
    <2>2. CASE f = new
      <3>1. \A a \in Attempts : issuer'[a] = IF a = t.grant THEN t.seq + 1 ELSE issuer[a]
        BY <2>1, <2>2, <1>2, <1>4
      <3> QED
        BY <2>1, <2>2, <3>1, <1>1, <1>2, <1>4 DEF IssuerGrows
    <2>3. CASE f # new
      BY <2>1, <2>3, <1>2 DEF IssuerGrows
    <2> QED
      BY <2>2, <2>3
  <1>11. TInv'
    BY <1>1, <1>9, <1>10 DEF IInv, TInv
  <1>12. CodeInv'
    BY <1>8, <1>9 DEF IInv, CodeInv, Form, Owning, Starting, Finishing
  <1>13. ServerInv'
    BY <1>1, <1>7, <1>9 DEF IInv, ServerInv, sameOrigin
  <1>14. OwnersStay
    BY <1>7, <1>8, <1>9 DEF OwnersStay, Owning
  <1>15. ClaimInv' /\ \A a \in Attempts : Live(a)' => Live(a)
    BY <1>1, <1>11, <1>14, ClaimStays DEF IInv, AttemptsStay
  <1>16. FreshInv'
    <2>1. Circulating(t.grant)
      BY <1>1 DEF Circulating
    <2>2. \A g \in Attempts : f.grant = g => g = t.grant
      BY <1>2, <1>6 DEF NoToken, Attempts
    <2>3. \A g \in Attempts : Circulating(g)' => Circulating(g)
      BY <1>1, <1>6, <1>7, <1>9, <2>1, <2>2 DEF Circulating
    <2> QED
      BY <1>15, <2>3 DEF IInv, FreshInv
  <1>17. FlightInv'
    BY <1>1, <1>7, <1>8, <1>9 DEF IInv, FlightInv, Refreshing
  <1>18. ASSUME "tokens" \notin late'
         PROVE  StoreInv' /\ SeqInv' /\ HeldInv'
    <2>1. StoreInv /\ SeqInv /\ HeldInv
      BY <1>1, <1>18 DEF IInv, TokenInv
    <2>2. StoreInv'
      BY <1>1, <1>7, <1>9, <2>1 DEF StoreInv
    <2>3. ASSUME NEW u \in Tokens, Minted(u)
          PROVE  Minted(u)' /\ (u # NoToken /\ f = new => u # new)
      <3>1. u # NoToken => u.grant \in Attempts /\ u.seq \in Nat
        BY NoTokenIsNone
      <3>2. u # NoToken => issuer[u.grant] \in Nat /\ issuer'[u.grant] \in Nat /\ issuer'[u.grant] >= issuer[u.grant] /\ u.seq <= issuer[u.grant]
        BY <1>10, <2>3, <3>1 DEF IInv, TInv, IssuerGrows, Minted
      <3>3. Minted(u)'
        BY <3>1, <3>2 DEF Minted
      <3>4. u # NoToken => u # new
        BY <1>1, <1>4, <1>6, <3>1, <3>2
      <3> QED
        BY <3>3, <3>4
    <2>4. oauth.refresh \in Tokens /\ Minted(oauth.refresh) /\ \A d \in Calls : calls[d].refresh \in Tokens /\ (Refreshing(calls[d]) => Minted(calls[d].refresh))
      BY <2>1 DEF IInv, TInv, OAuthRows, CallRows, SeqInv
    <2>5. SeqInv'
      <3>1. ASSUME NEW d \in Calls, Refreshing(calls'[d])
            PROVE  Minted(calls[d].refresh)'
        <4>1. CASE d = c
          <5>1. calls'[d].refresh = f /\ (f = NoToken \/ (f = new /\ issuer'[f.grant] = f.seq /\ f.seq \in Nat))
            BY <1>2, <1>4, <1>6, <1>7, <1>9, <1>10, <4>1
          <5> QED
            BY <5>1 DEF Minted
        <4>2. CASE d # c
          BY <1>9, <2>3, <2>4, <3>1, <4>2
        <4> QED
          BY <4>1, <4>2
      <3>2. ASSUME NEW d \in Calls, calls'[d].pc = "complete"
            PROVE  issuer'[calls'[d].attempt] >= 1
        <4>1. calls'[d] = calls[d] /\ calls[d].pc = "complete"
          BY <1>7, <1>9, <3>2
        <4>2. calls[d].attempt \in Attempts /\ issuer[calls[d].attempt] >= 1
          BY <2>1, <4>1, OwnersOnce DEF Owning, Finishing, SeqInv
        <4>3. issuer'[calls[d].attempt] >= issuer[calls[d].attempt] /\ issuer'[calls[d].attempt] \in Nat /\ issuer[calls[d].attempt] \in Nat
          BY <1>10, <4>2 DEF IssuerGrows, IInv, TInv
        <4> QED
          BY <4>1, <4>2, <4>3
      <3>3. Minted(oauth.refresh)'
        BY <1>1, <2>3, <2>4
      <3> QED
        BY <3>1, <3>2, <3>3 DEF SeqInv, Refreshing
    <2>6. HeldInv'
      <3>1. ASSUME NEW d \in Calls
            PROVE  Current(calls[d])' /\ Apart(calls[d])'
        <4>1. CASE d = c
          <5>1. Current(calls[c])'
            <6>1. ~q.changed => t = oauth.refresh
              BY <1>1, <2>1, <1>8 DEF HeldInv, Current
            <6>2. f.grant \in {0, t.grant}
              BY <1>2, <1>6 DEF NoToken
            <6> QED
              BY <1>1, <1>3, <1>6, <1>7, <1>9, <6>1, <6>2 DEF Current
          <5>2. Apart(calls[c])'
            <6>1. f = new => oauth.refresh # new
              BY <2>3, <2>4, <1>6
            <6> QED
              BY <1>1, <1>2, <1>7, <1>9, <6>1 DEF Apart
          <5> QED
            BY <4>1, <5>1, <5>2
        <4>2. CASE d # c
          BY <1>1, <1>9, <2>1, <4>2 DEF HeldInv, Current, Apart, Refreshing
        <4> QED
          BY <4>1, <4>2
      <3>2. \A d \in Calls : d # c /\ Refreshing(calls[d]) /\ calls[d].refresh # NoToken => calls[d].refresh # f
        BY <1>2, <2>3, <2>4
      <3>3. ASSUME NEW d \in Calls, NEW e \in Calls, Refreshing(calls'[d]), Refreshing(calls'[e]),
                   calls'[d].refresh # NoToken, calls'[d].refresh = calls'[e].refresh
            PROVE  d = e
        BY <1>7, <1>9, <2>1, <3>2, <3>3 DEF HeldInv
      <3> QED
        BY <3>1, <3>3 DEF HeldInv, Refreshing
    <2> QED
      BY <2>2, <2>5, <2>6
  <1>19. TokenInv'
    BY <1>18 DEF TokenInv
  <1> QED
    BY <1>11, <1>12, <1>13, <1>15, <1>16, <1>17, <1>19 DEF IInv

LEMMA RefreshWriteStep == ASSUME IInv, NEW c \in Calls, RefreshWrite(c) PROVE IInv'
  <1> DEFINE a == calls[c].access
             f == calls[c].refresh
  <1>1. /\ calls[c].pc = "sealing" /\ ~calls[c].changed /\ oauth' = Refreshed(oauth, a, f)
        /\ calls' = Settled(calls, c, "sending", "none") /\ Released(c)
        /\ UNCHANGED <<server, lastId, oneOrigin, attempts, lastAttempt, issuer, issued, exchanges, late>>
    BY DEF RefreshWrite, At, Changed, history
  <1>2. Refreshing(calls[c]) /\ a # NoToken /\ a \in Tokens /\ f \in Tokens
    BY <1>1, CallRow DEF Refreshing, IInv, CodeInv, Form, CallRows
  <1>3. /\ calls' \in [Calls -> CallRows] /\ Ordinary /\ Untold /\ inFlight' \in Calls \cup {None}
        /\ inFlight' = inFlight \/ \E d \in Calls : inFlight = d /\ ~Refreshing(calls'[d])
    BY <1>1, <1>2, SettledCalls DEF Results
  <1>4. oauth \in OAuthRows
    BY DEF IInv, TInv
  <1>5. oauth' \in OAuthRows /\ oauth'.access = a /\ oauth'.refresh = IF f = NoToken THEN oauth.refresh ELSE f
    <2> HIDE DEF a, f
    <2> QED
      BY <1>1, <1>2, <1>4 DEF Refreshed, OAuthRows
  <1>6. TInv'
    BY <1>1, <1>3, <1>5 DEF IInv, TInv
  <1>7. LateGrows /\ ServerInv'
    BY <1>1, <1>3, ServerUntouched DEF LateGrows
  <1>8. OwnersStay /\ HoldersStay
    BY <1>3, OrdinaryStays
  <1>9. CodeInv' /\ ClaimInv' /\ (\A n \in Attempts : Live(n)' => Live(n)) /\ FlightInv'
    BY <1>1, <1>3, <1>6, <1>8, OrdinaryCode, ClaimStays, FlightStays DEF IInv, AttemptsStay
  <1>10. Carried(oauth'.access) /\ Carried(oauth'.refresh)
    BY <1>1, <1>5 DEF Carried, Circulating
  <1>11. FreshInv'
    BY <1>3, <1>6, <1>9, <1>10, OrdinaryFresh DEF IInv
  <1>12. \A d \in Calls : Refreshing(calls'[d]) => /\ d # c /\ Refreshing(calls[d]) /\ Alike(calls[d], calls'[d])
                                                    /\ calls[d].changed /\ calls'[d].changed
    <2>1. ~Refreshing(calls'[c])
      BY <1>1, <1>2, SettledTurn DEF IInv, TInv, Results, Statuses
    <2>2. inFlight = c
      BY <1>1, <1>2 DEF IInv, FlightInv
    <2>3. \A d \in Calls : d # c /\ Refreshing(calls[d]) => calls[d].changed
      BY <2>2 DEF IInv, FlightInv
    <2> QED
      BY <1>8, <2>1, <2>3 DEF HoldersStay, Alike
  <1>13. ASSUME "tokens" \notin late'
         PROVE  StoreInv' /\ SeqInv' /\ HeldInv'
    <2>1. StoreInv /\ SeqInv /\ HeldInv
      BY <1>1, <1>13 DEF IInv, TokenInv
    <2>2. oauth.refresh # NoToken /\ a.grant = oauth.refresh.grant /\ f.grant \in {0, a.grant}
      BY <1>1, <1>2, <2>1 DEF HeldInv, Current
    <2>3. oauth.access # NoToken /\ oauth.access.grant = a.grant
      BY <2>1, <2>2 DEF StoreInv
    <2>4. StoreInv'
      <3>1. oauth'.refresh # NoToken => oauth'.refresh.grant = oauth'.access.grant
        BY <1>2, <1>5, <2>2, NoTokenIsNone
      <3>2. server'.kind # "bearer" => issued'[oauth'.access.grant] = [id |-> server'.id, url |-> server'.url]
        BY <1>1, <1>5, <2>1, <2>3 DEF StoreInv
      <3>3. ASSUME NEW d \in Calls, calls'[d].pc = "complete"
            PROVE  issued'[calls'[d].attempt] = [id |-> calls'[d].id, url |-> calls'[d].url]
        <4>1. calls[d].pc = "complete" /\ Alike(calls[d], calls'[d])
          BY <1>8, <3>3 DEF HoldersStay
        <4> QED
          BY <1>1, <2>1, <4>1 DEF Alike, StoreInv
      <3> QED
        BY <1>2, <1>5, <3>1, <3>2, <3>3 DEF StoreInv
    <2>5. SeqInv'
      <3>1. Minted(oauth.refresh)'
        BY <1>1, <1>2, <1>5, <2>1 DEF SeqInv, Minted
      <3>2. ASSUME NEW d \in Calls, Refreshing(calls'[d])
            PROVE  Minted(calls[d].refresh)'
        BY <1>1, <1>12, <2>1, <3>2 DEF SeqInv, Minted, Alike
      <3>3. ASSUME NEW d \in Calls, calls'[d].pc = "complete"
            PROVE  issuer'[calls'[d].attempt] >= 1
        <4>1. calls[d].pc = "complete" /\ Alike(calls[d], calls'[d])
          BY <1>8, <3>3 DEF HoldersStay
        <4> QED
          BY <1>1, <2>1, <4>1 DEF Alike, SeqInv
      <3> QED
        BY <3>1, <3>2, <3>3 DEF SeqInv, Refreshing
    <2>6. HeldInv'
      <3>1. ASSUME NEW d \in Calls, Refreshing(calls'[d])
            PROVE  calls'[d].refresh = calls[d].refresh /\ calls'[d].changed
                   /\ (calls[d].refresh # NoToken => calls[d].refresh # oauth'.refresh)
        <4>1. calls'[d].refresh = calls[d].refresh /\ calls'[d].changed /\ calls[d].changed /\ Refreshing(calls[d]) /\ d # c
          BY <1>12, <3>1 DEF Alike
        <4>2. calls[d].refresh # NoToken => calls[d].refresh # oauth.refresh /\ calls[d].refresh # f
          BY <1>2, <2>1, <4>1 DEF HeldInv, Apart
        <4> QED
          BY <1>5, <4>1, <4>2
      <3>2. \A d \in Calls : Current(calls[d])' /\ Apart(calls[d])'
        BY <3>1 DEF Current, Apart, Refreshing
      <3>3. ASSUME NEW d \in Calls, NEW e \in Calls, Refreshing(calls'[d]), Refreshing(calls'[e]),
                   calls'[d].refresh # NoToken, calls'[d].refresh = calls'[e].refresh
            PROVE  d = e
        BY <1>12, <2>1, <3>1, <3>3 DEF HeldInv
      <3> QED
        BY <3>2, <3>3 DEF HeldInv, Refreshing
    <2> QED
      BY <2>4, <2>5, <2>6
  <1>14. TokenInv'
    BY <1>13 DEF TokenInv
  <1> QED
    BY <1>6, <1>7, <1>9, <1>11, <1>14 DEF IInv

LEMMA completeOAuthStep == ASSUME IInv, NEW c \in Calls, completeOAuth(c) PROVE IInv'
  <1> DEFINE q == calls[c]
             n == q.attempt
             r == [NoCall EXCEPT !.pc = "rediscover"]
  <1>1. q \in CallRows /\ q.pc = "complete"
        /\ UNCHANGED <<lastId, oneOrigin, attempts, lastAttempt, inFlight, issuer, issued, exchanges, late>>
    BY CallRow DEF completeOAuth, At, history, IInv
  <1>2. CASE ~Fits(c)
    <2>1. calls' = [calls EXCEPT ![c] = NoCall] /\ UNCHANGED <<oauth, server>>
      BY <1>2 DEF completeOAuth, Ends
    <2> QED
      BY <1>1, <2>1, NoCallPlain, CallMoves DEF Turns, Plain, others
  <1>3. CASE Fits(c)
    <2>1. /\ oauth' = Granted(oauth, q.access, q.refresh)
          /\ server' = [server EXCEPT !.kind = "oauth", !.bearer = None]
          /\ calls' = bumpGeneration([calls EXCEPT ![c] = r])
      BY <1>3 DEF completeOAuth
    <2>2. server.id = q.id /\ server.url = q.url /\ server.kind # "bearer"
      BY <1>3 DEF Fits, oauthAttemptIdentityMatches
    <2>3. /\ n \in Attempts /\ Live(n) /\ ~Circulating(n) /\ n <= lastAttempt /\ attempts[n].state # "open"
          /\ \A d \in Calls : Owning(calls[d]) /\ d # c => calls[d].attempt # n
      BY <1>1, OwnersOnce DEF Owning, Finishing
    <2>4. q.access = [grant |-> n, seq |-> 1] /\ q.refresh \in {NoToken, q.access} /\ q.access \in Tokens /\ q.refresh \in Tokens
      BY <1>1 DEF IInv, CodeInv, Form, CallRows
    <2>5. r \in CallRows /\ Plain(r) /\ r.pc = "rediscover"
      BY NoCallPlain DEF NoCall, CallRows, Stages, Plain, Carried, Owning, Starting, Finishing, Refreshing
    <2> HIDE DEF r
    <2>6. ~Refreshing(r) /\ Turns(q, r) /\ ~Owning(r)
      BY <2>5 DEF Turns, Plain
    <2>7. Ordinary /\ Told /\ calls' \in [Calls -> CallRows] /\ calls'[c] = r
      BY <2>1, <2>5, <2>6, BumpTurn DEF IInv, TInv
    <2>8. server \in ServerRows /\ oauth \in OAuthRows
      BY DEF IInv, TInv
    <2>9. server' \in ServerRows /\ server'.kind = "oauth" /\ server'.bearer = None /\ server'.id = server.id /\ server'.url = server.url
      BY <2>1, <2>8 DEF ServerRows, Kinds
    <2>10. oauth' \in OAuthRows /\ oauth'.access = q.access /\ oauth'.refresh = q.refresh
      <3> HIDE DEF q
      <3> QED
        BY <2>1, <2>4, <2>8 DEF Granted, OAuthRows
    <2>11. TInv'
      BY <1>1, <2>7, <2>9, <2>10 DEF IInv, TInv
    <2>12. OwnersStay /\ HoldersStay
      BY <2>7, OrdinaryStays
    <2>13. CodeInv' /\ ClaimInv' /\ (\A a \in Attempts : Live(a)' => Live(a)) /\ FlightInv'
      BY <1>1, <2>7, <2>11, <2>12, OrdinaryCode, ClaimStays, FlightStays DEF IInv, AttemptsStay
    <2>14. ASSUME NEW a \in Attempts, Live(a)'
           PROVE  a # n
      <3>1. ~(n > lastAttempt') /\ attempts'[n].state # "open"
        BY <1>1, <2>3 DEF Attempts, IInv, TInv
      <3>2. \A d \in Calls : Owning(calls'[d]) => calls'[d].attempt # n
        BY <2>3, <2>7, <2>6, <2>12 DEF OwnersStay
      <3> QED
        BY <2>14, <3>1, <3>2 DEF Live, Owning, Starting, Finishing
    <2>15. FreshInv'
      <3> SUFFICES ASSUME NEW a \in Attempts, Live(a)', Circulating(a)'
                   PROVE  FALSE
        BY DEF FreshInv
      <3>1. a # n
        BY <2>14
      <3>2. a # n /\ Live(a) /\ ~Circulating(a) /\ a # 0 /\ NoToken.grant = 0
        BY <2>13, <3>1 DEF IInv, FreshInv, Attempts, NoToken
      <3>3. oauth'.access.grant # a /\ oauth'.refresh.grant # a
        BY <2>4, <2>10, <3>2
      <3>4. PICK d \in Calls : calls'[d].pc # "complete" /\ (calls'[d].access.grant = a \/ calls'[d].refresh.grant = a)
        BY <3>3 DEF Circulating
      <3>5. CASE Alike(calls[d], calls'[d])
        BY <3>2, <3>4, <3>5 DEF Alike, Circulating
      <3>6. CASE Plain(calls'[d])
        BY <3>2, <3>4, <3>6 DEF Plain, Carried
      <3> QED
        BY <2>7, <3>5, <3>6 DEF Ordinary, Turns
    <2>16. ServerInv'
      <3>1. ASSUME "rekey" \notin late', NEW d \in Calls, calls'[d].pc = "resealing"
            PROVE  FALSE
        <4>1. server.bearer = None /\ "rekey" \notin late
          BY <1>1, <2>2, <3>1 DEF IInv, ServerInv
        <4>2. Form(calls'[d]) /\ calls'[d].url # None
          BY <2>13, <3>1 DEF CodeInv, Form
        <4> QED
          BY <2>7, <3>1, <4>1, <4>2 DEF Ordinary, Turns, Alike, Plain, IInv, ServerInv
      <3> QED
        BY <2>9, <3>1 DEF ServerInv
    <2>17. ASSUME "tokens" \notin late'
           PROVE  StoreInv' /\ SeqInv' /\ HeldInv'
      <3>1. StoreInv /\ SeqInv /\ HeldInv
        BY <1>1, <2>17 DEF IInv, TokenInv
      <3>2. q.access # NoToken /\ q.access.grant = n /\ q.access.seq = 1 /\ (q.refresh # NoToken => q.refresh.grant = n /\ q.refresh.seq = 1)
        <4>1. n # 0
          BY <2>3 DEF Attempts
        <4> QED
          BY <2>4, <4>1 DEF NoToken
      <3>3. StoreInv'
        <4>1. issued'[n] = [id |-> server'.id, url |-> server'.url]
          BY <1>1, <2>2, <2>9, <3>1 DEF StoreInv
        <4>2. ASSUME NEW d \in Calls, calls'[d].pc = "complete"
              PROVE  issued'[calls'[d].attempt] = [id |-> calls'[d].id, url |-> calls'[d].url]
          <5>1. calls[d].pc = "complete" /\ Alike(calls[d], calls'[d])
            BY <2>12, <4>2 DEF HoldersStay
          <5> QED
            BY <1>1, <3>1, <5>1 DEF Alike, StoreInv
        <4> QED
          BY <2>10, <3>2, <4>1, <4>2 DEF StoreInv
      <3>4. SeqInv'
        <4>1. Minted(oauth.refresh)'
          <5>1. issuer'[n] >= 1 /\ issuer'[n] \in Nat
            BY <1>1, <2>3, <3>1 DEF SeqInv, IInv, TInv
          <5> QED
            BY <2>10, <3>2, <5>1 DEF Minted
        <4>2. ASSUME NEW d \in Calls, Refreshing(calls'[d])
              PROVE  Minted(calls[d].refresh)'
          BY <1>1, <2>12, <3>1, <4>2 DEF HoldersStay, SeqInv, Minted, Alike
        <4>3. ASSUME NEW d \in Calls, calls'[d].pc = "complete"
              PROVE  issuer'[calls'[d].attempt] >= 1
          <5>1. calls[d].pc = "complete" /\ Alike(calls[d], calls'[d])
            BY <2>12, <4>3 DEF HoldersStay
          <5> QED
            BY <1>1, <3>1, <5>1 DEF Alike, SeqInv
        <4> QED
          BY <4>1, <4>2, <4>3 DEF SeqInv, Refreshing
      <3>5. HeldInv'
        <4>1. ASSUME NEW d \in Calls, Refreshing(calls'[d])
              PROVE  /\ Refreshing(calls[d]) /\ calls'[d].refresh = calls[d].refresh /\ calls'[d].changed
                     /\ (calls[d].refresh # NoToken => calls[d].refresh # oauth'.refresh)
          <5>1. Refreshing(calls[d]) /\ calls'[d].refresh = calls[d].refresh /\ calls'[d].changed
            BY <2>7, <2>12, <4>1 DEF HoldersStay, Told, Alike
          <5>2. calls[d].refresh.grant # n
            BY <2>3, <5>1 DEF Circulating, Refreshing
          <5> QED
            BY <2>10, <3>2, <5>1, <5>2
        <4>2. \A d \in Calls : Current(calls[d])' /\ Apart(calls[d])'
          BY <4>1 DEF Current, Apart, Refreshing
        <4>3. ASSUME NEW d \in Calls, NEW e \in Calls, Refreshing(calls'[d]), Refreshing(calls'[e]),
                     calls'[d].refresh # NoToken, calls'[d].refresh = calls'[e].refresh
              PROVE  d = e
          BY <3>1, <4>1, <4>3 DEF HeldInv
        <4> QED
          BY <4>2, <4>3 DEF HeldInv, Refreshing
      <3> QED
        BY <3>3, <3>4, <3>5
    <2>18. TokenInv'
      BY <2>17 DEF TokenInv
    <2> QED
      BY <2>11, <2>13, <2>15, <2>16, <2>18 DEF IInv
  <1> QED
    BY <1>2, <1>3

-----------------------------------------------------------------------------
(* The theorems *)

LEMMA InitEstablishes == Init => IInv
  <1> SUFFICES ASSUME Init
               PROVE  IInv
    OBVIOUS
  <1>1. calls \in [Calls -> CallRows] /\ \A c \in Calls : calls[c] = NoCall
    BY NoCallPlain DEF Init
  <1>2. NoCall.pc = "idle" /\ ~Owning(NoCall) /\ ~Refreshing(NoCall) /\ ~Starting(NoCall) /\ Form(NoCall)
        /\ NoCall.access = NoToken /\ NoCall.refresh = NoToken
    BY DEF NoCall, Owning, Starting, Finishing, Refreshing, Form
  <1>3. TInv
    BY <1>1, ClearedTypes, McpAssumption DEF Init, TInv
  <1>4. CodeInv
    BY <1>1, <1>2 DEF CodeInv
  <1>5. ServerInv
    BY <1>1, <1>2 DEF Init, ServerInv, NoServer
  <1>6. ClaimInv
    <2>1. \A a \in Attempts : attempts[a].state = "none" /\ exchanges[a] = 0
      BY DEF Init, NoAttempt
    <2> QED
      BY <1>1, <1>2, <2>1 DEF ClaimInv
  <1>7. FreshInv
    BY <1>1, <1>2, ClearedTypes, NoTokenIsNone DEF Init, FreshInv, Circulating, Attempts
  <1>8. FlightInv
    BY <1>1, <1>2 DEF FlightInv
  <1>9. StoreInv /\ SeqInv /\ HeldInv
    BY <1>1, <1>2, ClearedTypes DEF Init, StoreInv, SeqInv, HeldInv, Minted, Current, Apart
  <1> QED
    BY <1>3, <1>4, <1>5, <1>6, <1>7, <1>8, <1>9 DEF IInv, TokenInv

LEMMA StepPreserves == IInv /\ [Next]_vars => IInv'
  <1> SUFFICES ASSUME IInv, [Next]_vars
               PROVE  IInv'
    OBVIOUS
  <1>1. CASE UNCHANGED vars
    <2>1. Ordinary /\ Untold /\ calls' \in [Calls -> CallRows]
      BY <1>1, SameCalls DEF vars, IInv, TInv
    <2>2. server' \in ServerRows /\ ServerKept /\ oauth' \in OAuthRows /\ TokensKept
      BY <1>1 DEF vars, IInv, TInv, ServerKept, TokensKept
    <2> QED
      BY <1>1, <2>1, <2>2, RowMoves DEF vars
  <1>2. CASE remove \/ setUsable
    BY <1>2, removeStep, setUsableStep
  <1>3. ASSUME NEW c \in Calls, Authorizing(c)
        PROVE  IInv'
    BY <1>3, AuthBeginStep, AuthReadyStep, AuthMissingStep, AuthUselessStep, AuthJoinStep, AuthRefusedStep,
       RefreshBeginStep, RefreshChangedStep, RefreshVoidStep, RefreshAskStep, RefreshAnsweredStep, RefreshFailsStep,
       RefreshWriteStep, SendRejectedStep, SendToolStep, SendReconnectStep, SendDiscoverStep, setDiscoveryStep
       DEF Authorizing
  <1>4. ASSUME NEW c \in Calls, Connecting(c)
        PROVE  IInv'
    BY <1>4, StartBeginStep, StartLoadStep, StartSaveStep, StartStoreStep, createPendingStep, FinishCheckStep,
       FinishExchangeStep, completeOAuthStep, ClientBeginStep, clearClientStep, setPreregisteredClientStep, claimPendingStep
       DEF Connecting
  <1>5. ASSUME NEW c \in Calls, refreshMcpServer(c) \/ reconnectMcpServer(c) \/ callMcpTool(c)
        PROVE  IInv'
    BY <1>5, refreshMcpServerStep, reconnectMcpServerStep, callMcpToolStep
  <1>6. ASSUME NEW c \in Calls, SaveBearer(c) \/ RekeyBegin(c) \/ RekeyWrite(c)
        PROVE  IInv'
    BY <1>6, SaveBearerStep, RekeyBeginStep, RekeyWriteStep
  <1>7. ASSUME NEW c \in Calls, NEW u \in Urls, addMcpServer(c, u) \/ addWithBearer(c, u)
        PROVE  IInv'
    BY <1>7, addMcpServerStep, addWithBearerStep
  <1> QED
    BY <1>1, <1>2, <1>3, <1>4, <1>5, <1>6, <1>7 DEF Next

LEMMA Inductive == Spec => []IInv
  <1>1. Init => IInv
    BY InitEstablishes
  <1>2. IInv /\ [Next]_vars => IInv'
    BY StepPreserves
  <1> QED
    BY <1>1, <1>2, PTL DEF Spec

\* Every variable keeps its type, for any URLs, calls and bounds (mcp-client/store.ts, oauth-store.ts).
THEOREM TypeCorrect == Spec => []TInv
  <1>1. IInv => TInv
    BY DEF IInv
  <1> QED
    BY <1>1, Inductive, PTL

\* Every credential stored under a server's name is that server's: one grant, issued for this server at this URL,
\* and a bearer entered for its origin, outside the overlaps named in `late`
\* (mcp-client/store.ts completeOAuth and save, oauth-store.ts refreshNow).
THEOREM CredentialsAreTheServers == Spec => []CredentialsFit
  <1>1. IInv => CredentialsFit
    <2> SUFFICES ASSUME IInv
                 PROVE  CredentialsFit
      OBVIOUS
    <2>1. oauth.access \in Tokens /\ oauth.refresh \in Tokens
      BY DEF IInv, TInv, OAuthRows
    <2>2. TokensFit
      <3> SUFFICES ASSUME "tokens" \notin late, server.kind = "oauth", oauth.access.grant # 0
                   PROVE  issued[oauth.access.grant] = [id |-> server.id, url |-> server.url]
        BY DEF TokensFit
      <3>1. oauth.access # NoToken
        BY <2>1, NoTokenIsNone
      <3> QED
        BY <3>1 DEF IInv, TokenInv, StoreInv
    <2>3. GrantWhole
      BY <2>1, NoTokenIsNone DEF IInv, TokenInv, StoreInv, GrantWhole
    <2>4. BearerFits
      BY DEF IInv, ServerInv, BearerFits
    <2> QED
      BY <2>2, <2>3, <2>4 DEF CredentialsFit
  <1> QED
    BY <1>1, Inductive, PTL

\* No authorization code is exchanged twice, and no two calls present one refresh token at once, whatever is claimed,
\* removed, replaced and cleared between their steps; for refresh tokens outside the overlaps named in `late`
\* (mcp-client/oauth-store.ts claimPending, accessToken, bumpGeneration).
THEOREM SecretsAreUsedOnce == Spec => []UsedOnce
  <1>1. IInv => UsedOnce
    <2> SUFFICES ASSUME IInv
                 PROVE  UsedOnce
      OBVIOUS
    <2>1. ExchangeOnce
      BY DEF IInv, ClaimInv, ExchangeOnce
    <2>2. OneRefresh
      <3> SUFFICES ASSUME "tokens" \notin late, NEW c \in Calls, NEW d \in Calls, At(c, "asked"), At(d, "asked"),
                          calls[c].refresh = calls[d].refresh
                   PROVE  c = d
        BY DEF OneRefresh
      <3>1. Refreshing(calls[c]) /\ Refreshing(calls[d]) /\ calls[c].refresh # NoToken
        BY DEF At, Refreshing, IInv, CodeInv, Form
      <3> QED
        BY <3>1 DEF IInv, TokenInv, HeldInv
    <2> QED
      BY <2>1, <2>2 DEF UsedOnce
  <1> QED
    BY <1>1, Inductive, PTL

----------------------------------------------------------------------------
(* The container: its file of values, the deployment, and the processes *)

(* kody.env between two starts: there with both lines, or not there and no start has settled on a key. *)
FileWhole ==
    IF file.exists THEN Container!Held("admin") /\ Container!Held("master") /\ file.lines["master"] = promised
    ELSE promised = None

(* The values of this start keep the master key unless the operator gave one. *)
KeyCarried ==
    /\ values["admin"] # None /\ values["master"] # None
    /\ given["master"] = None /\ promised # None => values["master"] = promised

NodeTypes ==
    /\ lastKey \in Nat
    /\ file \in [exists : BOOLEAN, lines : [Container!Vars -> {None} \cup Nat]]
    /\ store \in [etag : Nat, master : {None} \cup Nat] 
    /\ given \in [Container!Vars -> {None} \cup Nat] /\ values \in [Container!Vars -> {None} \cup Nat]
    /\ priorEtag \in Nat
    /\ changed \in BOOLEAN /\ torn \in BOOLEAN /\ blind \in BOOLEAN /\ orphaned \in BOOLEAN
    /\ startPc \in {"down", "load", "truncate", "admin", "master", "prior", "poll", "child", "stop", "exit", "port", "exec", "up", "failed"}
    /\ supervisor \in {"none", "unstarted", "started", "deployed", "terminating", "gone"}

(* The file is whole, or being written with the key it had; a cut in that writing is what torn remembers. *)
FileInv ==
    /\ changed => torn
    /\ ~torn =>
         /\ startPc \notin Container!Vars => FileWhole
         /\ startPc \in {"truncate", "admin", "master"} => KeyCarried
         /\ startPc \in Container!Vars => file.exists
         /\ startPc = "master" => Container!Held("admin")

(* Since the pointer was read the deployment is the one it was, or the one with the values of this start. *)
DeployInv ==
    /\ startPc \in {"down", "load", "truncate", "admin", "master", "prior"} => supervisor = "none" 
    /\ startPc \in {"poll", "child", "stop", "exit", "port", "exec"} =>
         /\ priorEtag <= store.etag
         /\ ~blind => store.etag = priorEtag \/ store.master = values["master"]
         /\ startPc \in {"stop", "exit", "port", "exec"} /\ outcome = "deployed" => priorEtag < store.etag
    /\ startPc = "exec" => outcome = "deployed"
    /\ Container!DeployedIsNew

(* celld.dev has a node only while it runs, unless it was killed. *)
DevInv ==
    /\ supervisor \in {"none", "unstarted", "started"} => devNode = "none"
    /\ supervisor = "gone" /\ ~orphaned => devNode = "none"
    /\ startPc \in {"port", "exec", "up", "failed"} => ~Container!Running

NodeInv == NodeTypes /\ FileInv /\ DeployInv /\ DevInv

(* An empty volume has no file, no deployment and no key that was promised. *)
LEMMA NodeInit == Container!Init => NodeInv
<1> SUFFICES ASSUME Container!Init PROVE NodeInv
  OBVIOUS
<1>1. Container!Unset \in [Container!Vars -> {None} \cup Nat] /\ Container!Unset["admin"] = None /\ Container!Unset["master"] = None
  BY DEF Container!Unset, Container!Vars
<1>2. NodeTypes
  BY <1>1 DEF Container!Init, NodeTypes
<1>3. QED  BY <1>2 DEF Container!Init, NodeInv, FileInv, DeployInv, DevInv, FileWhole, Container!Vars, Container!Running, Container!DeployedIsNew

(* Without a reason to write it the file holds the key that was promised, and so do the values then. *)
LEMMA LoadStep == ASSUME Container!NodeConstants, NodeInv, Container!Load PROVE NodeInv'
<1> USE DEF Container!Vars, Container!Held
<1>1. /\ values' = Container!Effective /\ given' = given /\ file' = file /\ store' = store /\ torn' = torn
      /\ startPc = "load" /\ supervisor' = supervisor /\ devNode' = devNode /\ priorEtag' = priorEtag
      /\ blind' = blind /\ orphaned' = orphaned
  BY DEF Container!Load, Container!files, Container!deployVars
<1>2. lastKey' \in Nat /\ Container!Effective \in [Container!Vars -> {None} \cup Nat] /\ \A v \in Container!Vars : Container!Effective[v] # None
  BY DEF Container!Load, Container!Effective, Container!Generated, Container!NodeConstants, NodeInv, NodeTypes
<1>3. ~torn => FileWhole
  BY <1>1 DEF NodeInv, FileInv
<1>4. ~torn /\ given["master"] = None /\ promised # None => Container!Effective["master"] = promised
  BY <1>3 DEF FileWhole, Container!Effective
<1>5. CASE Container!WritesFile
  <2>1. startPc' = "truncate" /\ promised' = promised /\ changed' = changed
    BY <1>5 DEF Container!Load
  <2> QED  BY <1>1, <1>2, <1>3, <1>4, <2>1 DEF NodeInv, NodeTypes, FileInv, DeployInv, DevInv, FileWhole, KeyCarried, Container!Running, Container!DeployedIsNew
<1>6. CASE ~Container!WritesFile
  <2>1. startPc' = "prior" /\ Container!Settled(Container!Effective["master"])
    BY <1>6 DEF Container!Load
  <2>2. file.exists /\ \A v \in Container!Vars : given[v] = None \/ ~Container!Held(v) \/ given[v] = file.lines[v]
    BY <1>6 DEF Container!WritesFile, Container!Overridden
  <2>3. ~torn => promised' = promised /\ Container!Effective["master"] = promised
    BY <1>3, <2>1, <2>2 DEF FileWhole, Container!Effective, Container!Settled
  <2>4. changed' \in BOOLEAN /\ (changed' => torn')
    BY <1>1, <1>4, <2>1 DEF Container!Settled, NodeInv, NodeTypes, FileInv
  <2> QED  BY <1>1, <1>2, <1>3, <2>1, <2>3, <2>4 DEF NodeInv, NodeTypes, FileInv, DeployInv, DevInv, FileWhole, Container!Running, Container!DeployedIsNew
<1>7. QED  BY <1>5, <1>6

(* The second line makes the file whole again, with the key the start has settled on. *)
LEMMA WriteStep == ASSUME Container!NodeConstants, NodeInv, NEW v \in Container!Vars, Container!WriteLine(v) PROVE NodeInv'
<1> USE DEF Container!Vars, Container!Held
<1>1. /\ values' = values /\ given' = given /\ store' = store /\ torn' = torn /\ lastKey' = lastKey
      /\ startPc = v /\ supervisor' = supervisor /\ devNode' = devNode /\ priorEtag' = priorEtag
      /\ blind' = blind /\ orphaned' = orphaned /\ file' = [file EXCEPT !.lines[v] = values[v]]
  BY DEF Container!WriteLine, Container!deployVars
<1>2. file' \in [exists : BOOLEAN, lines : [Container!Vars -> {None} \cup Nat]] /\ file'.exists = file.exists
      /\ file'.lines[v] = values[v] /\ \A w \in Container!Vars \ {v} : file'.lines[w] = file.lines[w]
  BY <1>1 DEF NodeInv, NodeTypes
<1>3. ~torn => KeyCarried /\ file.exists
  BY <1>1 DEF NodeInv, FileInv
<1>4. CASE v = "admin"
  <2>1. startPc' = "master" /\ promised' = promised /\ changed' = changed
    BY <1>4 DEF Container!WriteLine
  <2> QED  BY <1>1, <1>2, <1>3, <1>4, <2>1 DEF NodeInv, NodeTypes, FileInv, DeployInv, DevInv, KeyCarried, Container!Running, Container!DeployedIsNew
<1>5. CASE v = "master"
  <2>1. startPc' = "prior" /\ Container!Settled(values["master"])
    BY <1>5 DEF Container!WriteLine
  <2>2. ~torn => file.lines["admin"] # None
    BY <1>1, <1>5 DEF NodeInv, FileInv
  <2>3. changed' \in BOOLEAN /\ (changed' => torn') /\ promised' = values["master"]
    BY <1>1, <1>3, <2>1 DEF Container!Settled, NodeInv, NodeTypes, FileInv, KeyCarried
  <2> QED  BY <1>1, <1>2, <1>3, <1>5, <2>1, <2>2, <2>3 DEF NodeInv, NodeTypes, FileInv, DeployInv, DevInv, FileWhole, KeyCarried, Container!Running, Container!DeployedIsNew
<1>6. QED  BY <1>4, <1>5

(* No step of the container, of celld.dev or of its node, and no end of the container, breaks the invariant. *)
LEMMA NodeStep == ASSUME Container!NodeConstants, NodeInv, Container!Next PROVE NodeInv'
<1> USE DEF NodeInv, NodeTypes, FileInv, DeployInv, DevInv, FileWhole, KeyCarried, Container!Vars, Container!Held, Container!Running, Container!DeployedIsNew,
            Container!files, Container!deployVars, Container!history
<1>1. ASSUME Container!Start PROVE NodeInv'
  BY <1>1 DEF Container!Start
<1>2. ASSUME Container!Truncate PROVE NodeInv'
  BY <1>2 DEF Container!Truncate, Container!Unset
<1>3. ASSUME Container!DevDeploys PROVE NodeInv'
  BY <1>3 DEF Container!DevDeploys
<1>4. ASSUME Container!DevNodeStarts \/ Container!DevNodeListens \/ Container!DevExits PROVE NodeInv'
  BY <1>4 DEF Container!DevNodeStarts, Container!DevNodeListens, Container!DevExits
<1>5. ASSUME Container!ReadPrior PROVE NodeInv'
  <2>1. blind' \in BOOLEAN /\ (~blind' => priorEtag' = store.etag) /\ priorEtag' \in {0, store.etag}
    BY <1>5 DEF Container!ReadPrior, Container!Reads
  <2>2. /\ supervisor' \in {"started", "unstarted"} /\ startPc = "prior" /\ startPc' = "poll"
        /\ UNCHANGED <<starts, lastKey, file, store, given, values, devNode, outcome, node, promised, changed, torn, orphaned>>
    BY <1>5 DEF Container!ReadPrior
  <2>3. QED  BY <2>1, <2>2
<1>6. ASSUME Container!Poll \/ Container!PollChild \/ Container!PollTimeout PROVE NodeInv'
  BY <1>6 DEF Container!Poll, Container!PollChild, Container!PollTimeout, Container!Stops, Container!Moved
<1>7. ASSUME Container!StopTerm \/ Container!StopExited \/ Container!StopKill PROVE NodeInv'
  <2>1. CASE Container!StopTerm
    BY <2>1 DEF Container!StopTerm
  <2>2. CASE Container!StopExited
    BY <2>2 DEF Container!StopExited
  <2>3. CASE Container!StopKill
    <3>1. orphaned' \in BOOLEAN /\ (~orphaned' => devNode = "none")
      BY <2>3 DEF Container!StopKill
    <3>2. /\ startPc = "exit" /\ startPc' = "port" /\ supervisor' = "gone"
          /\ UNCHANGED <<starts, lastKey, file, store, given, values, priorEtag, devNode, outcome, node, promised, changed, torn, blind>>
      BY <2>3 DEF Container!StopKill
    <3>3. QED  BY <3>1, <3>2
  <2>4. QED  BY <1>7, <2>1, <2>2, <2>3
<1>8. ASSUME Container!PortFree \/ Container!PortTaken \/ Container!Exec PROVE NodeInv'
  BY <1>8 DEF Container!PortFree, Container!PortTaken, Container!Exec
<1>9. ASSUME Container!Crash PROVE NodeInv'
  BY <1>9 DEF Container!Crash, Container!Unset
<1>10. QED  BY <1>1, <1>2, <1>3, <1>4, <1>5, <1>6, <1>7, <1>8, <1>9, LoadStep, WriteStep DEF Container!Next

(* Wherever starts are cut off: the master key changes only by the operator, but for a crash in the rewriting of kody.env;
   a node that is up has the deployment of its start, but for a store that was unreadable before; and celld.dev is gone by
   then, but where it had to be killed (docker/entrypoint.sh run_single, docker/single-local.mjs deployLocal). *)
THEOREM StartsAreSound == ASSUME Container!NodeConstants PROVE Container!Spec => []StartSound
<1>1. NodeInv /\ [Container!Next]_Container!vars => NodeInv'
  <2>1. ASSUME NodeInv, UNCHANGED Container!vars PROVE NodeInv'
    BY <2>1 DEF Container!vars, Container!files, Container!deployVars, Container!history, NodeInv, NodeTypes, FileInv, DeployInv, DevInv, FileWhole, KeyCarried, Container!Held, Container!Running, Container!DeployedIsNew
  <2>2. QED  BY <2>1, NodeStep
<1>2. NodeInv => StartSound
  BY DEF NodeInv, FileInv, DeployInv, DevInv, StartSound, Container!StartSound, Container!KeyKept, Container!StoreIsFree, Container!Running, Container!DeployedIsNew, NodeTypes
<1>3. QED  BY NodeInit, <1>1, <1>2, PTL DEF Container!Spec

-----------------------------------------------------------------------------
(* A clone: the inductive invariant *)

(* A numbering of the trees that goes down along their entries. *)
Descends(rank) ==
    \A id \in Clone!Trees : \A i \in DOMAIN Object[id].entries :
       LET e == Object[id].entries[i] IN e.mode = "dir" /\ e.id \in Clone!Trees => rank[e.id] < rank[id]
Rank == CHOOSE rank \in [Clone!Trees -> 1 .. Cardinality(Clone!Trees)] : Descends(rank)

(* The entry that the walk has gone into from frame i. *)
Gone(st, i) == Object[st[i].tree].entries[st[i].at - 1]
Frames == [tree : Clone!Ids, dir : Seq(Clone!Names), at : Nat \ {0}]

(* A frame is at the tree its directory leads to, and the ones below it have gone there. *)
FrameFits(st, i, id) ==
    /\ Len(st[i].dir) = i - 1
    /\ \A j \in 1 .. (i - 1) : st[i].dir[j] = Gone(st, j).name
    /\ Clone!EntryAt(id, st[i].dir).mode = "dir" /\ Clone!EntryAt(id, st[i].dir).id = st[i].tree
    /\ st[i].tree \in Clone!Trees => Rank[st[i].tree] <= Cardinality(Clone!Trees) + 1 - i
    /\ i < Len(st) => /\ st[i].tree \in Clone!Trees
                      /\ st[i].at \in 2 .. (Len(Object[st[i].tree].entries) + 1)
                      /\ Gone(st, i).name \notin Clone!skipped

(* A path is ahead of the walk when a frame has not come to the entry that leads there. *)
AheadOf(f, i, p) ==
    /\ i <= Len(p)
    /\ \A j \in 1 .. (i - 1) : p[j] = f.dir[j]
    /\ f.tree \in Clone!Trees
    /\ \E k \in f.at .. Len(Object[f.tree].entries) : Object[f.tree].entries[k].name = p[i]
Ahead(st, p) == \E i \in 1 .. Len(st) : AheadOf(st[i], i, p)
Visited(st, id) == {p \in Clone!Below(id) : ~Ahead(st, p)}

Text(id, p) == Object[Clone!EntryAt(id, p).id].text
Taken(id, p) == [path |-> p, blob |-> Clone!EntryAt(id, p).id]

(* The walk has taken what it has passed. *)
WalkFits(st, id, fs, n, b) ==
    /\ st \in Seq(Frames) /\ \A i \in 1 .. Len(st) : FrameFits(st, i, id)
    /\ fs = {Taken(id, p) : p \in {q \in Visited(st, id) : Text(id, q)}}
    /\ n = Cardinality(Visited(st, id))
    /\ b = Clone!Size(Visited(st, id), id)

CloneTyped ==
    /\ contacted \subseteq Allowed
    /\ remote \in Adverts
    /\ clonePc \in {"discover", "upload", "unpack", "walk", "done", "failed"}
    /\ clonePc \in {"upload", "unpack", "walk", "done"} => want \in Clone!Ids
    /\ pack \in Seq(Clone!Ids) /\ objects \subseteq Clone!Ids
    /\ clonePc # "failed" => failure = None

Unwalked == stack = <<>> /\ files = {} /\ fileCount = 0 /\ totalBytes = 0
Walked == /\ root = Clone!AskedTree /\ WalkFits(stack, root, files, fileCount, totalBytes)
          /\ fileCount <= MaxFiles /\ totalBytes <= MaxTotalBytes

CloneInv ==
    /\ CloneTyped
    /\ clonePc \in {"discover", "upload", "unpack"} => Unwalked
    /\ clonePc = "walk" => Walked
    /\ CloneExact

-----------------------------------------------------------------------------
(* What a tree shows along a path *)

(* A set of numbers has a least one. *)
LEMMA LeastOne == ASSUME NEW T \in SUBSET Nat, T # {} PROVE \E m \in T : \A k \in T : m <= k
<1>1. PICK m \in T : \A k \in T : ~(<<k, m>> \in OpToRel(<, Nat))
  BY NatLessThanWellFounded, WFMin
<1>2. \A k \in T : ~(k < m)
  BY <1>1 DEF OpToRel
<1>3. \A k \in T : m <= k
  BY <1>2
<1> QED BY <1>3

(* The instance counts as the library does. *)
LEMMA SameCount == /\ \A S : Clone!Cardinality(S) = Cardinality(S)
                   /\ \A S : Clone!IsFiniteSet(S) <=> IsFiniteSet(S)
  BY DEF Clone!Cardinality, Cardinality, Clone!IsFiniteSet, IsFiniteSet

(* Where a path leads to from the tree id, and by one name more from an entry. *)
Top(id) == [name |-> None, mode |-> "dir", id |-> id]
Onward(e, name) == IF e.mode = "dir" THEN Clone!Child(e.id, name) ELSE Clone!Nothing

(* The entries along a path follow from each other: there is no first place at which they could not. *)
LEMMA AlongIs ==
    ASSUME NEW id, NEW S, NEW p \in Seq(S)
    PROVE  /\ Len(p) \in Nat
           /\ Clone!Along(id, p)[0] = Top(id)
           /\ \A n \in 1 .. Len(p) : Clone!Along(id, p)[n] = Onward(Clone!Along(id, p)[n - 1], p[n])
<1> DEFINE Follows(f, m) == f = [n \in 0 .. m |-> IF n = 0 THEN Top(id) ELSE Onward(f[n - 1], p[n])]
           Bad == {m \in Nat : ~\E f : Follows(f, m)}
<1>0. Len(p) \in Nat
  OBVIOUS
<1>1. Bad = {}
  <2>1. SUFFICES ASSUME Bad # {} PROVE FALSE
    OBVIOUS
  <2>2. PICK m \in Bad : \A k \in Bad : m <= k
    BY <2>1, LeastOne
  <2>3. CASE m = 0
    <3> DEFINE g == [n \in 0 .. 0 |-> Top(id)]
    <3>1. Follows(g, 0)
      OBVIOUS
    <3> QED BY <2>2, <2>3, <3>1
  <2>4. CASE m # 0
    <3>1. m - 1 \in Nat /\ m - 1 \notin Bad
      BY <2>2, <2>4
    <3>2. PICK f : Follows(f, m - 1)
      BY <3>1
    <3> DEFINE g == [n \in 0 .. m |-> IF n = 0 THEN Top(id) ELSE Onward(f[n - 1], p[n])]
    <3>3. \A n \in 0 .. (m - 1) : f[n] = g[n]
      BY <3>1, <3>2
    <3>4. \A n \in 0 .. m : n # 0 => f[n - 1] = g[n - 1]
      <4> HIDE DEF g
      <4>1. \A n \in 0 .. m : n # 0 => n - 1 \in 0 .. (m - 1)
        BY <2>2
      <4> QED BY <3>3, <4>1
    <3>5. Follows(g, m)
      BY <3>4
    <3> HIDE DEF g
    <3> QED BY <2>2, <3>5
  <2> QED BY <2>3, <2>4
<1>2. Follows(Clone!Along(id, p), Len(p))
  <2>1. Clone!Along(id, p) = CHOOSE f : Follows(f, Len(p))
    BY DEF Clone!Along, Top, Onward
  <2>2. \E f : Follows(f, Len(p))
    BY <1>0, <1>1
  <2> HIDE DEF Follows
  <2> QED BY <2>1, <2>2
<1> QED BY <1>0, <1>2

(* Paths that begin alike lead the same way so far. *)
LEMMA AlongSame ==
    ASSUME NEW id, NEW S, NEW p \in Seq(S), NEW q \in Seq(S), NEW m \in Nat, m <= Len(p), m <= Len(q),
           \A j \in 1 .. m : p[j] = q[j]
    PROVE  Clone!Along(id, p)[m] = Clone!Along(id, q)[m]
<1> DEFINE Bad == {n \in 0 .. m : Clone!Along(id, p)[n] # Clone!Along(id, q)[n]}
<1>1. SUFFICES ASSUME Bad # {} PROVE FALSE
  OBVIOUS
<1>2. PICK n \in Bad : \A k \in Bad : n <= k
  <2>1. Bad \in SUBSET Nat
    OBVIOUS
  <2> HIDE DEF Bad
  <2> QED BY <1>1, <2>1, LeastOne
<1>3. n # 0
  BY <1>2, AlongIs
<1>4. n \in 1 .. m /\ n - 1 \in 0 .. m /\ n - 1 \notin Bad
  BY <1>2, <1>3
<1>5. /\ Clone!Along(id, p)[n] = Onward(Clone!Along(id, p)[n - 1], p[n])
      /\ Clone!Along(id, q)[n] = Onward(Clone!Along(id, q)[n - 1], q[n])
  BY <1>4, AlongIs
<1> QED BY <1>2, <1>4, <1>5

(* The entry at a path follows from the one at the path before its last name. *)
LEMMA EntryAppended ==
    ASSUME NEW id, NEW S, NEW q \in Seq(S), NEW x \in S
    PROVE  /\ Clone!EntryAt(id, <<>>) = Top(id)
           /\ Clone!EntryAt(id, Append(q, x)) = Onward(Clone!EntryAt(id, q), x)
<1> DEFINE p == Append(q, x)
<1>1. p \in Seq(S) /\ Len(p) = Len(q) + 1 /\ Len(q) \in Nat /\ p[Len(q) + 1] = x /\ \A j \in 1 .. Len(q) : p[j] = q[j]
  BY AppendProperties
<1> HIDE DEF p
<1>2. Clone!Along(id, p)[Len(q)] = Clone!Along(id, q)[Len(q)]
  BY <1>1, AlongSame
<1>3. Clone!Along(id, p)[Len(q) + 1] = Onward(Clone!Along(id, p)[Len(q)], x)
  <2>1. Len(q) + 1 \in 1 .. Len(p) /\ (Len(q) + 1) - 1 = Len(q)
    BY <1>1
  <2> QED BY <1>1, <2>1, AlongIs
<1>4. Clone!EntryAt(id, p) = Onward(Clone!EntryAt(id, q), x)
  BY <1>1, <1>2, <1>3 DEF Clone!EntryAt
<1>5. Clone!EntryAt(id, <<>>) = Top(id)
  <2>1. <<>> \in Seq(S) /\ Len(<<>>) = 0
    OBVIOUS
  <2>2. Clone!Along(id, <<>>)[0] = Top(id)
    BY <2>1, AlongIs
  <2> QED BY <2>1, <2>2 DEF Clone!EntryAt
<1> QED BY <1>4, <1>5 DEF p

(* A path that leads to something goes through directories only. *)
LEMMA ThroughDirs ==
    ASSUME NEW id, NEW S, NEW p \in Seq(S), Clone!EntryAt(id, p).mode # None, None # "dir", NEW n \in 1 .. Len(p)
    PROVE  Clone!Along(id, p)[n - 1].mode = "dir" /\ Clone!Along(id, p)[n].mode # None
<1> DEFINE a == Clone!Along(id, p)
<1>1. Len(p) \in Nat /\ a[Len(p)].mode # None /\ \A k \in 1 .. Len(p) : a[k] = Onward(a[k - 1], p[k])
  BY AlongIs DEF Clone!EntryAt
<1> HIDE DEF a
<1>2. ASSUME NEW k \in 1 .. Len(p), a[k - 1].mode # "dir" PROVE a[k].mode = None
  BY <1>1, <1>2 DEF Onward, Clone!Nothing
<1>3. a[n].mode # None
  <2>1. SUFFICES ASSUME a[n].mode = None PROVE FALSE
    OBVIOUS
  <2> DEFINE Bad == {k \in n .. Len(p) : a[k].mode # None}
  <2>2. Len(p) \in Bad
    BY <1>1
  <2>3. PICK k \in Bad : \A l \in Bad : k <= l
    <3>1. Bad \in SUBSET Nat
      BY <1>1
    <3> HIDE DEF Bad
    <3> QED BY <2>2, <3>1, LeastOne
  <2>4. k # n /\ k - 1 \in n .. Len(p) /\ k - 1 \notin Bad /\ k \in 1 .. Len(p)
    BY <1>1, <2>1, <2>3
  <2>5. a[k - 1].mode # "dir"
    BY <2>4
  <2> QED BY <1>2, <2>3, <2>4, <2>5
<1> QED BY <1>2, <1>3 DEF a

(* The constants in the form the proofs use. *)
LEMMA CloneFacts ==
    ASSUME Clone!CloneConstants
    PROVE  /\ IsFiniteSet(Clone!Ids) /\ IsFiniteSet(Clone!Trees) /\ Cardinality(Clone!Trees) \in Nat
           /\ Rank \in [Clone!Trees -> 1 .. Cardinality(Clone!Trees)] /\ Descends(Rank)
           /\ \A id \in Clone!Trees : Len(Object[id].entries) \in Nat /\ DOMAIN Object[id].entries = 1 .. Len(Object[id].entries)
           /\ None # "dir" /\ None \notin Clone!Regular
<1>1. IsFiniteSet(Clone!Ids)
  BY SameCount DEF Clone!CloneConstants, Clone!ObjectsSound
<1>2. Clone!Trees \subseteq Clone!Ids
  BY DEF Clone!Trees
<1>3. IsFiniteSet(Clone!Trees) /\ Cardinality(Clone!Trees) \in Nat
  BY <1>1, <1>2, FS_Subset, FS_CardinalityType
<1>4. \E rank \in [Clone!Trees -> 1 .. Cardinality(Clone!Trees)] : Descends(rank)
  BY SameCount DEF Clone!CloneConstants, Clone!ObjectsSound, Descends
<1>5. Rank \in [Clone!Trees -> 1 .. Cardinality(Clone!Trees)] /\ Descends(Rank)
  BY <1>4 DEF Rank
<1>6. ASSUME NEW id \in Clone!Trees
      PROVE  Len(Object[id].entries) \in Nat /\ DOMAIN Object[id].entries = 1 .. Len(Object[id].entries)
  <2> DEFINE es == Object[id].entries
  <2>1. es \in Seq({es[i] : i \in DOMAIN es})
    BY DEF Clone!CloneConstants, Clone!ObjectsSound
  <2> QED BY <2>1
<1>7. None # "dir" /\ None \notin Clone!Regular
  BY DEF Clone!CloneConstants
<1> QED BY <1>1, <1>3, <1>5, <1>6, <1>7

(* The child of a tree at the name of an entry is that entry, and a child that is something is an entry of a tree. *)
LEMMA ChildIs ==
    ASSUME Clone!CloneConstants, NEW id \in Clone!Trees, NEW k \in 1 .. Len(Object[id].entries)
    PROVE  Clone!Child(id, Object[id].entries[k].name) = Object[id].entries[k]
<1> DEFINE es == Object[id].entries
           x == es[k].name
           c == CHOOSE i \in DOMAIN es : es[i].name = x
<1>1. DOMAIN es = 1 .. Len(es)
  BY CloneFacts
<1>2. c \in DOMAIN es /\ es[c].name = x
  BY <1>1
<1>3. c = k
  BY <1>1, <1>2 DEF Clone!CloneConstants, Clone!ObjectsSound
<1>4. Clone!Is(id, "tree")
  BY DEF Clone!Trees
<1> QED BY <1>1, <1>3, <1>4 DEF Clone!Child

(* What is something below a name is an entry of a tree with that name. *)
LEMMA ChildOnly ==
    ASSUME Clone!CloneConstants, NEW id, NEW x, Clone!Child(id, x).mode # None
    PROVE  id \in Clone!Trees /\ \E k \in 1 .. Len(Object[id].entries) :
             Object[id].entries[k].name = x /\ Clone!Child(id, x) = Object[id].entries[k]
<1> DEFINE es == Object[id].entries
           c == CHOOSE i \in DOMAIN es : es[i].name = x
<1>1. Clone!Is(id, "tree") /\ \E i \in DOMAIN es : es[i].name = x
  BY DEF Clone!Child, Clone!Nothing
<1>2. id \in Clone!Trees
  BY <1>1 DEF Clone!Trees, Clone!Is
<1>3. c \in DOMAIN es /\ es[c].name = x
  BY <1>1
<1>4. Clone!Child(id, x) = es[c]
  BY <1>1 DEF Clone!Child
<1>5. DOMAIN es = 1 .. Len(es)
  BY <1>2, CloneFacts
<1> QED BY <1>2, <1>3, <1>4, <1>5

(* What a path is. *)
LEMMA PathTypes ==
    ASSUME Clone!CloneConstants, NEW p
    PROVE  p \in Clone!Paths <=> /\ p \in Seq(Clone!Names) /\ Len(p) \in 1 .. Cardinality(Clone!Trees)
                                 /\ \A j \in 1 .. Len(p) : p[j] \notin Clone!skipped
<1>1. Cardinality(Clone!Trees) \in Nat /\ Clone!Cardinality(Clone!Trees) = Cardinality(Clone!Trees)
  BY CloneFacts, SameCount
<1>2. ASSUME p \in Clone!Paths
      PROVE  /\ p \in Seq(Clone!Names) /\ Len(p) \in 1 .. Cardinality(Clone!Trees)
             /\ \A j \in 1 .. Len(p) : p[j] \notin Clone!skipped
  <2>1. PICK n \in 1 .. Cardinality(Clone!Trees) : p \in [1 .. n -> Clone!Names \ Clone!skipped]
    BY <1>1, <1>2 DEF Clone!Paths
  <2>2. p \in [1 .. n -> Clone!Names] /\ \A j \in 1 .. n : p[j] \notin Clone!skipped
    BY <2>1
  <2>3. p \in Seq(Clone!Names) /\ Len(p) = n
    BY <1>1, <2>2
  <2> QED BY <2>1, <2>2, <2>3
<1>3. ASSUME p \in Seq(Clone!Names), Len(p) \in 1 .. Cardinality(Clone!Trees), \A j \in 1 .. Len(p) : p[j] \notin Clone!skipped
      PROVE  p \in Clone!Paths
  <2>1. p \in [1 .. Len(p) -> Clone!Names]
    BY <1>3
  <2>2. p \in [1 .. Len(p) -> Clone!Names \ Clone!skipped]
    BY <1>3, <2>1
  <2> QED BY <1>1, <1>3, <2>2 DEF Clone!Paths
<1> QED BY <1>2, <1>3

(* Finitely many functions lead from an interval to a finite set. *)
LEMMA TuplesFinite == ASSUME NEW n \in Nat, NEW S, IsFiniteSet(S) PROVE IsFiniteSet([1 .. n -> S])
<1> DEFINE T == SUBSET ((1 .. n) \X S)
           graph == [f \in [1 .. n -> S] |-> {<<i, f[i]>> : i \in 1 .. n}]
<1>1. IsFiniteSet(1 .. n)
  BY FS_Interval
<1>2. IsFiniteSet(T)
  BY <1>1, FS_Product, FS_SUBSET
<1>3. graph \in [[1 .. n -> S] -> T]
  OBVIOUS
<1>4. ASSUME NEW f \in [1 .. n -> S], NEW g \in [1 .. n -> S], graph[f] = graph[g] PROVE f = g
  <2>1. ASSUME NEW i \in 1 .. n PROVE f[i] = g[i]
    <3>1. <<i, f[i]>> \in graph[g]
      BY <1>4
    <3> QED BY <3>1
  <2> QED BY <2>1
<1>5. graph \in Injection([1 .. n -> S], T)
  BY <1>3, <1>4 DEF Injection, IsInjective
<1> QED BY <1>2, <1>5, FS_Injection

(* A function has no more values than arguments. *)
LEMMA ValuesFinite == ASSUME NEW S, IsFiniteSet(S), NEW f, DOMAIN f = S PROVE IsFiniteSet({f[x] : x \in S})
<1> DEFINE T == {f[x] : x \in S}
           g == [x \in S |-> f[x]]
<1>1. g \in Surjection(S, T)
  BY DEF Surjection
<1> QED BY <1>1, FS_Surjection

(* There are finitely many paths. *)
LEMMA PathsFinite == ASSUME Clone!CloneConstants PROVE IsFiniteSet(Clone!Paths)
<1> DEFINE C == Cardinality(Clone!Trees)
           named == [id \in Clone!Trees |-> {Object[id].entries[i].name : i \in DOMAIN Object[id].entries}]
           tuples == [n \in 1 .. C |-> [1 .. n -> Clone!Names \ Clone!skipped]]
<1>1. C \in Nat /\ Clone!Cardinality(Clone!Trees) = C /\ IsFiniteSet(Clone!Trees)
  BY CloneFacts, SameCount
<1>2. \A id \in Clone!Trees : IsFiniteSet(named[id])
  <2> SUFFICES ASSUME NEW id \in Clone!Trees PROVE IsFiniteSet(named[id])
    OBVIOUS
  <2> DEFINE es == Object[id].entries
             names == [i \in 1 .. Len(es) |-> es[i].name]
  <2>1. Len(es) \in Nat /\ DOMAIN es = 1 .. Len(es)
    BY CloneFacts
  <2> HIDE DEF es
  <2>2. IsFiniteSet(1 .. Len(es))
    BY <2>1, FS_Interval
  <2>3. IsFiniteSet({names[i] : i \in 1 .. Len(es)})
    BY <2>2, ValuesFinite
  <2>4. named[id] = {names[i] : i \in 1 .. Len(es)}
    BY <2>1 DEF es
  <2> QED BY <2>3, <2>4
<1>3. IsFiniteSet({named[id] : id \in Clone!Trees})
  BY <1>1, ValuesFinite
<1>4. Clone!Names = UNION {named[id] : id \in Clone!Trees}
  BY DEF Clone!Names
<1> HIDE DEF named
<1>5. IsFiniteSet(Clone!Names)
  BY <1>2, <1>3, <1>4, FS_UNION
<1>6. IsFiniteSet(Clone!Names \ Clone!skipped)
  BY <1>5, FS_Subset
<1> DEFINE S == Clone!Names \ Clone!skipped
<1>7. \A n \in 1 .. C : IsFiniteSet(tuples[n])
  <2> HIDE DEF S
  <2>1. tuples = [n \in 1 .. C |-> [1 .. n -> S]]
    BY DEF S
  <2>2. IsFiniteSet(S)
    BY <1>6 DEF S
  <2> SUFFICES ASSUME NEW n \in 1 .. C PROVE IsFiniteSet(tuples[n])
    OBVIOUS
  <2>3. n \in Nat /\ tuples[n] = [1 .. n -> S]
    BY <1>1, <2>1
  <2> QED BY <2>2, <2>3, TuplesFinite
<1>8. IsFiniteSet(1 .. C)
  BY <1>1, FS_Interval
<1>9. Clone!Paths = UNION {tuples[n] : n \in 1 .. C}
  BY <1>1 DEF Clone!Paths
<1> HIDE DEF tuples, C
<1>10. DOMAIN tuples = 1 .. C
  BY DEF tuples
<1>11. IsFiniteSet({tuples[n] : n \in 1 .. C})
  BY <1>8, <1>10, ValuesFinite
<1> QED BY <1>7, <1>9, <1>11, FS_UNION

(* A file below a tree is a file, and its path goes through trees. *)
LEMMA BelowThrough ==
    ASSUME Clone!CloneConstants, NEW id, NEW p \in Clone!Below(id), NEW n \in 1 .. Len(p)
    PROVE  /\ p \in Seq(Clone!Names) /\ Len(p) \in Nat
           /\ LET a == Clone!Along(id, p)
                  d == a[n - 1].id
              IN  /\ a[n - 1].mode = "dir" /\ d \in Clone!Trees
                  /\ \E k \in 1 .. Len(Object[d].entries) : Object[d].entries[k].name = p[n] /\ a[n] = Object[d].entries[k]
                  /\ n < Len(p) => a[n].mode = "dir"
                  /\ n = Len(p) => Clone!IsFile(a[n])
<1> DEFINE a == Clone!Along(id, p)
           d == a[n - 1].id
<1>1. p \in Clone!Paths /\ Clone!IsFile(Clone!EntryAt(id, p))
  BY DEF Clone!Below
<1>2. p \in Seq(Clone!Names) /\ Len(p) \in Nat
  BY <1>1, PathTypes
<1>3. None # "dir" /\ Clone!EntryAt(id, p).mode # None
  BY <1>1, CloneFacts DEF Clone!IsFile
<1>4. a[n - 1].mode = "dir" /\ a[n].mode # None
  BY <1>2, <1>3, ThroughDirs
<1>5. a[n] = Clone!Child(d, p[n])
  BY <1>2, <1>4, AlongIs DEF Onward
<1>6. n < Len(p) => a[n].mode = "dir"
  <2> SUFFICES ASSUME n < Len(p) PROVE a[n].mode = "dir"
    OBVIOUS
  <2>1. n + 1 \in 1 .. Len(p) /\ (n + 1) - 1 = n
    BY <1>2
  <2>2. a[(n + 1) - 1].mode = "dir"
    BY <1>2, <1>3, <2>1, ThroughDirs
  <2> QED BY <2>1, <2>2
<1>7. n = Len(p) => Clone!IsFile(a[n])
  BY <1>1 DEF Clone!EntryAt
<1> HIDE DEF a
<1>8. d \in Clone!Trees /\ \E k \in 1 .. Len(Object[d].entries) : Object[d].entries[k].name = p[n] /\ a[n] = Object[d].entries[k]
  BY <1>4, <1>5, ChildOnly
<1> QED BY <1>2, <1>4, <1>6, <1>7, <1>8 DEF a

-----------------------------------------------------------------------------
(* The number and the size of files *)

(* Sums: the library's fold gives a set of paths the sum of their sizes, taking away one chosen element after the other. *)
SizeOf(id, p) == Object[Clone!EntryAt(id, p).id].size
OnePath(s) == CHOOSE p \in s : TRUE
SumOn(W, w, ss) == \A s \in ss : w[s] = IF s = {} THEN 0 ELSE W[OnePath(s)] + w[s \ {OnePath(s)}]
PathsUpTo(D, n) == {s \in SUBSET D : Cardinality(s) <= n}

(* What is taken from a set leaves a smaller one. *)
LEMMA OnePathLess ==
    ASSUME NEW D, IsFiniteSet(D), NEW n \in Nat, NEW s \in PathsUpTo(D, n), NEW u \in s
    PROVE  /\ u \in D /\ n # 0 /\ n - 1 \in Nat
           /\ s \ {u} \in PathsUpTo(D, n - 1) /\ s \ {u} \in SUBSET D
<1>1. s \in SUBSET D /\ IsFiniteSet(s)
  BY FS_Subset DEF PathsUpTo
<1>2. /\ Cardinality(s) \in Nat /\ Cardinality(s) <= n
      /\ Cardinality(s \ {u}) = Cardinality(s) - 1 /\ Cardinality(s \ {u}) \in Nat
  BY <1>1, FS_CardinalityType, FS_RemoveElement DEF PathsUpTo
<1>3. QED  BY <1>1, <1>2 DEF PathsUpTo

(* Every set of paths is among those of some size. *)
LEMMA SomeSize == ASSUME NEW D, IsFiniteSet(D), NEW s \in SUBSET D PROVE \E n \in Nat : s \in PathsUpTo(D, n)
<1>1. Cardinality(s) \in Nat
  BY FS_Subset, FS_CardinalityType
<1>2. QED  BY <1>1 DEF PathsUpTo

(* The sums exist and are numbers: there is no least size of sets without them. *)
LEMMA SumsExist == ASSUME NEW D, IsFiniteSet(D), NEW W \in [D -> Nat] PROVE \E w \in [SUBSET D -> Nat] : SumOn(W, w, SUBSET D)
<1> DEFINE Has(n) == \E w \in [PathsUpTo(D, n) -> Nat] : SumOn(W, w, PathsUpTo(D, n))
           Bad == {n \in Nat : ~Has(n)}
<1>0. \A s : s # {} => OnePath(s) \in s
  BY DEF OnePath
<1>1. Has(0)
  <2> DEFINE w == [s \in PathsUpTo(D, 0) |-> 0]
  <2>1. \A s \in PathsUpTo(D, 0) : s = {}
    BY OnePathLess
  <2>2. SumOn(W, w, PathsUpTo(D, 0))
    BY <2>1 DEF SumOn
  <2>3. w \in [PathsUpTo(D, 0) -> Nat]
    OBVIOUS
  <2>4. QED  BY <2>2, <2>3
<1>2. ASSUME NEW n \in Nat, n # 0, Has(n - 1) PROVE Has(n)
  <2>1. PICK w \in [PathsUpTo(D, n - 1) -> Nat] : SumOn(W, w, PathsUpTo(D, n - 1))
    BY <1>2
  <2> DEFINE v == [s \in PathsUpTo(D, n) |-> IF s = {} THEN 0 ELSE W[OnePath(s)] + w[s \ {OnePath(s)}]]
  <2>2. v \in [PathsUpTo(D, n) -> Nat]
    <3>1. ASSUME NEW s \in PathsUpTo(D, n), s # {}
          PROVE  W[OnePath(s)] \in Nat /\ w[s \ {OnePath(s)}] \in Nat
      <4>1. OnePath(s) \in s
        BY <1>0, <3>1
      <4>2. OnePath(s) \in D /\ s \ {OnePath(s)} \in PathsUpTo(D, n - 1)
        BY <4>1, OnePathLess
      <4>3. QED  BY <4>2
    <3>2. \A s \in PathsUpTo(D, n) : (IF s = {} THEN 0 ELSE W[OnePath(s)] + w[s \ {OnePath(s)}]) \in Nat
      <4>1. SUFFICES ASSUME NEW s \in PathsUpTo(D, n)
                     PROVE  (IF s = {} THEN 0 ELSE W[OnePath(s)] + w[s \ {OnePath(s)}]) \in Nat
        OBVIOUS
      <4>2. CASE s = {}
        BY <4>2
      <4>3. CASE s # {}
        <5>1. PICK a \in Nat, b \in Nat : a = W[OnePath(s)] /\ b = w[s \ {OnePath(s)}]
          BY <3>1, <4>3
        <5>2. (IF s = {} THEN 0 ELSE W[OnePath(s)] + w[s \ {OnePath(s)}]) = a + b
          BY <4>3, <5>1
        <5>3. QED  BY <5>2
      <4>4. QED  BY <4>2, <4>3
    <3>3. QED  BY <3>2
  <2>3. \A s \in PathsUpTo(D, n - 1) : s \in PathsUpTo(D, n) /\ w[s] = v[s]
    <3>1. \A s \in PathsUpTo(D, n - 1) : Cardinality(s) \in Nat
      BY FS_Subset, FS_CardinalityType DEF PathsUpTo
    <3>2. \A s \in PathsUpTo(D, n - 1) : s \in PathsUpTo(D, n)
      BY <3>1 DEF PathsUpTo
    <3>3. \A s \in PathsUpTo(D, n - 1) : w[s] = IF s = {} THEN 0 ELSE W[OnePath(s)] + w[s \ {OnePath(s)}]
      BY <2>1 DEF SumOn
    <3>4. QED  BY <3>2, <3>3
  <2>4. \A s \in PathsUpTo(D, n) : s # {} => w[s \ {OnePath(s)}] = v[s \ {OnePath(s)}]
    <3>1. ASSUME NEW s \in PathsUpTo(D, n), s # {} PROVE s \ {OnePath(s)} \in PathsUpTo(D, n - 1)
      BY <1>0, <3>1, OnePathLess
    <3> HIDE DEF v
    <3> QED BY <2>3, <3>1
  <2>5. SumOn(W, v, PathsUpTo(D, n))
    BY <2>4 DEF SumOn
  <2>6. QED  BY <2>2, <2>5
<1>3. Bad = {}
  <2>1. SUFFICES ASSUME Bad # {} PROVE FALSE
    OBVIOUS
  <2>2. PICK n \in Bad : \A m \in Bad : n <= m
    BY <2>1, LeastOne
  <2>3. n # 0 /\ n - 1 \in Nat /\ n - 1 \notin Bad
    BY <1>1, <2>2
  <2> HIDE DEF Has
  <2>4. QED  BY <1>2, <2>2, <2>3
<1>4. PathsUpTo(D, Cardinality(D)) = SUBSET D /\ Cardinality(D) \in Nat
  BY FS_Subset, FS_CardinalityType DEF PathsUpTo
<1>5. Has(Cardinality(D))
  BY <1>3, <1>4
<1>6. QED  BY <1>4, <1>5

(* The size of a set of paths is its sum: there is no smallest subset on which the fold differs. *)
LEMMA SizeIs ==
    ASSUME NEW id, NEW D, IsFiniteSet(D), NEW W \in [D -> Nat], \A p \in D : W[p] = SizeOf(id, p),
           NEW w \in [SUBSET D -> Nat], SumOn(W, w, SUBSET D), NEW S \in SUBSET D
    PROVE  Clone!Size(S, id) = w[S]
<1> DEFINE Iter(iter) == iter = [s \in SUBSET S |-> IF s = {} THEN 0 ELSE SizeOf(id, CHOOSE x \in s : TRUE) + iter[s \ {CHOOSE x \in s : TRUE}]]
           c == CHOOSE iter : Iter(iter)
<1>1. Clone!Size(S, id) = c[S]
  BY DEF Clone!Size, Clone!MapThenSumSet, Clone!MapThenFoldSet, SizeOf
<1>2. \A s : s # {} => (CHOOSE x \in s : TRUE) \in s
  OBVIOUS
<1>3. Iter(c)
  <2> DEFINE g == [s \in SUBSET S |-> w[s]]
  <2>1. \A s \in SUBSET S : w[s] = IF s = {} THEN 0 ELSE SizeOf(id, CHOOSE x \in s : TRUE) + w[s \ {CHOOSE x \in s : TRUE}]
    BY DEF SumOn, OnePath
  <2>2. \A s \in SUBSET S : s # {} => g[s \ {CHOOSE x \in s : TRUE}] = w[s \ {CHOOSE x \in s : TRUE}]
    OBVIOUS
  <2>3. Iter(g)
    <3> HIDE DEF g
    <3>1. \A s \in SUBSET S : w[s] = IF s = {} THEN 0 ELSE SizeOf(id, CHOOSE x \in s : TRUE) + g[s \ {CHOOSE x \in s : TRUE}]
      BY <2>1, <2>2
    <3>2. g = [s \in SUBSET S |-> w[s]]
      BY DEF g
    <3> QED BY <3>1, <3>2
  <2> HIDE DEF Iter, g
  <2>4. QED  BY <2>3
<1>4. \A s \in SUBSET S : c[s] = IF s = {} THEN 0 ELSE SizeOf(id, OnePath(s)) + c[s \ {OnePath(s)}]
  <2>1. c = [s \in SUBSET S |-> IF s = {} THEN 0 ELSE SizeOf(id, CHOOSE x \in s : TRUE) + c[s \ {CHOOSE x \in s : TRUE}]]
    BY <1>3
  <2> HIDE DEF c
  <2>2. QED  BY <2>1 DEF OnePath
<1> HIDE DEF c, Iter
<1> DEFINE Bad == {n \in Nat : \E s \in PathsUpTo(D, n) \cap SUBSET S : c[s] # w[s]}
<1>5. Bad = {}
  <2>1. SUFFICES ASSUME Bad # {} PROVE FALSE
    OBVIOUS
  <2>2. PICK n \in Bad : \A m \in Bad : n <= m
    BY <2>1, LeastOne
  <2>3. PICK s \in PathsUpTo(D, n) \cap SUBSET S : c[s] # w[s]
    BY <2>2
  <2>4. c[s] = (IF s = {} THEN 0 ELSE SizeOf(id, OnePath(s)) + c[s \ {OnePath(s)}]) /\ w[s] = IF s = {} THEN 0 ELSE W[OnePath(s)] + w[s \ {OnePath(s)}]
    BY <1>4 DEF SumOn
  <2>5. s # {} /\ OnePath(s) \in s
    BY <2>3, <2>4 DEF OnePath
  <2>6. s \ {OnePath(s)} \in PathsUpTo(D, n - 1) \cap SUBSET S /\ n # 0 /\ n - 1 \in Nat
    BY <2>5, OnePathLess
  <2>7. n - 1 \notin Bad
    BY <2>2, <2>6
  <2>8. QED  BY <2>3, <2>4, <2>5, <2>6, <2>7
<1>6. PICK n \in Nat : S \in PathsUpTo(D, n)
  BY SomeSize
<1>7. QED  BY <1>1, <1>5, <1>6

(* It does not matter which element is taken away: there is no smallest set for which it does. *)
LEMMA TakenAway ==
    ASSUME NEW D, IsFiniteSet(D), NEW W \in [D -> Nat], NEW w \in [SUBSET D -> Nat], SumOn(W, w, SUBSET D), NEW S \in SUBSET D, NEW x \in S
    PROVE  w[S] = W[x] + w[S \ {x}]
<1> DEFINE Even(s) == \A u \in s : w[s] = W[u] + w[s \ {u}]
           Bad == {n \in Nat : \E s \in PathsUpTo(D, n) : ~Even(s)}
<1>1. Bad = {}
  <2>1. SUFFICES ASSUME Bad # {} PROVE FALSE
    OBVIOUS
  <2>2. PICK n \in Bad : \A m \in Bad : n <= m
    BY <2>1, LeastOne
  <2>3. PICK s \in PathsUpTo(D, n) : ~Even(s)
    BY <2>2
  <2>4. PICK u \in s : w[s] # W[u] + w[s \ {u}]
    BY <2>3
  <2>5. PICK y : y = OnePath(s)
    OBVIOUS
  <2>6. s \in SUBSET D /\ y \in s /\ w[s] = W[y] + w[s \ {y}]
    BY <2>5 DEF PathsUpTo, OnePath, SumOn
  <2>7. y # u
    BY <2>4, <2>6
  <2>8. /\ s \ {y} \in PathsUpTo(D, n - 1) /\ s \ {u} \in PathsUpTo(D, n - 1) /\ n - 1 \in Nat /\ n - 1 \notin Bad
        /\ u \in D /\ y \in D
    <3>1. n # 0 /\ n - 1 \in Nat /\ s \ {y} \in PathsUpTo(D, n - 1) /\ s \ {u} \in PathsUpTo(D, n - 1) /\ u \in D /\ y \in D
      BY <2>6, OnePathLess
    <3>2. QED  BY <2>2, <3>1
  <2>9. Even(s \ {y}) /\ Even(s \ {u})
    BY <2>8
  <2>10. (s \ {y}) \ {u} = (s \ {u}) \ {y} /\ (s \ {u}) \ {y} \in SUBSET D
    BY <2>6
  <2>11. w[s \ {y}] = W[u] + w[(s \ {u}) \ {y}] /\ w[s \ {u}] = W[y] + w[(s \ {u}) \ {y}]
    BY <2>6, <2>7, <2>9, <2>10
  <2>12. W[u] \in Nat /\ W[y] \in Nat /\ w[(s \ {u}) \ {y}] \in Nat
    BY <2>8, <2>10
  <2>13. QED  BY <2>4, <2>6, <2>11, <2>12
<1>2. PICK n \in Nat : S \in PathsUpTo(D, n)
  BY SomeSize
<1> HIDE DEF Even
<1>3. Even(S)
  BY <1>1, <1>2
<1>4. QED  BY <1>3 DEF Even

(* A part of a set is no larger than the set: there is no smallest set with a larger part. *)
LEMMA PartIsSmaller ==
    ASSUME NEW D, IsFiniteSet(D), NEW W \in [D -> Nat],
           NEW w \in [SUBSET D -> Nat], SumOn(W, w, SUBSET D), NEW S \in SUBSET D, NEW T \in SUBSET S
    PROVE  w[T] <= w[S]
<1>1. \A s \in SUBSET D : \A u \in s : w[s] = W[u] + w[s \ {u}]
  <2> SUFFICES ASSUME NEW s \in SUBSET D, NEW u \in s PROVE w[s] = W[u] + w[s \ {u}]
    OBVIOUS
  <2> QED BY TakenAway
<1> DEFINE Bad == {n \in Nat : \E s \in PathsUpTo(D, n) : \E t \in SUBSET s : ~(w[t] <= w[s])}
<1>2. Bad = {}
  <2>1. SUFFICES ASSUME Bad # {} PROVE FALSE
    OBVIOUS
  <2>2. PICK n \in Bad : \A m \in Bad : n <= m
    BY <2>1, LeastOne
  <2>3. PICK s \in PathsUpTo(D, n) : \E t \in SUBSET s : ~(w[t] <= w[s])
    BY <2>2
  <2>4. PICK t \in SUBSET s : ~(w[t] <= w[s])
    BY <2>3
  <2>5. s \in SUBSET D /\ t \in SUBSET D
    BY DEF PathsUpTo
  <2>6. PICK u \in s : u \notin t
    <3>1. s # t
      BY <2>4, <2>5
    <3>2. QED  BY <3>1
  <2>7. t \in SUBSET (s \ {u}) /\ s \ {u} \in PathsUpTo(D, n - 1) /\ n # 0 /\ n - 1 \in Nat /\ u \in D /\ s \ {u} \in SUBSET D
    BY <2>5, <2>6, OnePathLess
  <2>8. w[t] <= w[s \ {u}]
    BY <2>2, <2>7
  <2>9. w[s] = W[u] + w[s \ {u}] /\ W[u] \in Nat
    <3>1. u \in s
      BY <2>6
    <3>2. s \in SUBSET D
      BY <2>5
    <3>3. w[s] = W[u] + w[s \ {u}]
      BY <1>1, <3>1, <3>2
    <3> QED BY <2>7, <3>3
  <2>10. w[t] \in Nat /\ w[s \ {u}] \in Nat
    BY <2>5, <2>7
  <2>11. QED  BY <2>4, <2>8, <2>9, <2>10
<1>3. PICK n \in Nat : S \in PathsUpTo(D, n)
  BY SomeSize
<1> QED BY <1>2, <1>3

(* The paths below a tree are finitely many, and the sizes of some of them add up. *)
LEMMA SizesAddUp ==
    ASSUME Clone!CloneConstants, NEW id
    PROVE  /\ IsFiniteSet(Clone!Below(id)) /\ Clone!Size({}, id) = 0
           /\ \A S \in SUBSET Clone!Below(id) : /\ Clone!Size(S, id) \in Nat /\ Clone!Size(Clone!Below(id), id) \in Nat
                                                 /\ Clone!Size(S, id) <= Clone!Size(Clone!Below(id), id)
           /\ \A S \in SUBSET Clone!Below(id), p \in Clone!Below(id) :
                 p \notin S => SizeOf(id, p) \in Nat /\ Clone!Size(S \cup {p}, id) = Clone!Size(S, id) + SizeOf(id, p)
<1> DEFINE D == Clone!Below(id)
           W == [p \in D |-> SizeOf(id, p)]
<1>1. IsFiniteSet(D)
  <2>1. D \subseteq Clone!Paths
    BY DEF Clone!Below
  <2> QED BY <2>1, PathsFinite, FS_Subset
<1>2. W \in [D -> Nat]
  <2> SUFFICES ASSUME NEW p \in D PROVE SizeOf(id, p) \in Nat
    OBVIOUS
  <2>1. Clone!Is(Clone!EntryAt(id, p).id, "blob")
    BY DEF Clone!Below, Clone!IsFile
  <2>2. Clone!EntryAt(id, p).id \in Clone!Ids
    BY <2>1 DEF Clone!Is
  <2> QED BY <2>1, <2>2 DEF Clone!CloneConstants, Clone!ObjectsSound, SizeOf
<1>3. \A p \in D : W[p] = SizeOf(id, p)
  OBVIOUS
<1> HIDE DEF D, W
<1>4. PICK w \in [SUBSET D -> Nat] : SumOn(W, w, SUBSET D)
  BY <1>1, <1>2, SumsExist
<1>5. \A S \in SUBSET D : Clone!Size(S, id) = w[S]
  BY <1>1, <1>2, <1>3, <1>4, SizeIs
<1>6. Clone!Size({}, id) = 0
  <2>1. w[{}] = 0
    BY <1>4 DEF SumOn
  <2> QED BY <1>5, <2>1
<1>7. \A S \in SUBSET D : /\ Clone!Size(S, id) \in Nat /\ Clone!Size(D, id) \in Nat
                            /\ Clone!Size(S, id) <= Clone!Size(D, id)
  <2> SUFFICES ASSUME NEW S \in SUBSET D
               PROVE  Clone!Size(S, id) \in Nat /\ Clone!Size(D, id) \in Nat /\ Clone!Size(S, id) <= Clone!Size(D, id)
    OBVIOUS
  <2>1. w[S] <= w[D]
    BY <1>1, <1>2, <1>4, PartIsSmaller
  <2>2. Clone!Size(S, id) = w[S] /\ Clone!Size(D, id) = w[D] /\ w[S] \in Nat /\ w[D] \in Nat
    BY <1>5
  <2> QED BY <2>1, <2>2
<1>8. \A S \in SUBSET D, p \in D :
         p \notin S => SizeOf(id, p) \in Nat /\ Clone!Size(S \cup {p}, id) = Clone!Size(S, id) + SizeOf(id, p)
  <2> SUFFICES ASSUME NEW S \in SUBSET D, NEW p \in D, p \notin S
               PROVE  SizeOf(id, p) \in Nat /\ Clone!Size(S \cup {p}, id) = Clone!Size(S, id) + SizeOf(id, p)
    OBVIOUS
  <2> DEFINE R == S \cup {p}
  <2>1. R \in SUBSET D /\ p \in R /\ R \ {p} = S
    OBVIOUS
  <2> HIDE DEF R
  <2>2. w[R] = W[p] + w[R \ {p}]
    BY <1>1, <1>2, <1>4, <2>1, TakenAway
  <2>3. Clone!Size(R, id) = w[R] /\ Clone!Size(S, id) = w[S] /\ W[p] \in Nat /\ w[S] \in Nat
    BY <1>2, <1>5, <2>1
  <2>4. W[p] = SizeOf(id, p)
    BY <1>3
  <2>5. Clone!Size(R, id) = Clone!Size(S, id) + SizeOf(id, p) /\ SizeOf(id, p) \in Nat
    <3>1. PICK a \in Nat, b \in Nat : a = W[p] /\ b = w[S]
      BY <2>3
    <3>2. Clone!Size(R, id) = a + b
      BY <2>1, <2>2, <2>3, <3>1
    <3> QED BY <2>3, <2>4, <3>1, <3>2
  <2> QED BY <2>5 DEF R
<1> QED BY <1>1, <1>6, <1>7, <1>8 DEF D

-----------------------------------------------------------------------------
(* The walk *)

(* What the name of a file's path that frame i takes leads to. *)
Leads(e, i, p) ==
    /\ e.name = p[i] /\ e.name \notin Clone!skipped
    /\ i < Len(p) => e.mode = "dir"
    /\ i = Len(p) => Clone!IsFile(e)

(* What the walk has come to: the frame leads to a directory of the path, and the next name is that of an entry there. *)
LEMMA FrameLeads ==
    ASSUME Clone!CloneConstants, NEW id, NEW st \in Seq(Frames), NEW i \in 1 .. Len(st), FrameFits(st, i, id),
           NEW p \in Clone!Below(id), i <= Len(p), \A j \in 1 .. (i - 1) : p[j] = st[i].dir[j]
    PROVE  /\ st[i].tree \in Clone!Trees /\ p \in Seq(Clone!Names) /\ Len(p) \in Nat
           /\ \E k \in 1 .. Len(Object[st[i].tree].entries) : Leads(Object[st[i].tree].entries[k], i, p)
<1> DEFINE a == Clone!Along(id, p)
           q == st[i].dir
<1>1. st[i] \in Frames /\ Len(st) \in Nat
  OBVIOUS
<1>2. q \in Seq(Clone!Names) /\ Len(q) = i - 1 /\ Clone!EntryAt(id, q).id = st[i].tree
  BY <1>1 DEF Frames, FrameFits
<1>3. p \in Clone!Paths
  BY DEF Clone!Below
<1>4. p \in Seq(Clone!Names) /\ Len(p) \in Nat /\ \A j \in 1 .. Len(p) : p[j] \notin Clone!skipped
  BY <1>3, PathTypes
<1>5. i \in 1 .. Len(p) /\ i - 1 \in Nat /\ i - 1 <= Len(p)
  BY <1>1, <1>4
<1>6. a[i - 1] = Clone!EntryAt(id, q)
  <2>1. Clone!Along(id, p)[i - 1] = Clone!Along(id, q)[i - 1]
    <3>1. \A j \in 1 .. (i - 1) : p[j] = q[j]
      OBVIOUS
    <3> HIDE DEF q
    <3> QED BY <1>2, <1>4, <1>5, <3>1, AlongSame
  <2> QED BY <1>2, <2>1 DEF Clone!EntryAt
<1> HIDE DEF a, q
<1>7. a[i - 1].id = st[i].tree
  BY <1>2, <1>6
<1>8. /\ a[i - 1].id \in Clone!Trees
      /\ \E k \in 1 .. Len(Object[a[i - 1].id].entries) : Object[a[i - 1].id].entries[k].name = p[i] /\ a[i] = Object[a[i - 1].id].entries[k]
      /\ i < Len(p) => a[i].mode = "dir"
      /\ i = Len(p) => Clone!IsFile(a[i])
  BY <1>5, BelowThrough DEF a
<1>9. PICK k \in 1 .. Len(Object[st[i].tree].entries) : Object[st[i].tree].entries[k].name = p[i] /\ a[i] = Object[st[i].tree].entries[k]
  BY <1>7, <1>8
<1>10. p[i] \notin Clone!skipped
  BY <1>4, <1>5
<1>11. Leads(Object[st[i].tree].entries[k], i, p)
  BY <1>8, <1>9, <1>10 DEF Leads
<1> QED BY <1>4, <1>7, <1>8, <1>11

(* A path in the tree of a frame, by the entry with the name x. *)
Passing(f, i, p, x) == i <= Len(p) /\ (\A j \in 1 .. (i - 1) : p[j] = f.dir[j]) /\ p[i] = x

(* Which entry it is that a file is passed at. *)
LEMMA PassedAt ==
    ASSUME Clone!CloneConstants, NEW id, NEW st \in Seq(Frames), NEW i \in 1 .. Len(st), FrameFits(st, i, id),
           NEW k \in 1 .. Len(Object[st[i].tree].entries), NEW p \in Clone!Below(id),
           Passing(st[i], i, p, Object[st[i].tree].entries[k].name)
    PROVE  Leads(Object[st[i].tree].entries[k], i, p) /\ Len(p) \in Nat /\ p \in Seq(Clone!Names)
<1>1. /\ st[i].tree \in Clone!Trees /\ p \in Seq(Clone!Names) /\ Len(p) \in Nat
      /\ \E l \in 1 .. Len(Object[st[i].tree].entries) : Leads(Object[st[i].tree].entries[l], i, p)
  <2>1. i <= Len(p) /\ \A j \in 1 .. (i - 1) : p[j] = st[i].dir[j]
    BY DEF Passing
  <2> QED BY <2>1, FrameLeads
<1> DEFINE es == Object[st[i].tree].entries
<1>2. PICK l \in 1 .. Len(es) : Leads(es[l], i, p)
  BY <1>1
<1>3. es[k].name = p[i] /\ k \in 1 .. Len(es)
  BY DEF Passing
<1>4. \A a, b \in 1 .. Len(es) : es[a].name = es[b].name => a = b
  <2>1. DOMAIN es = 1 .. Len(es)
    BY <1>1, CloneFacts
  <2>2. \A a, b \in DOMAIN es : es[a].name = es[b].name => a = b
    BY <1>1 DEF Clone!CloneConstants, Clone!ObjectsSound
  <2> QED BY <2>1, <2>2
<1> HIDE DEF es
<1>5. l = k
  BY <1>2, <1>3, <1>4 DEF Leads
<1> QED BY <1>1, <1>2, <1>5 DEF es

(* Nothing has been passed when the walk starts. *)
LEMMA WalkStarts ==
    ASSUME Clone!CloneConstants, NEW id \in Clone!Ids
    PROVE  WalkFits(<<[tree |-> id, dir |-> <<>>, at |-> 1]>>, id, {}, 0, 0)
<1> DEFINE f == [tree |-> id, dir |-> <<>>, at |-> 1]
           st == <<f>>
<1>1. f \in Frames
  BY DEF Frames
<1>2. st \in Seq(Frames) /\ Len(st) = 1 /\ st[1] = f
  BY <1>1
<1>3. Clone!EntryAt(id, <<>>) = Top(id)
  <2>1. <<>> \in Seq({None}) /\ None \in {None}
    OBVIOUS
  <2> QED BY <2>1, EntryAppended
<1>4. FrameFits(st, 1, id)
  <2>1. Len(f.dir) = 0 /\ f.tree = id
    OBVIOUS
  <2>2. id \in Clone!Trees => Rank[id] <= Cardinality(Clone!Trees) + 1 - 1
    BY CloneFacts
  <2>3. Clone!EntryAt(id, f.dir).mode = "dir" /\ Clone!EntryAt(id, f.dir).id = id
    BY <1>3 DEF Top
  <2> HIDE DEF f, st
  <2> QED BY <1>2, <2>1, <2>2, <2>3 DEF FrameFits
<1>5. ASSUME NEW p \in Clone!Below(id) PROVE Ahead(st, p)
  <2>1. Len(p) \in 1 .. Cardinality(Clone!Trees) /\ Cardinality(Clone!Trees) \in Nat
    BY PathTypes, CloneFacts DEF Clone!Below
  <2>2. 1 \in 1 .. Len(st) /\ 1 <= Len(p) /\ \A j \in 1 .. (1 - 1) : p[j] = st[1].dir[j]
    BY <1>2, <2>1
  <2> HIDE DEF st
  <2>3. /\ st[1].tree \in Clone!Trees
        /\ \E k \in 1 .. Len(Object[st[1].tree].entries) : Leads(Object[st[1].tree].entries[k], 1, p)
    BY <1>2, <1>4, <2>2, FrameLeads
  <2>4. st[1].at = 1
    BY <1>2
  <2>5. AheadOf(st[1], 1, p)
    BY <2>2, <2>3, <2>4 DEF AheadOf, Leads
  <2> QED BY <2>2, <2>5 DEF Ahead
<1> HIDE DEF f, st
<1>6. Visited(st, id) = {}
  BY <1>5 DEF Visited
<1>7. Clone!Size({}, id) = 0 /\ Cardinality({}) = 0
  BY SizesAddUp, FS_EmptySet
<1>8. {} = {Taken(id, p) : p \in {q \in Visited(st, id) : Text(id, q)}}
  BY <1>6
<1>9. \A i \in 1 .. Len(st) : FrameFits(st, i, id)
  BY <1>2, <1>4
<1>10. WalkFits(st, id, {}, 0, 0)
  BY <1>2, <1>6, <1>7, <1>8, <1>9 DEF WalkFits
<1> QED BY <1>10 DEF st, f

(* A frame at its end is left. *)
LEMMA WalkLeaves ==
    ASSUME Clone!CloneConstants, NEW id, NEW st \in Seq(Frames), st # <<>>, NEW fs, NEW c, NEW b, WalkFits(st, id, fs, c, b),
           LET f == st[Len(st)] IN f.at > Len(Object[f.tree].entries) /\ f.tree \in Clone!Trees
    PROVE  WalkFits(SubSeq(st, 1, Len(st) - 1), id, fs, c, b)
<1> DEFINE n == Len(st)
           s2 == SubSeq(st, 1, n - 1)
<1>1. n \in Nat /\ n >= 1 /\ st[n] \in Frames
  OBVIOUS
<1>2. s2 \in Seq(Frames) /\ Len(s2) = n - 1 /\ \A i \in 1 .. (n - 1) : s2[i] = st[i]
  <2>1. \A i \in 1 .. (n - 1) : st[i] \in Frames
    BY <1>1
  <2>2. 1 \in Int /\ n - 1 \in Int
    BY <1>1
  <2>3. /\ s2 \in Seq(Frames)
        /\ Len(s2) = IF 1 <= n - 1 THEN (n - 1) - 1 + 1 ELSE 0
        /\ \A i \in 1 .. ((n - 1) - 1 + 1) : s2[i] = st[1 + i - 1]
    BY <2>1, <2>2, SubSeqProperties
  <2> HIDE DEF s2
  <2>4. n - 1 \in Nat /\ (n - 1) - 1 + 1 = n - 1 /\ \A i \in 1 .. (n - 1) : 1 + i - 1 = i
    BY <1>1
  <2> HIDE DEF n
  <2> QED BY <2>3, <2>4
<1>3. ASSUME NEW p PROVE Ahead(s2, p) <=> Ahead(st, p)
  <2>1. ~AheadOf(st[n], n, p)
    <3>1. st[n].at \in Nat /\ Len(Object[st[n].tree].entries) \in Nat
      BY <1>1, CloneFacts DEF Frames
    <3> QED BY <3>1 DEF AheadOf
  <2> HIDE DEF s2
  <2>2. \A i \in 1 .. n : i = n \/ i \in 1 .. (n - 1)
    BY <1>1
  <2>3. \A i \in 1 .. (n - 1) : i \in 1 .. n
    BY <1>1
  <2> QED BY <1>2, <2>1, <2>2, <2>3 DEF Ahead
<1>4. ASSUME NEW i \in 1 .. Len(s2) PROVE FrameFits(s2, i, id)
  <2>1. i \in 1 .. n /\ FrameFits(st, i, id) /\ s2[i] = st[i]
    BY <1>1, <1>2 DEF WalkFits
  <2>2. Gone(s2, i) = Gone(st, i) /\ \A j \in 1 .. (i - 1) : Gone(s2, j) = Gone(st, j)
    <3> HIDE DEF s2
    <3>1. \A j \in 1 .. (i - 1) : s2[j] = st[j]
      BY <1>1, <1>2
    <3> QED BY <2>1, <3>1 DEF Gone
  <2>3. i < Len(s2) => i < Len(st)
    BY <1>1, <1>2
  <2> HIDE DEF s2
  <2> QED BY <2>1, <2>2, <2>3 DEF FrameFits
<1> HIDE DEF s2
<1>5. Visited(s2, id) = Visited(st, id)
  BY <1>3 DEF Visited
<1> QED BY <1>2, <1>4, <1>5 DEF WalkFits, s2

(* The walk at an entry: of the innermost tree, not past its end. *)
Advance(st) == [st EXCEPT ![Len(st)].at = @ + 1]
Entry(st) == Object[st[Len(st)].tree].entries[st[Len(st)].at]
AtEntry(st) ==
    /\ st \in Seq(Frames) /\ st # <<>>
    /\ st[Len(st)].tree \in Clone!Trees
    /\ st[Len(st)].at <= Len(Object[st[Len(st)].tree].entries)

(* What an advance changes. *)
LEMMA Advances ==
    ASSUME Clone!CloneConstants, NEW st, AtEntry(st)
    PROVE  LET n == Len(st)
           IN  /\ n \in Nat /\ n >= 1 /\ st[n].at \in 1 .. Len(Object[st[n].tree].entries)
               /\ Advance(st) \in Seq(Frames) /\ Len(Advance(st)) = n
               /\ \A i \in 1 .. (n - 1) : Advance(st)[i] = st[i]
               /\ Advance(st)[n].tree = st[n].tree /\ Advance(st)[n].dir = st[n].dir /\ Advance(st)[n].at = st[n].at + 1
<1> DEFINE n == Len(st)
           f == [st[n] EXCEPT !.at = @ + 1]
           s2 == [st EXCEPT ![n] = f]
<1>1. n \in Nat /\ n >= 1 /\ n \in 1 .. n /\ st \in Seq(Frames) /\ st[n] \in Frames
  BY DEF AtEntry
<1>2. f \in Frames /\ f.tree = st[n].tree /\ f.dir = st[n].dir /\ f.at = st[n].at + 1
  <2>1. \A g \in Frames : LET h == [g EXCEPT !.at = g.at + 1]
                         IN  h \in Frames /\ h.tree = g.tree /\ h.dir = g.dir /\ h.at = g.at + 1
    BY DEF Frames
  <2>2. f = [st[n] EXCEPT !.at = st[n].at + 1]
    BY <1>1 DEF Frames
  <2> HIDE DEF n
  <2> QED BY <1>1, <2>1, <2>2
<1>3. st[n].at \in 1 .. Len(Object[st[n].tree].entries)
  <2>1. st[n].at \in Nat \ {0}
    BY <1>1 DEF Frames
  <2>2. Len(Object[st[n].tree].entries) \in Nat /\ st[n].at <= Len(Object[st[n].tree].entries)
    BY CloneFacts DEF AtEntry
  <2> QED BY <2>1, <2>2
<1>4. Advance(st) = s2
  BY DEF Advance
<1> HIDE DEF f
<1>5. s2 \in Seq(Frames) /\ Len(s2) = n /\ s2[n] = f /\ \A i \in 1 .. (n - 1) : s2[i] = st[i]
  BY <1>1, <1>2
<1> QED BY <1>1, <1>2, <1>3, <1>4, <1>5

(* The names in a tree are different. *)
LEMMA NamesDiffer ==
    ASSUME Clone!CloneConstants, NEW id \in Clone!Trees,
           NEW k \in 1 .. Len(Object[id].entries), NEW l \in 1 .. Len(Object[id].entries),
           Object[id].entries[k].name = Object[id].entries[l].name
    PROVE  k = l
<1> DEFINE es == Object[id].entries
<1>1. DOMAIN es = 1 .. Len(es)
  BY CloneFacts
<1>2. \A i, j \in DOMAIN es : es[i].name = es[j].name => i = j
  BY DEF Clone!CloneConstants, Clone!ObjectsSound
<1> QED BY <1>1, <1>2

(* An advance leaves the frames where they were. *)
LEMMA AdvanceFits ==
    ASSUME Clone!CloneConstants, NEW id, NEW st, AtEntry(st), \A i \in 1 .. Len(st) : FrameFits(st, i, id),
           NEW i \in 1 .. Len(st)
    PROVE  FrameFits(Advance(st), i, id)
<1> DEFINE n == Len(st)
           s2 == Advance(st)
<1>1. /\ n \in Nat /\ n >= 1
      /\ Len(s2) = n /\ \A j \in 1 .. (n - 1) : s2[j] = st[j]
      /\ s2[n].tree = st[n].tree /\ s2[n].dir = st[n].dir
  BY Advances
<1> HIDE DEF s2
<1>2. s2[i].tree = st[i].tree /\ s2[i].dir = st[i].dir /\ (i < n => s2[i] = st[i])
  <2>1. i = n \/ i \in 1 .. (n - 1)
    BY <1>1
  <2> QED BY <1>1, <2>1
<1>3. \A j \in 1 .. (i - 1) : s2[j] = st[j]
  BY <1>1
<1>4. FrameFits(st, i, id)
  OBVIOUS
<1>5. (\A j \in 1 .. (i - 1) : Gone(s2, j) = Gone(st, j)) /\ (i < n => Gone(s2, i) = Gone(st, i))
  BY <1>2, <1>3 DEF Gone
<1>6. FrameFits(s2, i, id)
  BY <1>1, <1>2, <1>4, <1>5 DEF FrameFits
<1> QED BY <1>6 DEF s2

(* An advance passes the files of one entry. *)
LEMMA AdvancePasses ==
    ASSUME Clone!CloneConstants, NEW st, AtEntry(st), NEW p
    PROVE  /\ Ahead(Advance(st), p) => Ahead(st, p)
           /\ Ahead(st, p) => Ahead(Advance(st), p) \/ Passing(st[Len(st)], Len(st), p, Entry(st).name)
<1> DEFINE n == Len(st)
           s2 == Advance(st)
           es == Object[st[n].tree].entries
<1>1. /\ n \in Nat /\ n >= 1 /\ st[n].at \in 1 .. Len(es)
      /\ Len(s2) = n /\ \A j \in 1 .. (n - 1) : s2[j] = st[j]
      /\ s2[n].tree = st[n].tree /\ s2[n].dir = st[n].dir /\ s2[n].at = st[n].at + 1
  BY Advances
<1>2. Entry(st) = es[st[n].at]
  BY DEF Entry
<1>3. Len(es) \in Nat
  BY CloneFacts DEF AtEntry
<1> HIDE DEF s2
<1>4. ASSUME AheadOf(s2[n], n, p) PROVE AheadOf(st[n], n, p)
  <2>1. PICK k \in s2[n].at .. Len(Object[s2[n].tree].entries) : Object[s2[n].tree].entries[k].name = p[n]
    BY <1>4 DEF AheadOf
  <2>2. k \in st[n].at .. Len(es) /\ es[k].name = p[n]
    BY <1>1, <1>3, <2>1
  <2> QED BY <1>1, <1>4, <2>2 DEF AheadOf
<1>5. ASSUME AheadOf(st[n], n, p) PROVE AheadOf(s2[n], n, p) \/ Passing(st[n], n, p, es[st[n].at].name)
  <2>1. PICK k \in st[n].at .. Len(es) : es[k].name = p[n]
    BY <1>5 DEF AheadOf
  <2>2. CASE k = st[n].at
    BY <1>5, <2>1, <2>2 DEF AheadOf, Passing
  <2>3. CASE k # st[n].at
    <3>1. k \in s2[n].at .. Len(Object[s2[n].tree].entries) /\ Object[s2[n].tree].entries[k].name = p[n]
      BY <1>1, <1>3, <2>1, <2>3
    <3> QED BY <1>1, <1>5, <3>1 DEF AheadOf
  <2> QED BY <2>2, <2>3
<1>6. \A i \in 1 .. n : i = n \/ (i \in 1 .. (n - 1) /\ s2[i] = st[i])
  BY <1>1
<1>7. Ahead(s2, p) => Ahead(st, p)
  BY <1>1, <1>4, <1>6 DEF Ahead
<1>8. Ahead(st, p) => Ahead(s2, p) \/ Passing(st[n], n, p, es[st[n].at].name)
  BY <1>1, <1>5, <1>6 DEF Ahead
<1> QED BY <1>2, <1>7, <1>8 DEF s2

(* An entry that is left out passes no file. *)
LEMMA WalkSkips ==
    ASSUME Clone!CloneConstants, NEW id, NEW st, AtEntry(st), NEW fs, NEW c, NEW b, WalkFits(st, id, fs, c, b),
           Entry(st).name \in Clone!skipped \/ Entry(st).mode \notin Clone!Regular \cup {"dir"}
    PROVE  WalkFits(Advance(st), id, fs, c, b)
<1> DEFINE n == Len(st)
<1>1. /\ n \in Nat /\ n >= 1 /\ st[n].at \in 1 .. Len(Object[st[n].tree].entries)
      /\ Advance(st) \in Seq(Frames) /\ Len(Advance(st)) = n
  BY Advances
<1>2. \A i \in 1 .. n : FrameFits(st, i, id)
  BY DEF WalkFits
<1>3. ASSUME NEW p \in Clone!Below(id), Passing(st[n], n, p, Entry(st).name) PROVE FALSE
  <2>1. Leads(Entry(st), n, p) /\ Len(p) \in Nat /\ n <= Len(p)
    <3>1. n \in 1 .. Len(st) /\ st \in Seq(Frames)
      BY <1>1 DEF AtEntry
    <3> QED BY <1>1, <1>2, <1>3, <3>1, PassedAt DEF Entry, Passing
  <2> QED BY <1>1, <2>1 DEF Leads, Clone!IsFile
<1>4. Visited(Advance(st), id) = Visited(st, id)
  BY <1>3, AdvancePasses DEF Visited
<1>5. \A i \in 1 .. n : FrameFits(Advance(st), i, id)
  BY <1>2, AdvanceFits
<1> QED BY <1>1, <1>4, <1>5 DEF WalkFits

(* The names of entries are Names. *)
LEMMA EntriesNamed ==
    ASSUME NEW id \in Clone!Trees, NEW k \in DOMAIN Object[id].entries
    PROVE  Object[id].entries[k].name \in Clone!Names
<1> DEFINE Of(t) == {Object[t].entries[i].name : i \in DOMAIN Object[t].entries}
<1>1. Clone!Names = UNION {Of(t) : t \in Clone!Trees}
  BY DEF Clone!Names
<1>2. Object[id].entries[k].name \in Of(id)
  OBVIOUS
<1> HIDE DEF Of
<1> QED BY <1>1, <1>2

(* Going into a directory passes nothing: its files are ahead of the new frame. *)
LEMMA WalkDescends ==
    ASSUME Clone!CloneConstants, NEW id, NEW st, AtEntry(st), NEW fs, NEW c, NEW b, WalkFits(st, id, fs, c, b),
           Entry(st).name \notin Clone!skipped, Entry(st).mode = "dir"
    PROVE  WalkFits(Append(Advance(st), [tree |-> Entry(st).id, dir |-> Append(st[Len(st)].dir, Entry(st).name), at |-> 1]),
                    id, fs, c, b)
<1> DEFINE n == Len(st)
           f == st[n]
           e == Entry(st)
           g == [tree |-> e.id, dir |-> Append(f.dir, e.name), at |-> 1]
           s2 == Advance(st)
           s3 == Append(s2, g)
<1>1. /\ n \in Nat /\ n >= 1 /\ f.at \in 1 .. Len(Object[f.tree].entries)
      /\ s2 \in Seq(Frames) /\ Len(s2) = n
      /\ \A j \in 1 .. (n - 1) : s2[j] = st[j]
      /\ s2[n].tree = f.tree /\ s2[n].dir = f.dir /\ s2[n].at = f.at + 1
  BY Advances
<1>2. /\ st \in Seq(Frames) /\ n \in 1 .. n /\ f \in Frames /\ f.tree \in Clone!Trees
      /\ \A i \in 1 .. n : FrameFits(st, i, id) /\ FrameFits(s2, i, id)
  <2>1. st \in Seq(Frames) /\ f.tree \in Clone!Trees /\ n \in 1 .. n
    BY <1>1 DEF AtEntry
  <2>2. \A i \in 1 .. n : FrameFits(st, i, id)
    BY DEF WalkFits
  <2> QED BY <1>1, <2>1, <2>2, AdvanceFits
<1>3. /\ f.dir \in Seq(Clone!Names) /\ Len(f.dir) = n - 1 /\ e = Object[f.tree].entries[f.at]
      /\ Clone!EntryAt(id, f.dir).mode = "dir" /\ Clone!EntryAt(id, f.dir).id = f.tree
      /\ Rank[f.tree] <= Cardinality(Clone!Trees) + 1 - n
  BY <1>2 DEF Frames, FrameFits, Entry
<1>4. DOMAIN Object[f.tree].entries = 1 .. Len(Object[f.tree].entries) /\ Len(Object[f.tree].entries) \in Nat
  BY <1>2, CloneFacts
<1>5. e.name \in Clone!Names /\ e.id \in Clone!Ids
  <2>1. f.at \in DOMAIN Object[f.tree].entries
    BY <1>1, <1>4
  <2>2. \A i \in DOMAIN Object[f.tree].entries : Object[f.tree].entries[i].mode = "dir" => Object[f.tree].entries[i].id \in Clone!Ids
    BY <1>2 DEF Clone!CloneConstants, Clone!ObjectsSound
  <2>3. e.name \in Clone!Names
    BY <1>2, <1>3, <2>1, EntriesNamed
  <2> QED BY <1>3, <2>1, <2>2, <2>3
<1> HIDE DEF e
<1>6. g \in Frames /\ g.tree = e.id /\ g.dir = Append(f.dir, e.name) /\ g.at = 1
  <2>1. Append(f.dir, e.name) \in Seq(Clone!Names)
    BY <1>3, <1>5, AppendProperties
  <2> QED BY <1>5, <2>1 DEF Frames
<1> HIDE DEF s2
<1>7. s3 \in Seq(Frames) /\ Len(s3) = n + 1 /\ s3[n + 1] = g /\ \A i \in 1 .. n : s3[i] = s2[i]
  BY <1>1, <1>6, AppendProperties
<1>8. Len(g.dir) = n /\ g.dir[n] = e.name /\ \A j \in 1 .. (n - 1) : g.dir[j] = f.dir[j]
  <2> DEFINE d == Append(f.dir, e.name)
  <2>1. Len(d) = Len(f.dir) + 1 /\ d[Len(f.dir) + 1] = e.name /\ \A j \in 1 .. Len(f.dir) : d[j] = f.dir[j]
    BY <1>3, <1>5, AppendProperties
  <2>2. Len(f.dir) + 1 = n
    BY <1>1, <1>3
  <2>3. g.dir = d
    BY <1>6
  <2> HIDE DEF d, g
  <2> QED BY <1>3, <2>1, <2>2, <2>3
<1> HIDE DEF g
<1> HIDE DEF s3
<1>9. Clone!EntryAt(id, g.dir) = e
  <2>1. Clone!EntryAt(id, g.dir) = Onward(Clone!EntryAt(id, f.dir), e.name)
    BY <1>3, <1>5, <1>6, EntryAppended
  <2>2. Clone!Child(f.tree, e.name) = e
    BY <1>1, <1>2, <1>3, ChildIs
  <2> QED BY <1>3, <2>1, <2>2 DEF Onward
<1>10. Gone(s3, n) = e /\ \A j \in 1 .. (n - 1) : Gone(s3, j) = Gone(st, j)
  <2>1. s3[n].tree = f.tree /\ s3[n].at - 1 = f.at
    BY <1>1, <1>2, <1>7
  <2>2. \A j \in 1 .. (n - 1) : s3[j] = st[j]
    BY <1>1, <1>7
  <2> QED BY <1>3, <2>1, <2>2 DEF Gone
<1>11. FrameFits(s3, n + 1, id)
  <2>1. \A j \in 1 .. n : g.dir[j] = Gone(s3, j).name
    <3>1. \A j \in 1 .. (n - 1) : f.dir[j] = Gone(st, j).name
      BY <1>2 DEF FrameFits
    <3>2. \A j \in 1 .. n : j = n \/ j \in 1 .. (n - 1)
      BY <1>1
    <3> QED BY <1>8, <1>10, <3>1, <3>2
  <2>2. g.tree \in Clone!Trees => Rank[g.tree] <= Cardinality(Clone!Trees) + 1 - (n + 1)
    <3> SUFFICES ASSUME e.id \in Clone!Trees PROVE Rank[e.id] <= Cardinality(Clone!Trees) + 1 - (n + 1)
      BY <1>6
    <3>1. Rank[e.id] < Rank[f.tree]
      <4>1. f.at \in DOMAIN Object[f.tree].entries
        BY <1>1, <1>4
      <4>2. Descends(Rank)
        BY CloneFacts
      <4>3. LET x == Object[f.tree].entries[f.at] IN x.mode = "dir" /\ x.id \in Clone!Trees => Rank[x.id] < Rank[f.tree]
        BY <1>2, <4>1, <4>2 DEF Descends
      <4> QED BY <1>3, <4>3 DEF e
    <3>2. Rank[e.id] \in Nat /\ Rank[f.tree] \in Nat /\ Cardinality(Clone!Trees) \in Nat
      BY <1>2, CloneFacts
    <3>3. PICK x \in Nat, y \in Nat, m \in Nat : x = Rank[e.id] /\ y = Rank[f.tree] /\ m = Cardinality(Clone!Trees)
      BY <3>2
    <3>4. x < y /\ y <= m + 1 - n
      BY <1>3, <3>1, <3>3
    <3>5. x <= m + 1 - (n + 1)
      <4> HIDE DEF n
      <4> QED BY <1>1, <3>4
    <3> QED BY <3>3, <3>5
  <2>3. (n + 1) - 1 = n /\ ~(n + 1 < n + 1)
    BY <1>1
  <2>4. s3[n + 1].dir = g.dir /\ s3[n + 1].tree = g.tree /\ Len(s3) = n + 1
    BY <1>7
  <2>5. Clone!EntryAt(id, g.dir).mode = "dir" /\ Clone!EntryAt(id, g.dir).id = g.tree
    BY <1>6, <1>9 DEF e
  <2> HIDE DEF n
  <2> QED BY <1>8, <2>1, <2>2, <2>3, <2>4, <2>5 DEF FrameFits
<1>12. ASSUME NEW i \in 1 .. n PROVE FrameFits(s3, i, id)
  <2>1. FrameFits(st, i, id)
    BY <1>2
  <2>2. s3[i].tree = st[i].tree /\ s3[i].dir = st[i].dir /\ (i < n => s3[i] = st[i])
    <3>1. i = n \/ i \in 1 .. (n - 1)
      BY <1>1
    <3> QED BY <1>1, <1>7, <3>1
  <2>3. (\A j \in 1 .. (i - 1) : Gone(s3, j) = Gone(st, j)) /\ (i < n => Gone(s3, i) = Gone(st, i))
    BY <1>1, <1>10
  <2>4. i = n => s3[i].at \in 2 .. (Len(Object[s3[i].tree].entries) + 1)
    BY <1>1, <1>4, <1>7, <2>2
  <2>5. i < Len(s3) => /\ s3[i].tree \in Clone!Trees
                      /\ s3[i].at \in 2 .. (Len(Object[s3[i].tree].entries) + 1)
                      /\ Gone(s3, i).name \notin Clone!skipped
    <3>1. CASE i = n
      BY <1>2, <1>10, <2>2, <2>4, <3>1 DEF e
    <3>2. CASE i # n
      <4>1. i < n
        BY <1>1, <3>2
      <4> QED BY <2>1, <2>2, <2>3, <4>1 DEF FrameFits
    <3> QED BY <3>1, <3>2
  <2> QED BY <2>1, <2>2, <2>3, <2>5 DEF FrameFits
<1>13. \A i \in 1 .. Len(s3) : FrameFits(s3, i, id)
  <2>1. \A i \in 1 .. (n + 1) : i = n + 1 \/ i \in 1 .. n
    BY <1>1
  <2> QED BY <1>7, <1>11, <1>12, <2>1
<1>14. ASSUME NEW p \in Clone!Below(id) PROVE Ahead(s3, p) <=> Ahead(st, p)
  <2>1. Ahead(s3, p) <=> Ahead(s2, p) \/ AheadOf(g, n + 1, p)
    <3>1. \A i \in 1 .. (n + 1) : i = n + 1 \/ i \in 1 .. n
      BY <1>1
    <3>2. n + 1 \in 1 .. (n + 1) /\ \A i \in 1 .. n : i \in 1 .. (n + 1)
      BY <1>1
    <3> QED BY <1>1, <1>7, <3>1, <3>2 DEF Ahead
  <2>2. /\ Ahead(s2, p) => Ahead(st, p)
        /\ Ahead(st, p) => Ahead(s2, p) \/ Passing(f, n, p, e.name)
    BY AdvancePasses DEF s2, e
  <2>3. AheadOf(g, n + 1, p) => Ahead(st, p)
    <3> SUFFICES ASSUME AheadOf(g, n + 1, p) PROVE Ahead(st, p)
      OBVIOUS
    <3>1. n + 1 <= Len(p) /\ \A j \in 1 .. n : p[j] = g.dir[j]
      BY <1>1 DEF AheadOf
    <3>2. n <= Len(p) /\ (\A j \in 1 .. (n - 1) : p[j] = f.dir[j]) /\ p[n] = e.name
      <4>1. Len(p) \in Nat
        BY PathTypes DEF Clone!Below
      <4> QED BY <1>1, <1>8, <3>1, <4>1
    <3>3. f.at \in f.at .. Len(Object[f.tree].entries)
      BY <1>1, <1>4
    <3>4. AheadOf(f, n, p)
      BY <1>2, <1>3, <3>2, <3>3 DEF AheadOf
    <3> QED BY <1>2, <3>4 DEF Ahead
  <2>4. Passing(f, n, p, e.name) => AheadOf(g, n + 1, p)
    <3> SUFFICES ASSUME Passing(f, n, p, e.name) PROVE AheadOf(g, n + 1, p)
      OBVIOUS
    <3>1. Leads(e, n, p) /\ Len(p) \in Nat
      BY <1>1, <1>2, <1>3, PassedAt
    <3>2. n # Len(p)
      BY <3>1 DEF Leads, Clone!IsFile, Clone!Regular, e
    <3>3. n + 1 <= Len(p) /\ \A j \in 1 .. n : p[j] = g.dir[j]
      <4>1. \A j \in 1 .. n : j = n \/ j \in 1 .. (n - 1)
        BY <1>1
      <4>2. n + 1 <= Len(p)
        BY <1>1, <3>1, <3>2 DEF Passing
      <4>3. (\A j \in 1 .. (n - 1) : p[j] = f.dir[j]) /\ p[n] = e.name
        BY DEF Passing
      <4>4. ASSUME NEW j \in 1 .. n PROVE p[j] = g.dir[j]
        BY <1>8, <4>1, <4>3
      <4> QED BY <4>2, <4>4
    <3>4. /\ s3[n + 1].tree \in Clone!Trees
          /\ \E k \in 1 .. Len(Object[s3[n + 1].tree].entries) : Leads(Object[s3[n + 1].tree].entries[k], n + 1, p)
      <4>1. n + 1 \in 1 .. Len(s3) /\ (n + 1) - 1 = n
        BY <1>1, <1>7
      <4>2. \A j \in 1 .. ((n + 1) - 1) : p[j] = s3[n + 1].dir[j]
        BY <1>7, <3>3, <4>1
      <4> QED BY <1>7, <1>11, <3>3, <4>1, <4>2, FrameLeads
    <3>5. g.at = 1 /\ (n + 1) - 1 = n
      BY <1>1, <1>6
    <3> QED BY <1>7, <3>3, <3>4, <3>5 DEF AheadOf, Leads
  <2> QED BY <2>1, <2>2, <2>3, <2>4
<1>15. Visited(s3, id) = Visited(st, id)
  BY <1>14 DEF Visited
<1>16. WalkFits(s3, id, fs, c, b)
  BY <1>7, <1>13, <1>15 DEF WalkFits
<1> QED BY <1>16 DEF s3, s2, g, e

(* A file is passed when it is taken, it alone, and it counts with its size. *)
LEMMA WalkTakes ==
    ASSUME Clone!CloneConstants, NEW id, NEW st, AtEntry(st), NEW fs, NEW c, NEW b, WalkFits(st, id, fs, c, b),
           Entry(st).name \notin Clone!skipped, Clone!IsFile(Entry(st))
    PROVE  LET e == Entry(st)
               q == Append(st[Len(st)].dir, e.name)
           IN  /\ WalkFits(Advance(st), id, IF Object[e.id].text THEN fs \cup {[path |-> q, blob |-> e.id]} ELSE fs,
                           c + 1, b + Object[e.id].size)
               /\ {c, b, c + 1, b + Object[e.id].size} \subseteq Nat
<1> DEFINE n == Len(st)
           f == st[n]
           e == Entry(st)
           q == Append(f.dir, e.name)
           s2 == Advance(st)
<1>1. /\ n \in Nat /\ n >= 1 /\ f.at \in 1 .. Len(Object[f.tree].entries)
      /\ s2 \in Seq(Frames) /\ Len(s2) = n
      /\ \A j \in 1 .. (n - 1) : s2[j] = st[j]
      /\ s2[n].tree = f.tree /\ s2[n].dir = f.dir /\ s2[n].at = f.at + 1
  BY Advances
<1>2. /\ st \in Seq(Frames) /\ n \in 1 .. n /\ f \in Frames /\ f.tree \in Clone!Trees
      /\ \A i \in 1 .. n : FrameFits(st, i, id) /\ FrameFits(s2, i, id)
  <2>1. st \in Seq(Frames) /\ f.tree \in Clone!Trees /\ n \in 1 .. n
    BY <1>1 DEF AtEntry
  <2>2. \A i \in 1 .. n : FrameFits(st, i, id)
    BY DEF WalkFits
  <2> QED BY <1>1, <2>1, <2>2, AdvanceFits
<1>3. /\ f.dir \in Seq(Clone!Names) /\ Len(f.dir) = n - 1 /\ e = Object[f.tree].entries[f.at]
      /\ Clone!EntryAt(id, f.dir).mode = "dir" /\ Clone!EntryAt(id, f.dir).id = f.tree
      /\ Rank[f.tree] <= Cardinality(Clone!Trees) + 1 - n
      /\ \A j \in 1 .. (n - 1) : f.dir[j] = Gone(st, j).name
  BY <1>2 DEF Frames, FrameFits, Entry
<1>4. DOMAIN Object[f.tree].entries = 1 .. Len(Object[f.tree].entries) /\ Len(Object[f.tree].entries) \in Nat
  BY <1>2, CloneFacts
<1>5. e.name \in Clone!Names
  BY <1>1, <1>2, <1>3, <1>4, EntriesNamed
<1> HIDE DEF e
<1>6. q \in Seq(Clone!Names) /\ Len(q) = n /\ q[n] = e.name /\ \A j \in 1 .. (n - 1) : q[j] = f.dir[j]
  <2>1. q \in Seq(Clone!Names) /\ Len(q) = Len(f.dir) + 1 /\ q[Len(f.dir) + 1] = e.name /\ \A j \in 1 .. Len(f.dir) : q[j] = f.dir[j]
    BY <1>3, <1>5, AppendProperties
  <2>2. Len(f.dir) + 1 = n
    BY <1>1, <1>3
  <2> HIDE DEF q
  <2> QED BY <1>3, <2>1, <2>2
<1>7. Clone!EntryAt(id, q) = e
  <2>1. Clone!EntryAt(id, q) = Onward(Clone!EntryAt(id, f.dir), e.name)
    BY <1>3, <1>5, EntryAppended
  <2>2. Clone!Child(f.tree, e.name) = e
    BY <1>1, <1>2, <1>3, ChildIs
  <2> QED BY <1>3, <2>1, <2>2 DEF Onward
<1> HIDE DEF q, s2
<1>8. q \in Clone!Below(id)
  <2>1. n <= Cardinality(Clone!Trees)
    <3>1. Rank[f.tree] \in 1 .. Cardinality(Clone!Trees) /\ Cardinality(Clone!Trees) \in Nat
      BY <1>2, CloneFacts
    <3> QED BY <1>1, <1>3, <3>1
  <2>2. ASSUME NEW j \in 1 .. n PROVE q[j] \notin Clone!skipped
    <3>1. CASE j = n
      BY <1>6, <3>1 DEF e
    <3>2. CASE j # n
      <4>1. j \in 1 .. (n - 1) /\ j \in 1 .. n /\ j < n
        BY <1>1, <3>2
      <4>2. Gone(st, j).name \notin Clone!skipped
        BY <1>2, <4>1 DEF FrameFits
      <4> QED BY <1>3, <1>6, <4>1, <4>2
    <3> QED BY <3>1, <3>2
  <2>3. Len(q) \in 1 .. Cardinality(Clone!Trees)
    BY <1>1, <1>6, <2>1, CloneFacts
  <2>4. q \in Clone!Paths
    BY <1>6, <2>2, <2>3, PathTypes
  <2>5. Clone!IsFile(Clone!EntryAt(id, q))
    BY <1>7 DEF e
  <2> QED BY <2>4, <2>5 DEF Clone!Below
<1>9. Ahead(st, q)
  <2>1. f.at \in f.at .. Len(Object[f.tree].entries)
    BY <1>1, <1>4
  <2>2. n <= Len(q)
    BY <1>1, <1>6
  <2>3. AheadOf(f, n, q)
    BY <1>2, <1>3, <1>6, <2>1, <2>2 DEF AheadOf
  <2> QED BY <1>2, <2>3 DEF Ahead
<1>10. ~Ahead(s2, q)
  <2> SUFFICES ASSUME NEW i \in 1 .. n, AheadOf(s2[i], i, q) PROVE FALSE
    BY <1>1 DEF Ahead
  <2>1. PICK k \in s2[i].at .. Len(Object[s2[i].tree].entries) : Object[s2[i].tree].entries[k].name = q[i]
    BY DEF AheadOf
  <2>2. CASE i = n
    <3> DEFINE items == Object[f.tree].entries
    <3>1. s2[i].tree = f.tree /\ s2[i].at = f.at + 1
      BY <1>1, <2>2
    <3>2. k \in (f.at + 1) .. Len(items) /\ items[k].name = q[n]
      BY <2>1, <2>2, <3>1
    <3>3. e = items[f.at]
      BY <1>3
    <3>4. items[k].name = items[f.at].name
      BY <1>6, <3>2, <3>3
    <3>5. f.at \in 1 .. Len(items) /\ Len(items) \in Nat
      BY <1>1, <1>4
    <3> HIDE DEF items
    <3>6. k \in 1 .. Len(items) /\ k # f.at
      BY <3>2, <3>5
    <3>7. k \in 1 .. Len(Object[f.tree].entries) /\ k # f.at
          /\ Object[f.tree].entries[k].name = Object[f.tree].entries[f.at].name
      BY <3>4, <3>6 DEF items
    <3> QED BY <1>1, <1>2, <3>7, NamesDiffer
  <2>3. CASE i # n
    <3>1. i \in 1 .. (n - 1) /\ i < n
      BY <1>1, <2>3
    <3>2. s2[i] = st[i] /\ q[i] = Gone(st, i).name
      BY <1>1, <1>3, <1>6, <3>1
    <3>3. st[i].tree \in Clone!Trees /\ st[i].at \in 2 .. (Len(Object[st[i].tree].entries) + 1)
      BY <1>2, <3>1 DEF FrameFits
    <3>4. Len(Object[st[i].tree].entries) \in Nat
      BY <3>3, CloneFacts
    <3> DEFINE t == st[i].tree
               l == st[i].at - 1
    <3>5. k \in 1 .. Len(Object[t].entries) /\ l \in 1 .. Len(Object[t].entries) /\ k # l
      BY <2>1, <3>2, <3>3, <3>4
    <3>6. Object[t].entries[k].name = Object[t].entries[l].name
      BY <2>1, <3>2 DEF Gone
    <3> HIDE DEF t, l
    <3>7. t \in Clone!Trees
      BY <3>3 DEF t
    <3> QED BY <3>5, <3>6, <3>7, NamesDiffer
  <2> QED BY <2>2, <2>3
<1>11. ASSUME NEW p \in Clone!Below(id), Passing(f, n, p, e.name) PROVE p = q
  <2>1. Leads(e, n, p) /\ Len(p) \in Nat /\ p \in Seq(Clone!Names)
    BY <1>1, <1>2, <1>3, <1>11, PassedAt
  <2>2. e.mode # "dir"
    BY DEF e, Clone!IsFile, Clone!Regular
  <2>3. Len(p) = n
    BY <1>1, <1>11, <2>1, <2>2 DEF Leads, Passing
  <2>4. \A j \in 1 .. n : p[j] = q[j]
    <3>1. \A j \in 1 .. n : j = n \/ j \in 1 .. (n - 1)
      BY <1>1
    <3> QED BY <1>6, <1>11, <3>1 DEF Passing
  <2> QED BY <1>6, <2>1, <2>3, <2>4, SeqEqual
<1>12. ASSUME NEW p \in Clone!Below(id)
       PROVE  /\ Ahead(s2, p) => Ahead(st, p)
              /\ Ahead(st, p) => Ahead(s2, p) \/ Passing(f, n, p, e.name)
  BY AdvancePasses DEF s2, e
<1> DEFINE V == Visited(st, id)
<1>13. Visited(s2, id) = V \cup {q} /\ q \notin V /\ V \subseteq Clone!Below(id)
  <2>1. ASSUME NEW p \in Clone!Below(id) PROVE ~Ahead(s2, p) <=> ~Ahead(st, p) \/ p = q
    BY <1>10, <1>11, <1>12
  <2> QED BY <1>8, <1>9, <2>1 DEF Visited
<1>14. fs = {Taken(id, p) : p \in {r \in V : Text(id, r)}} /\ c = Cardinality(V) /\ b = Clone!Size(V, id)
  BY DEF WalkFits
<1> HIDE DEF V
<1>15. Taken(id, q) = [path |-> q, blob |-> e.id] /\ Text(id, q) = Object[e.id].text /\ SizeOf(id, q) = Object[e.id].size
  BY <1>7 DEF Taken, Text, SizeOf
<1>16. IsFiniteSet(V)
  BY <1>13, SizesAddUp, FS_Subset
<1>17. c \in Nat /\ Cardinality(V \cup {q}) = c + 1
  BY <1>13, <1>14, <1>16, FS_CardinalityType, FS_AddElement
<1>18. b \in Nat /\ Object[e.id].size \in Nat /\ Clone!Size(V \cup {q}, id) = b + Object[e.id].size
  BY <1>8, <1>13, <1>14, <1>15, SizesAddUp
<1> DEFINE fs2 == IF Object[e.id].text THEN fs \cup {[path |-> q, blob |-> e.id]} ELSE fs
<1>19. fs2 = {Taken(id, p) : p \in {r \in V \cup {q} : Text(id, r)}}
  BY <1>14, <1>15
<1>20. \A i \in 1 .. Len(s2) : FrameFits(s2, i, id)
  BY <1>1, <1>2
<1> HIDE DEF fs2
<1>21. WalkFits(s2, id, fs2, c + 1, b + Object[e.id].size)
  BY <1>1, <1>13, <1>17, <1>18, <1>19, <1>20 DEF WalkFits
<1>22. {c, b, c + 1, b + Object[e.id].size} \subseteq Nat
  BY <1>17, <1>18
<1> QED BY <1>21, <1>22 DEF fs2, s2, q, e

-----------------------------------------------------------------------------
(* The steps of a clone *)

(* The properties of a clone before it ends. *)
LEMMA NotEnded ==
    ASSUME Clone!CloneConstants
    PROVE  (clonePc \notin {"done"} /\ failure \notin {"limit", "nomanifest", "nocommit"} /\ contacted \subseteq Allowed => CloneExact)
  BY DEF CloneExact, Clone!CloneExact, Clone!FilesExact, Clone!RefusedForCause, Clone!AllowedOnly

(* None is no reason. *)
LEMMA NoReason == ASSUME Clone!CloneConstants PROVE None \notin {"limit", "nomanifest", "nocommit"}
  BY DEF Clone!CloneConstants

(* A step that neither walks nor refuses the files. *)
LEMMA PlainStep ==
    ASSUME Clone!CloneConstants, CloneInv, CloneTyped', clonePc' \in {"discover", "upload", "unpack", "failed"},
           clonePc' # "failed" => clonePc \in {"discover", "upload", "unpack"} /\ UNCHANGED <<stack, files, fileCount, totalBytes>>,
           failure' \notin {"limit", "nomanifest", "nocommit"}
    PROVE  CloneInv'
<1>1. clonePc' \in {"discover", "upload", "unpack"} => Unwalked'
  BY DEF CloneInv, Unwalked
<1>2. clonePc' # "walk" /\ clonePc' # "done" /\ contacted' \subseteq Allowed
  BY DEF CloneTyped
<1>3. CloneExact'
  BY <1>2 DEF CloneExact, Clone!CloneExact, Clone!FilesExact, Clone!RefusedForCause, Clone!AllowedOnly
<1> QED BY <1>1, <1>2, <1>3 DEF CloneInv

(* The initial states. *)
LEMMA CloneStarts == ASSUME Clone!CloneConstants, Clone!Init PROVE CloneInv
<1>1. CloneTyped
  <2>1. Home \in Allowed
    BY DEF Clone!CloneConstants
  <2>2. <<>> \in Seq(Clone!Ids)
    OBVIOUS
  <2> QED BY <2>1, <2>2 DEF Clone!Init, CloneTyped
<1>2. Unwalked
  BY DEF Clone!Init, Unwalked
<1>3. clonePc = "discover" /\ failure = None
  BY DEF Clone!Init
<1>4. CloneExact
  BY <1>1, <1>3, NotEnded, NoReason DEF CloneTyped
<1> QED BY <1>1, <1>2, <1>3, <1>4 DEF CloneInv

(* What a ref resolves to is an object, or nothing. *)
LEMMA FirstOfIs ==
    ASSUME Clone!CloneConstants, NEW adv \in Adverts, NEW names \in Seq(DOMAIN adv.refs)
    PROVE  Clone!FirstOf(adv, names) \in Clone!Ids \cup {None}
<1> DEFINE found == {i \in DOMAIN names : adv.refs[names[i]] # None}
<1>1. CASE found = {}
  BY <1>1 DEF Clone!FirstOf
<1>2. CASE found # {}
  <2>1. found \in SUBSET Nat /\ DOMAIN names = 1 .. Len(names)
    OBVIOUS
  <2> HIDE DEF found
  <2>2. PICK m \in found : \A k \in found : m <= k
    BY <1>2, <2>1, LeastOne
  <2>3. Clone!Min(found) \in found
    BY <2>2 DEF Clone!Min
  <2>4. Clone!FirstOf(adv, names) = adv.refs[names[Clone!Min(found)]] /\ names[Clone!Min(found)] \in DOMAIN adv.refs
    BY <1>2, <2>3 DEF Clone!FirstOf, found
  <2> QED BY <2>4 DEF Clone!CloneConstants
<1> QED BY <1>1, <1>2

LEMMA RefResolves ==
    ASSUME Clone!CloneConstants, NEW adv \in Adverts, NEW ref
    PROVE  Clone!resolveGitRef(adv, ref) \in Clone!Ids \cup {None}
<1>1. /\ <<"heads/master", "heads/main">> \in Seq(DOMAIN adv.refs)
      /\ <<"r", "heads/r", "tags/r", "tags/r peeled">> \in Seq(DOMAIN adv.refs)
  <2>1. {"heads/master", "heads/main", "r", "heads/r", "tags/r", "tags/r peeled"} \subseteq DOMAIN adv.refs
    BY DEF Clone!CloneConstants
  <2>2. \A D : \A x, y \in D : <<x, y>> \in Seq(D)
    OBVIOUS
  <2>3. \A D : \A x, y, z, w \in D : <<x, y, z, w>> \in Seq(D)
    OBVIOUS
  <2>4. <<"heads/master", "heads/main">> \in Seq(DOMAIN adv.refs)
    BY <2>1, <2>2
  <2>5. <<"r", "heads/r", "tags/r", "tags/r peeled">> \in Seq(DOMAIN adv.refs)
    BY <2>1, <2>3
  <2> QED BY <2>4, <2>5
<1>2. /\ adv.head \in Clone!Ids \cup {None} /\ adv.sym \in DOMAIN adv.refs \cup {None}
      /\ \A n \in DOMAIN adv.refs : adv.refs[n] \in Clone!Ids \cup {None}
  BY DEF Clone!CloneConstants
<1>3. /\ Clone!FirstOf(adv, <<"heads/master", "heads/main">>) \in Clone!Ids \cup {None}
      /\ Clone!FirstOf(adv, <<"r", "heads/r", "tags/r", "tags/r peeled">>) \in Clone!Ids \cup {None}
  BY <1>1, FirstOfIs
<1>4. CASE ref = "HEAD"
  BY <1>2, <1>3, <1>4 DEF Clone!resolveGitRef
<1>5. CASE ref # "HEAD"
  BY <1>3, <1>5 DEF Clone!resolveGitRef
<1> QED BY <1>4, <1>5

(* The requests and the pack. *)
LEMMA RequestsKeep ==
    ASSUME Clone!CloneConstants, CloneInv,
           Clone!RemoteMoves \/ Clone!Redirected \/ Clone!RequestFails \/ Clone!Discover \/ Clone!Upload \/ Clone!UnpackEntry \/ Clone!UnpackFails
    PROVE  CloneInv'
<1> USE DEF Clone!Fails
<1>1. CloneTyped
  BY DEF CloneInv
<1>2. CASE Clone!RemoteMoves
  <2>1. CloneTyped'
    BY <1>1, <1>2 DEF Clone!RemoteMoves, CloneTyped, Clone!walkVars
  <2> QED BY <1>1, <1>2, <2>1, NoReason, PlainStep DEF Clone!RemoteMoves, CloneTyped, Clone!walkVars
<1>3. CASE Clone!Redirected
  <2>1. CloneTyped'
    BY <1>1, <1>3 DEF Clone!Redirected, CloneTyped, Clone!walkVars
  <2> QED BY <1>1, <1>3, <2>1, NoReason, PlainStep DEF Clone!Redirected, CloneTyped, Clone!walkVars
<1>4. CASE Clone!RequestFails
  <2>1. CloneTyped'
    BY <1>1, <1>4 DEF Clone!RequestFails, CloneTyped, Clone!walkVars
  <2> QED BY <1>1, <1>4, <2>1, NoReason, PlainStep DEF Clone!RequestFails, CloneTyped, Clone!walkVars
<1>5. CASE Clone!Discover
  <2>1. Clone!resolveGitRef(remote, ask.ref) \in Clone!Ids \cup {None} /\ Home \in Allowed
    BY <1>1, RefResolves DEF CloneTyped, Clone!CloneConstants
  <2>2. CloneTyped'
    BY <1>1, <1>5, <2>1 DEF Clone!Discover, CloneTyped, Clone!walkVars
  <2> QED BY <1>1, <1>5, <2>2, NoReason, PlainStep DEF Clone!Discover, CloneTyped, Clone!walkVars
<1>6. CASE Clone!Upload
  <2>1. pack' \in Seq(Clone!Ids)
    BY <1>1, <1>6 DEF Clone!Upload, CloneTyped, Clone!CloneConstants
  <2>2. CloneTyped'
    BY <1>1, <1>6, <2>1 DEF Clone!Upload, CloneTyped, Clone!walkVars
  <2> QED BY <1>1, <1>6, <2>2, NoReason, PlainStep DEF Clone!Upload, CloneTyped, Clone!walkVars
<1>7. CASE Clone!UnpackEntry
  <2>1. Head(pack) \in Clone!Ids /\ Tail(pack) \in Seq(Clone!Ids)
    BY <1>1, <1>7 DEF Clone!UnpackEntry, CloneTyped
  <2>2. CloneTyped'
    BY <1>1, <1>7, <2>1 DEF Clone!UnpackEntry, CloneTyped, Clone!walkVars
  <2> QED BY <1>1, <1>7, <2>2, NoReason, PlainStep DEF Clone!UnpackEntry, CloneTyped, Clone!walkVars
<1>8. CASE Clone!UnpackFails
  <2>1. CloneTyped'
    BY <1>1, <1>8 DEF Clone!UnpackFails, CloneTyped, Clone!walkVars
  <2> QED BY <1>1, <1>8, <2>1, NoReason, PlainStep DEF Clone!UnpackFails, CloneTyped, Clone!walkVars
<1> QED BY <1>2, <1>3, <1>4, <1>5, <1>6, <1>7, <1>8

(* The directory asked for is the entry of that name. *)
LEMMA SubtreeIs ==
    ASSUME Clone!CloneConstants, NEW t \in Clone!Trees, NEW x, Clone!SubtreeOf(t, x) # None
    PROVE  Clone!SubtreeOf(t, x) \in Clone!Ids /\ Clone!EntryAt(t, <<x>>).id = Clone!SubtreeOf(t, x)
<1> DEFINE es == Object[t].entries
           dirs == {i \in DOMAIN es : es[i].name = x /\ es[i].mode = "dir"}
<1>1. dirs # {} /\ Clone!SubtreeOf(t, x) = es[Clone!Min(dirs)].id
  BY DEF Clone!SubtreeOf
<1>2. DOMAIN es = 1 .. Len(es) /\ Len(es) \in Nat
  BY CloneFacts
<1>3. dirs \in SUBSET Nat /\ \A i \in dirs : i \in 1 .. Len(es) /\ es[i].name = x /\ es[i].mode = "dir"
  BY <1>2
<1> HIDE DEF dirs
<1>4. PICK m \in dirs : \A k \in dirs : m <= k
  BY <1>1, <1>3, LeastOne
<1>5. Clone!Min(dirs) \in dirs
  BY <1>4 DEF Clone!Min
<1>6. PICK k \in dirs : k = Clone!Min(dirs)
  BY <1>5
<1>7. Clone!Child(t, x) = es[k]
  BY <1>3, <1>6, ChildIs
<1>8. Clone!EntryAt(t, <<x>>) = Onward(Top(t), x)
  <2>1. <<>> \in Seq({x}) /\ Append(<<>>, x) = <<x>> /\ x \in {x}
    OBVIOUS
  <2>2. Clone!EntryAt(t, <<>>) = Top(t) /\ Clone!EntryAt(t, Append(<<>>, x)) = Onward(Clone!EntryAt(t, <<>>), x)
    BY <2>1, EntryAppended
  <2> QED BY <2>1, <2>2
<1>9. Clone!EntryAt(t, <<x>>) = es[k]
  BY <1>7, <1>8 DEF Onward, Top
<1>10. es[k].id \in Clone!Ids
  <2>1. \A i \in DOMAIN es : es[i].mode = "dir" => es[i].id \in Clone!Ids
    BY DEF Clone!CloneConstants, Clone!ObjectsSound
  <2> QED BY <1>2, <1>3, <2>1
<1> QED BY <1>1, <1>6, <1>9, <1>10

(* The walk starts at the tree asked for. *)
LEMMA LocateKeeps == ASSUME Clone!CloneConstants, CloneInv, Clone!Locate PROVE CloneInv'
<1> DEFINE tip == Clone!Tip
           tree == Object[tip].tree
           below == IF ask.sub = None THEN tree ELSE IF Clone!Has(tree, "tree") THEN Clone!SubtreeOf(tree, ask.sub) ELSE None
<1>1. CloneTyped /\ clonePc = "unpack" /\ failure = None /\ Unwalked
  BY DEF CloneInv, CloneTyped, Clone!Locate
<1>2. want \in Clone!Ids /\ objects \subseteq Clone!Ids
  BY <1>1 DEF CloneTyped
<1>3. UNCHANGED <<remote, moved, ask, hops, contacted, want, pack, objects>>
  BY DEF Clone!Locate
<1>4. /\ (want \notin objects \/ tip \notin objects) => Clone!Fails("missing") /\ UNCHANGED <<root, stack, files, fileCount, totalBytes>>
      /\ want \in objects /\ tip \in objects /\ ~Clone!Has(tip, "commit") => Clone!Fails("nocommit")
      /\ want \in objects /\ tip \in objects /\ Clone!Has(tip, "commit") /\ below = None => Clone!Fails("nosub")
      /\ want \in objects /\ tip \in objects /\ Clone!Has(tip, "commit") /\ below # None =>
            /\ clonePc' = "walk" /\ root' = below /\ stack' = <<[tree |-> below, dir |-> <<>>, at |-> 1]>>
            /\ UNCHANGED <<files, fileCount, totalBytes, failure>>
  BY DEF Clone!Locate, Clone!walkVars
<1>5. want \in objects => (Clone!Has(want, "tag") <=> Clone!Is(want, "tag"))
  BY <1>2 DEF Clone!Has, Clone!Is
<1>6. want \in objects => Clone!AskedTree = IF ask.sub = None THEN tree ELSE Clone!EntryAt(tree, <<ask.sub>>).id
  BY <1>5 DEF Clone!AskedTree, Clone!Tip
<1> HIDE DEF below
<1>7. CASE Clone!Fails("missing") \/ Clone!Fails("nosub")
  <2>1. CloneTyped'
    BY <1>1, <1>3, <1>7 DEF CloneTyped, Clone!Fails
  <2> QED BY <1>7, <2>1, PlainStep DEF Clone!Fails
<1>8. CASE want \in objects /\ tip \in objects /\ ~Clone!Has(tip, "commit")
  <2>1. clonePc' = "failed" /\ failure' = "nocommit"
    BY <1>4, <1>8 DEF Clone!Fails
  <2>2. CloneTyped'
    BY <1>1, <1>3, <2>1 DEF CloneTyped
  <2>3. ~Clone!Is(want, "commit") /\ ~(Clone!Is(want, "tag") /\ Clone!Is(Object[want].object, "commit"))
    BY <1>2, <1>8 DEF Clone!Has, Clone!Is, Clone!Tip
  <2>4. CloneExact'
    BY <1>3, <2>1, <2>2, <2>3 DEF CloneTyped, CloneExact, Clone!CloneExact, Clone!FilesExact, Clone!RefusedForCause, Clone!AllowedOnly, Clone!Is
  <2> QED BY <2>1, <2>2, <2>4 DEF CloneInv
<1>9. CASE want \in objects /\ tip \in objects /\ Clone!Has(tip, "commit") /\ below # None
  <2>1. below \in Clone!Ids /\ below = Clone!AskedTree
    <3>1. CASE ask.sub = None
      <4>1. tree \in Clone!Ids
        BY <1>2, <1>9 DEF Clone!CloneConstants, Clone!ObjectsSound, Clone!Has, Clone!Is
      <4> QED BY <1>6, <1>9, <3>1, <4>1 DEF below
    <3>2. CASE ask.sub # None
      <4>1. Clone!Has(tree, "tree") /\ below = Clone!SubtreeOf(tree, ask.sub)
        BY <1>9, <3>2 DEF below
      <4>2. tree \in Clone!Trees
        BY <1>2, <4>1 DEF Clone!Trees, Clone!Has, Clone!Is
      <4> HIDE DEF tree
      <4> QED BY <1>6, <1>9, <3>2, <4>1, <4>2, SubtreeIs
    <3> QED BY <3>1, <3>2
  <2>2. /\ clonePc' = "walk" /\ root' = below /\ stack' = <<[tree |-> below, dir |-> <<>>, at |-> 1]>>
        /\ UNCHANGED <<files, fileCount, totalBytes, failure>>
    BY <1>4, <1>9
  <2>3. CloneTyped'
    BY <1>1, <1>2, <1>3, <2>2 DEF CloneTyped
  <2>4. Clone!AskedTree' = Clone!AskedTree
    BY <1>3 DEF Clone!AskedTree, Clone!Is
  <2>5. WalkFits(stack', root', files', fileCount', totalBytes') /\ fileCount' <= MaxFiles /\ totalBytes' <= MaxTotalBytes
    <3>1. files' = {} /\ fileCount' = 0 /\ totalBytes' = 0
      BY <1>1, <2>2 DEF Unwalked
    <3>2. MaxFiles \in Nat /\ MaxTotalBytes \in Nat
      BY DEF Clone!CloneConstants
    <3>3. WalkFits(<<[tree |-> below, dir |-> <<>>, at |-> 1]>>, below, {}, 0, 0)
      BY <2>1, WalkStarts
    <3> QED BY <2>2, <3>1, <3>2, <3>3
  <2>6. Walked'
    BY <2>1, <2>2, <2>4, <2>5 DEF Walked
  <2>7. CloneExact'
    BY <1>1, <2>2, <2>3, NoReason DEF CloneTyped, CloneExact, Clone!CloneExact, Clone!FilesExact, Clone!RefusedForCause, Clone!AllowedOnly
  <2> QED BY <2>2, <2>3, <2>6, <2>7 DEF CloneInv
<1> QED BY <1>4, <1>7, <1>8, <1>9

(* A step of the walk that goes on. *)
LEMMA WalkGoesOn ==
    ASSUME Clone!CloneConstants, CloneInv, clonePc = "walk",
           UNCHANGED <<remote, ask, contacted, want, pack, objects, root, clonePc, failure>>,
           WalkFits(stack', root, files', fileCount', totalBytes'), fileCount' <= MaxFiles, totalBytes' <= MaxTotalBytes
    PROVE  CloneInv'
<1>1. CloneTyped /\ Walked
  BY DEF CloneInv
<1>2. CloneTyped'
  BY <1>1 DEF CloneTyped
<1>3. Clone!AskedTree' = Clone!AskedTree
  BY DEF Clone!AskedTree, Clone!Is
<1>4. Walked'
  BY <1>1, <1>3 DEF Walked
<1>5. failure' = None
  BY <1>1 DEF CloneTyped
<1>6. CloneExact'
  BY <1>2, <1>5, NoReason DEF CloneTyped, CloneExact, Clone!CloneExact, Clone!FilesExact, Clone!RefusedForCause, Clone!AllowedOnly
<1> QED BY <1>2, <1>4, <1>6 DEF CloneInv

(* What a walk has counted is in the tree. *)
LEMMA CountedIsThere ==
    ASSUME Clone!CloneConstants, NEW id, NEW st, NEW fs, NEW c, NEW b, WalkFits(st, id, fs, c, b), c > MaxFiles \/ b > MaxTotalBytes
    PROVE  Clone!TooLarge(id)
<1> DEFINE V == Visited(st, id)
<1>1. V \in SUBSET Clone!Below(id) /\ c = Cardinality(V) /\ b = Clone!Size(V, id)
  BY DEF WalkFits, Visited
<1> HIDE DEF V
<1>2. IsFiniteSet(Clone!Below(id)) /\ Clone!Size(V, id) \in Nat /\ Clone!Size(Clone!Below(id), id) \in Nat
      /\ Clone!Size(V, id) <= Clone!Size(Clone!Below(id), id)
  BY <1>1, SizesAddUp
<1>3. Cardinality(V) \in Nat /\ Cardinality(Clone!Below(id)) \in Nat /\ Cardinality(V) <= Cardinality(Clone!Below(id))
  BY <1>1, <1>2, FS_Subset, FS_CardinalityType
<1>4. MaxFiles \in Nat /\ MaxTotalBytes \in Nat
  BY DEF Clone!CloneConstants
<1>5. Cardinality(Clone!Below(id)) > MaxFiles \/ Clone!Size(Clone!Below(id), id) > MaxTotalBytes
  BY <1>1, <1>2, <1>3, <1>4
<1> QED BY <1>5, SameCount DEF Clone!TooLarge

(* The walk. *)
LEMMA WalkKeeps == ASSUME Clone!CloneConstants, CloneInv, Clone!WalkEntry PROVE CloneInv'
<1> DEFINE f == stack[Len(stack)]
           e == Entry(stack)
           t == Object[f.tree]
           q == Append(f.dir, e.name)
<1>1. CloneTyped /\ Walked /\ clonePc = "walk" /\ stack # <<>> /\ failure = None
  BY DEF CloneInv, CloneTyped, Clone!WalkEntry
<1>2. /\ WalkFits(stack, root, files, fileCount, totalBytes) /\ root = Clone!AskedTree
      /\ fileCount <= MaxFiles /\ totalBytes <= MaxTotalBytes
      /\ stack \in Seq(Frames)
  BY <1>1 DEF Walked, WalkFits
<1>3. f \in Frames /\ Clone!Frame = f
  BY <1>1, <1>2 DEF Clone!Frame, Clone!Last
<1>4. UNCHANGED <<remote, ask, contacted, want, pack, objects>>
  BY DEF Clone!WalkEntry
<1>5. f.tree \in Clone!Ids /\ objects \subseteq Clone!Ids
  BY <1>1, <1>3 DEF Frames, CloneTyped
<1>6. Clone!Has(f.tree, "tree") => f.tree \in Clone!Trees
  BY <1>5 DEF Clone!Has, Clone!Is, Clone!Trees
<1>7. e = t.entries[f.at] /\ Clone!Advanced = Advance(stack)
  BY DEF Entry, Advance, Clone!Advanced
<1>8. IF ~Clone!Has(f.tree, "tree") THEN Clone!Fails("missing") /\ UNCHANGED <<root, stack, files, fileCount, totalBytes>>
      ELSE IF f.at > Len(t.entries)
      THEN stack' = Clone!Front(stack) /\ UNCHANGED <<clonePc, root, files, fileCount, totalBytes, failure>>
      ELSE IF e.name \in Clone!skipped \/ e.mode \notin Clone!Regular \cup {"dir"}
      THEN stack' = Advance(stack) /\ UNCHANGED <<clonePc, root, files, fileCount, totalBytes, failure>>
      ELSE IF e.mode = "dir"
      THEN /\ stack' = Append(Advance(stack), [tree |-> e.id, dir |-> q, at |-> 1])
           /\ UNCHANGED <<clonePc, root, files, fileCount, totalBytes, failure>>
      ELSE IF ~Clone!Has(e.id, "blob") THEN Clone!Fails("missing") /\ UNCHANGED <<root, stack, files, fileCount, totalBytes>>
      ELSE Clone!TakeFile(e, q) /\ stack' = Advance(stack) /\ UNCHANGED root
  BY <1>3, <1>7 DEF Clone!WalkEntry, Clone!walkVars
<1> HIDE DEF e, q, t
<1>9. CASE Clone!Fails("missing")
  <2>1. CloneTyped'
    BY <1>1, <1>4, <1>9 DEF CloneTyped, Clone!Fails
  <2> QED BY <1>9, <2>1, PlainStep DEF Clone!Fails
<1>10. CASE Clone!Has(f.tree, "tree") /\ f.at > Len(t.entries)
  <2>1. stack' = Clone!Front(stack) /\ UNCHANGED <<clonePc, root, files, fileCount, totalBytes, failure>>
    BY <1>8, <1>10
  <2>2. Clone!Front(stack) = SubSeq(stack, 1, Len(stack) - 1)
    BY DEF Clone!Front
  <2>3. WalkFits(SubSeq(stack, 1, Len(stack) - 1), root, files, fileCount, totalBytes)
    BY <1>1, <1>2, <1>6, <1>10, WalkLeaves DEF t
  <2> QED BY <1>1, <1>2, <1>4, <2>1, <2>2, <2>3, WalkGoesOn
<1>11. CASE Clone!Has(f.tree, "tree") /\ ~(f.at > Len(t.entries))
  <2>1. AtEntry(stack)
    <3>1. f.at \in Nat /\ Len(t.entries) \in Nat
      BY <1>3, <1>6, <1>11, CloneFacts DEF Frames, t
    <3> QED BY <1>1, <1>2, <1>6, <1>11, <3>1 DEF AtEntry, t
  <2>2. CASE e.name \in Clone!skipped \/ e.mode \notin Clone!Regular \cup {"dir"}
    <3>1. stack' = Advance(stack) /\ UNCHANGED <<clonePc, root, files, fileCount, totalBytes, failure>>
      BY <1>8, <1>11, <2>2
    <3>2. WalkFits(Advance(stack), root, files, fileCount, totalBytes)
      BY <1>2, <2>1, <2>2, WalkSkips DEF e
    <3> QED BY <1>1, <1>2, <1>4, <3>1, <3>2, WalkGoesOn
  <2>3. CASE e.name \notin Clone!skipped /\ e.mode = "dir"
    <3>1. /\ stack' = Append(Advance(stack), [tree |-> e.id, dir |-> q, at |-> 1])
          /\ UNCHANGED <<clonePc, root, files, fileCount, totalBytes, failure>>
      BY <1>8, <1>11, <2>3
    <3>2. WalkFits(Append(Advance(stack), [tree |-> e.id, dir |-> q, at |-> 1]), root, files, fileCount, totalBytes)
      BY <1>2, <2>1, <2>3, WalkDescends DEF e, q
    <3> QED BY <1>1, <1>2, <1>4, <3>1, <3>2, WalkGoesOn
  <2>4. CASE e.name \notin Clone!skipped /\ e.mode \in Clone!Regular /\ Clone!Has(e.id, "blob")
    <3>1. Clone!TakeFile(e, q) /\ stack' = Advance(stack) /\ root' = root
      BY <1>8, <1>11, <2>4 DEF Clone!Regular
    <3>2. Clone!IsFile(e)
      BY <1>5, <2>4 DEF Clone!IsFile, Clone!Has, Clone!Is
    <3> DEFINE taken == IF Object[e.id].text THEN files \cup {[path |-> q, blob |-> e.id]} ELSE files
    <3>3. /\ WalkFits(Advance(stack), root, taken, fileCount + 1, totalBytes + Object[e.id].size)
          /\ {fileCount, totalBytes, fileCount + 1, totalBytes + Object[e.id].size} \subseteq Nat
      BY <1>2, <2>1, <2>4, <3>2, WalkTakes DEF e, q
    <3>4. /\ files' = taken /\ fileCount' = fileCount + 1 /\ totalBytes' = totalBytes + Object[e.id].size
          /\ IF fileCount' > MaxFiles \/ totalBytes' > MaxTotalBytes THEN Clone!Fails("limit") ELSE UNCHANGED <<clonePc, failure>>
      BY <3>1 DEF Clone!TakeFile
    <3> HIDE DEF taken
    <3>5. WalkFits(stack', root, files', fileCount', totalBytes') /\ fileCount' \in Nat /\ totalBytes' \in Nat
      BY <3>1, <3>3, <3>4
    <3>6. CASE fileCount' > MaxFiles \/ totalBytes' > MaxTotalBytes
      <4>1. clonePc' = "failed" /\ failure' = "limit"
        BY <3>4, <3>6 DEF Clone!Fails
      <4>2. Clone!TooLarge(root)
        BY <3>5, <3>6, CountedIsThere
      <4>3. Clone!AskedTree' = root
        BY <1>2, <1>4 DEF Clone!AskedTree, Clone!Is
      <4>4. CloneTyped'
        BY <1>1, <1>4, <4>1 DEF CloneTyped
      <4>5. Clone!TooLarge(Clone!AskedTree)'
        BY <4>2, <4>3 DEF Clone!TooLarge
      <4>6. CloneExact'
        BY <4>1, <4>4, <4>5 DEF CloneTyped, CloneExact, Clone!CloneExact, Clone!FilesExact, Clone!RefusedForCause, Clone!AllowedOnly
      <4> QED BY <4>1, <4>4, <4>6 DEF CloneInv
    <3>7. CASE ~(fileCount' > MaxFiles \/ totalBytes' > MaxTotalBytes)
      <4>1. MaxFiles \in Nat /\ MaxTotalBytes \in Nat
        BY DEF Clone!CloneConstants
      <4>2. fileCount' <= MaxFiles /\ totalBytes' <= MaxTotalBytes
        BY <3>5, <3>7, <4>1
      <4>3. UNCHANGED <<clonePc, failure>>
        BY <3>4, <3>7
      <4> QED BY <1>1, <1>4, <3>1, <3>5, <4>2, <4>3, WalkGoesOn
    <3> QED BY <3>6, <3>7
  <2> QED BY <1>8, <1>9, <1>11, <2>2, <2>3, <2>4
<1> QED BY <1>8, <1>9, <1>10, <1>11

(* A walk that has left every tree has passed every file. *)
LEMMA FinishKeeps == ASSUME Clone!CloneConstants, CloneInv, Clone!Finish PROVE CloneInv'
<1> DEFINE manifest == <<"package.json">>
           had == \E g \in files : g.path = manifest
<1>1. CloneTyped /\ Walked /\ clonePc = "walk" /\ stack = <<>> /\ failure = None
  BY DEF CloneInv, CloneTyped, Clone!Finish
<1>2. /\ UNCHANGED <<remote, ask, contacted, want, pack, objects, root, stack, files, fileCount, totalBytes>>
      /\ IF had THEN clonePc' = "done" /\ failure' = failure ELSE clonePc' = "failed" /\ failure' = "nomanifest"
  BY DEF Clone!Finish, Clone!Fails, Clone!walkVars
<1>3. /\ WalkFits(stack, root, files, fileCount, totalBytes) /\ root = Clone!AskedTree
      /\ fileCount <= MaxFiles /\ totalBytes <= MaxTotalBytes
  BY <1>1 DEF Walked
<1>4. Visited(stack, root) = Clone!Below(root)
  BY <1>1 DEF Visited, Ahead
<1>5. /\ files = {Taken(root, p) : p \in {r \in Clone!Below(root) : Text(root, r)}}
      /\ fileCount = Cardinality(Clone!Below(root)) /\ totalBytes = Clone!Size(Clone!Below(root), root)
  BY <1>3, <1>4 DEF WalkFits
<1>6. files = {[path |-> p, blob |-> Clone!EntryAt(root, p).id] : p \in Clone!Texts(root)}
  BY <1>5 DEF Taken, Text, Clone!Texts
<1>7. Clone!AskedTree' = root
  BY <1>2, <1>3 DEF Clone!AskedTree, Clone!Is
<1>8. CloneTyped'
  BY <1>1, <1>2 DEF CloneTyped
<1>9. CASE had
  <2>1. clonePc' = "done" /\ failure' = None /\ files' = files
    BY <1>1, <1>2, <1>9
  <2>2. ~Clone!TooLarge(root)
    <3>1. IsFiniteSet(Clone!Below(root)) /\ Clone!Size(Clone!Below(root), root) \in Nat
      BY SizesAddUp
    <3>2. Cardinality(Clone!Below(root)) \in Nat
      BY <3>1, FS_CardinalityType
    <3>3. MaxFiles \in Nat /\ MaxTotalBytes \in Nat
      BY DEF Clone!CloneConstants
    <3>4. ~(Cardinality(Clone!Below(root)) > MaxFiles) /\ ~(Clone!Size(Clone!Below(root), root) > MaxTotalBytes)
      BY <1>3, <1>5, <3>1, <3>2, <3>3
    <3> QED BY <3>4, SameCount DEF Clone!TooLarge
  <2>3. Clone!FilesExact'
    BY <1>6, <1>7, <2>1, <2>2 DEF Clone!FilesExact, Clone!Texts, Clone!TooLarge
  <2>4. CloneExact'
    BY <1>8, <2>1, <2>3, NoReason DEF CloneTyped, CloneExact, Clone!CloneExact, Clone!RefusedForCause, Clone!AllowedOnly
  <2> QED BY <1>8, <2>1, <2>4 DEF CloneInv
<1>10. CASE ~had
  <2>1. clonePc' = "failed" /\ failure' = "nomanifest"
    BY <1>2, <1>10
  <2>2. manifest \notin Clone!Texts(root)
    <3> SUFFICES ASSUME manifest \in Clone!Texts(root) PROVE FALSE
      OBVIOUS
    <3>1. [path |-> manifest, blob |-> Clone!EntryAt(root, manifest).id] \in files
      BY <1>6
    <3> QED BY <1>10, <3>1
  <2>3. CloneExact'
    BY <1>7, <1>8, <2>1, <2>2 DEF CloneTyped, CloneExact, Clone!CloneExact, Clone!FilesExact, Clone!RefusedForCause, Clone!AllowedOnly, Clone!Texts
  <2> QED BY <1>8, <2>1, <2>3 DEF CloneInv
<1> QED BY <1>9, <1>10

(* A clone stays within what it was asked for, whatever the remote, its packs and the redirects do. *)
THEOREM ClonesExact == ASSUME Clone!CloneConstants PROVE Clone!Spec => []CloneExact
<1>1. Clone!Init => CloneInv
  BY CloneStarts
<1>2. CloneInv /\ [Clone!Next]_Clone!vars => CloneInv'
  <2> SUFFICES ASSUME CloneInv, [Clone!Next]_Clone!vars PROVE CloneInv'
    OBVIOUS
  <2>1. CASE Clone!Locate
    BY <2>1, LocateKeeps
  <2>2. CASE Clone!WalkEntry
    BY <2>2, WalkKeeps
  <2>3. CASE Clone!Finish
    BY <2>3, FinishKeeps
  <2>4. CASE UNCHANGED Clone!vars
    <3>1. UNCHANGED <<remote, ask, clonePc, contacted, want, pack, objects, root, stack, files, fileCount, totalBytes, failure>>
      BY <2>4 DEF Clone!vars
    <3>2. CloneTyped'
      BY <3>1 DEF CloneInv, CloneTyped
    <3>3. Clone!AskedTree' = Clone!AskedTree /\ Clone!Is(want, "tag")' = Clone!Is(want, "tag")
      BY <3>1 DEF Clone!AskedTree, Clone!Is
    <3>4. (clonePc \in {"discover", "upload", "unpack"} => Unwalked)'
      BY <3>1 DEF CloneInv, Unwalked
    <3>5. (clonePc = "walk" => Walked)'
      BY <3>1, <3>3 DEF CloneInv, Walked
    <3>6. Clone!FilesExact'
      BY <3>1, <3>3 DEF CloneInv, CloneExact, Clone!CloneExact, Clone!FilesExact, Clone!Texts, Clone!TooLarge
    <3>7. Clone!RefusedForCause'
      BY <3>1, <3>3 DEF CloneInv, CloneExact, Clone!CloneExact, Clone!RefusedForCause, Clone!Texts, Clone!TooLarge, Clone!Is
    <3>8. Clone!AllowedOnly'
      BY <3>1 DEF CloneInv, CloneExact, Clone!CloneExact, Clone!AllowedOnly
    <3> QED BY <3>2, <3>4, <3>5, <3>6, <3>7, <3>8 DEF CloneInv, CloneExact, Clone!CloneExact
  <2> QED BY <2>1, <2>2, <2>3, <2>4, RequestsKeep DEF Clone!Next
<1>3. CloneInv => CloneExact
  BY DEF CloneInv
<1> QED BY <1>1, <1>2, <1>3, PTL DEF Clone!Spec
=============================================================================
