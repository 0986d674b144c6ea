---------------------------- MODULE Integrations ----------------------------
(***************************************************************************)
(* One OAuth integration of a user: the app description, the tokens of the *)
(* connection, the connect links, the refreshes the fetch gateway and the  *)
(* user ask for, and the provider.  Integrations do not share state, so    *)
(* one is enough.                                                          *)
(*                                                                         *)
(* IntegrationStore runs inside the user's cell.  It gives way to other    *)
(* calls wherever it awaits WebCrypto or the token endpoint: one step here *)
(* is what happens between two such points, and everything read before a   *)
(* point and used after it is kept in the state of the call.               *)
(***************************************************************************)
EXTENDS Integers, FiniteSets

CONSTANTS Apps,          \* app descriptions: token endpoint, client id, flow, scopes
          Mint,          \* the apps that use client_credentials
          Calls,         \* concurrent calls of the gateway and of integrationTokenRefresh
          Browsers,      \* browser tabs in the connect flow
          None,
          Restarts,      \* whether the cell may stop
          Rekeys,        \* whether the master key may change
          MaxConnects,   \* bound: connect links
          MaxTokens      \* bound: answers of the provider with tokens

ASSUME IntegrationsAssumption ==
    /\ Mint \subseteq Apps
    /\ None \notin Apps \cup Browsers \cup Calls
    /\ Restarts \in BOOLEAN /\ Rekeys \in BOOLEAN
    /\ MaxConnects \in Nat /\ MaxTokens \in Nat

VARIABLES row,          \* the integrations row
          connects,     \* the integration_connects rows
          lastConnect,  \* connect links made so far
          owner,        \* the owner's save or connectStart under way
          calls,        \* the calls that refresh or wait for a refresh
          inFlight,     \* inFlightRefresh: the call whose task is shared
          browsers,     \* the page loads
          issued,       \* provider: answers with tokens so far
          origin,       \* provider: app and grant of each answer
          honours,      \* provider: the refresh token each grant is good for, 0 when revoked
          spent,        \* provider: authorization codes used or never given, named after their nonce
          old,          \* the columns, with their tokens, that only the previous master key opens
          reseal,       \* rekey: the column it is sealing again, with the token it read
          lost,         \* history: grants an answer of which was never stored, or was written over
          raced         \* history: whether the tokens were dropped while some were on their way

vars == <<row, connects, lastConnect, owner, calls, inFlight, browsers, issued, origin, honours, spent, old, reseal, lost, raced>>
provider == <<issued, origin, honours, spent, lost>>
links == <<connects, lastConnect>>
sealing == <<old, reseal>>

Tokens == 1..MaxTokens
Links == 1..MaxConnects

\* Tokens are numbered by the answer they came in; 0 is NULL.
Row(app, status, access, refresh) == [app |-> app, status |-> status, access |-> access, refresh |-> refresh]
NoRow == Row(None, "none", 0, 0)
Exists == row.app # None
NotSealing == [column |-> None, held |-> 0]
IdleOwner == [pc |-> "idle", app |-> None, existing |-> None]
IdleCall == [pc |-> "idle", app |-> None, using |-> 0, answer |-> "none", token |-> 0, rotated |-> FALSE]
NewPage == [pc |-> "new", link |-> 0, nonce |-> None, app |-> None, config |-> None, status |-> "none",
            answer |-> "none", token |-> 0, rotated |-> FALSE]
NoLink == [state |-> "none", nonce |-> None, lapsed |-> FALSE]

Grant(t) == origin[t].grant

\* What is left of a page that has its answer: the address of the callback.
Closed(p) == [NewPage EXCEPT !.pc = "done", !.link = p.link, !.nonce = p.nonce, !.app = p.app]

Busy(c) == calls[c].pc \in {"opening", "asked", "answered"}
Exchanging(b) == browsers[b].pc \in {"exchanging", "asked", "answered"}
Underway == (\E c \in Calls : Busy(c)) \/ (\E b \in Browsers : Exchanging(b)) \/ reseal # NotSealing
NewSpent(b) == spent \cup {browsers[b].nonce}

----------------------------------------------------------------------------
(* The owner: describing the app, dropping tokens *)

\* Mutant: the tokens stay.
clearTokensStatusOnly(r, status) == Row(r.app, status, r.access, r.refresh)

clearTokens(r, status) == Row(r.app, status, 0, 0)

\* save reads the row and awaits the sealing of the client secret.
SaveBegin(a) ==
    /\ owner.pc = "idle"
    /\ owner' = [pc |-> "saving", app |-> a, existing |-> row.app]
    /\ UNCHANGED <<row, calls, inFlight, browsers, raced, links, provider, sealing>>

\* The new description is compared with the one read before; a row deleted meanwhile is not found.
SaveWrite ==
    LET described == [row EXCEPT !.app = owner.app]
    IN  /\ owner.pc = "saving"
        /\ owner' = IdleOwner
        /\ row' = IF owner.existing = None THEN Row(owner.app, "pending", 0, 0)
                  ELSE IF ~Exists THEN row
                  ELSE IF owner.app # owner.existing THEN clearTokens(described, "pending")
                  ELSE described
        /\ raced' = (raced \/ (Underway /\ owner.app # row.app))
        /\ UNCHANGED <<calls, inFlight, browsers, links, provider, sealing>>

disconnect ==
    /\ Exists
    /\ row' = clearTokens(row, "pending")
    /\ raced' = (raced \/ Underway)
    /\ UNCHANGED <<owner, calls, inFlight, browsers, links, provider, sealing>>

delete ==
    /\ Exists
    /\ row' = NoRow
    /\ connects' = [n \in Links |-> NoLink]
    /\ raced' = (raced \/ Underway)
    /\ UNCHANGED <<lastConnect, owner, calls, inFlight, browsers, provider, sealing>>

----------------------------------------------------------------------------
(* The connect flow *)

\* connectStart checks the flow and awaits the hash of the ticket.
ConnectStart ==
    /\ owner.pc = "idle" /\ Exists /\ row.app \notin Mint
    /\ lastConnect < MaxConnects
    /\ owner' = [IdleOwner EXCEPT !.pc = "starting"]
    /\ UNCHANGED <<row, calls, inFlight, browsers, raced, links, provider, sealing>>

\* The link is stored, whatever has become of the integration; unfinished older ones go.
ConnectInsert ==
    /\ owner.pc = "starting"
    /\ lastConnect' = lastConnect + 1
    /\ connects' = [n \in Links |->
         IF n = lastConnect + 1 THEN [NoLink EXCEPT !.state = "minted"]
         ELSE IF connects[n].state = "done" THEN connects[n] ELSE NoLink]
    /\ owner' = IdleOwner
    /\ UNCHANGED <<row, calls, inFlight, browsers, raced, provider, sealing>>

\* The link, or an attempt begun with it, becomes too old.
Lapse(n) ==
    /\ connects[n].state \in {"minted", "started"} /\ ~connects[n].lapsed
    /\ connects' = [connects EXCEPT ![n].lapsed = TRUE]
    /\ UNCHANGED <<row, lastConnect, owner, calls, inFlight, browsers, raced, provider, sealing>>

\* connectBegin: the link is fresh; the ticket is hashed and the PKCE verifier sealed.
BeginRead(b, n) ==
    /\ browsers[b].pc \in {"new", "done"}
    /\ connects[n].state = "minted" /\ ~connects[n].lapsed
    /\ Exists
    /\ browsers' = [browsers EXCEPT ![b] = [NewPage EXCEPT !.pc = "beginning", !.link = n, !.nonce = <<n, b>>, !.app = row.app]]
    /\ UNCHANGED <<row, owner, calls, inFlight, raced, links, provider, sealing>>

\* The link is marked as used, whoever else may have used it; the page goes to the provider.
BeginWrite(b) ==
    LET n == browsers[b].link
    IN  /\ browsers[b].pc = "beginning"
        /\ connects' = IF connects[n].state = "none" THEN connects
                       ELSE [connects EXCEPT ![n].nonce = browsers[b].nonce, ![n].state = IF @ = "done" THEN @ ELSE "started"]
        /\ browsers' = [browsers EXCEPT ![b].pc = "consenting"]
        /\ UNCHANGED <<row, lastConnect, owner, calls, inFlight, raced, provider, sealing>>

\* The user decides; the provider redirects back with a code or an error.
Consent(b) ==
    /\ browsers[b].pc = "consenting"
    /\ \/ browsers' = [browsers EXCEPT ![b].pc = "consented"] /\ UNCHANGED spent
       \/ browsers' = [browsers EXCEPT ![b].pc = "denied"] /\ spent' = NewSpent(b)
    /\ UNCHANGED <<row, owner, calls, inFlight, raced, issued, origin, honours, lost, links, sealing>>

\* The callback is loaded once more.
Reload(b, p) ==
    /\ browsers[b].pc \in {"new", "done"}
    /\ browsers[p].pc \in {"exchanging", "asked", "answered", "done"}
    /\ browsers' = [browsers EXCEPT ![b] = [NewPage EXCEPT !.pc = "consented", !.link = browsers[p].link,
                                            !.nonce = browsers[p].nonce, !.app = browsers[p].app]]
    /\ UNCHANGED <<row, owner, calls, inFlight, raced, links, provider, sealing>>

Pending(b) ==
    LET link == connects[browsers[b].link]
    IN  link.state = "started" /\ link.nonce = browsers[b].nonce

finishConnect(n) == IF connects[n].state = "none" THEN connects ELSE [connects EXCEPT ![n].state = "done"]

\* connectComplete does not know the state, or the integration is gone.
CompleteInvalid(b) ==
    /\ browsers[b].pc \in {"consented", "denied"}
    /\ ~Pending(b) \/ ~Exists
    /\ browsers' = [browsers EXCEPT ![b] = Closed(@)]
    /\ UNCHANGED <<row, owner, calls, inFlight, raced, links, provider, sealing>>

CompleteLapsed(b) ==
    /\ browsers[b].pc \in {"consented", "denied"}
    /\ Pending(b) /\ Exists /\ connects[browsers[b].link].lapsed
    /\ connects' = finishConnect(browsers[b].link)
    /\ browsers' = [browsers EXCEPT ![b] = Closed(@)]
    /\ UNCHANGED <<row, lastConnect, owner, calls, inFlight, raced, provider, sealing>>

\* A failed connect leaves a working connection alone.
failAuth(status) == IF Exists /\ status # "connected" THEN clearTokens(row, "auth_failed") ELSE row

CompleteDenied(b) ==
    /\ browsers[b].pc = "denied"
    /\ Pending(b) /\ Exists /\ ~connects[browsers[b].link].lapsed
    /\ connects' = finishConnect(browsers[b].link)
    /\ row' = failAuth(row.status)
    /\ browsers' = [browsers EXCEPT ![b] = Closed(@)]
    /\ UNCHANGED <<lastConnect, owner, calls, inFlight, raced, provider, sealing>>

\* The record is read, the verifier opened.
CompleteRead(b) ==
    /\ browsers[b].pc = "consented"
    /\ Pending(b) /\ Exists /\ ~connects[browsers[b].link].lapsed
    /\ browsers' = [browsers EXCEPT ![b] = [@ EXCEPT !.pc = "exchanging", !.config = row.app, !.status = row.status]]
    /\ UNCHANGED <<row, owner, calls, inFlight, raced, links, provider, sealing>>

\* requestTokens reads the row once more and posts the code.
CompletePost(b) ==
    /\ browsers[b].pc = "exchanging"
    /\ browsers' = [browsers EXCEPT ![b] = IF Exists THEN [@ EXCEPT !.pc = "asked"]
                                           ELSE [@ EXCEPT !.pc = "answered", !.answer = "failed"]]
    /\ UNCHANGED <<row, owner, calls, inFlight, raced, links, provider, sealing>>

CompleteStore(b) ==
    LET p == browsers[b]
    IN  /\ p.pc = "answered" /\ p.answer = "tokens"
        /\ row' = IF Exists THEN Row(row.app, "connected", p.token, IF p.rotated THEN p.token ELSE 0) ELSE row
        /\ connects' = finishConnect(p.link)
        /\ browsers' = [browsers EXCEPT ![b] = Closed(@)]
        /\ UNCHANGED <<lastConnect, owner, calls, inFlight, raced, provider, sealing>>

\* The status the record had before the exchange decides.
CompleteFails(b) ==
    LET p == browsers[b]
    IN  /\ p.pc = "answered" /\ p.answer # "tokens"
        /\ row' = failAuth(p.status)
        /\ connects' = finishConnect(p.link)
        /\ browsers' = [browsers EXCEPT ![b] = Closed(@)]
        /\ UNCHANGED <<lastConnect, owner, calls, inFlight, raced, provider, sealing>>

----------------------------------------------------------------------------
(* Refreshing *)

\* Mutant: every caller starts a refresh of its own.
refreshAlways(c) ==
    /\ row.app \in Mint \/ row.refresh # 0
    /\ calls' = [calls EXCEPT ![c] = [IdleCall EXCEPT !.pc = "opening", !.app = row.app, !.using = row.refresh]]
    /\ inFlight' = c

\* Mutant: a refresh that fails stays in the map.
SettledOnSuccess(c) ==
    IF calls[c].answer = "tokens"
    THEN [d \in Calls |-> IF d = c \/ calls[d].pc = "waiting" THEN IdleCall ELSE calls[d]]
    ELSE [calls EXCEPT ![c] = IdleCall]

\* A refresh under way is shared; a new one needs a refresh token or client credentials.
refresh(c) ==
    \/ /\ inFlight # None
       /\ calls' = [calls EXCEPT ![c].pc = "waiting"]
       /\ UNCHANGED inFlight
    \/ /\ inFlight = None
       /\ row.app \in Mint \/ row.refresh # 0
       /\ calls' = [calls EXCEPT ![c] = [IdleCall EXCEPT !.pc = "opening", !.app = row.app, !.using = row.refresh]]
       /\ inFlight' = c

integrationRefresh(c) ==
    /\ calls[c].pc = "idle" /\ Exists
    /\ refresh(c)
    /\ UNCHANGED <<row, owner, browsers, raced, links, provider, sealing>>

\* The gateway's request, when the token has expired or was answered 401: a missing token is
\* only refreshed with client credentials.  A request that finds a good token changes nothing.
tokenResolve(c) ==
    /\ calls[c].pc = "idle" /\ Exists
    /\ row.access = 0 \/ row.status # "connected" => row.app \in Mint
    /\ refresh(c)
    /\ UNCHANGED <<row, owner, browsers, raced, links, provider, sealing>>

\* requestTokens reads the row once more and posts the grant.
RefreshPost(c) ==
    /\ calls[c].pc = "opening"
    /\ calls' = [calls EXCEPT ![c] = IF Exists THEN [@ EXCEPT !.pc = "asked"]
                                     ELSE [@ EXCEPT !.pc = "answered", !.answer = "failed"]]
    /\ UNCHANGED <<row, owner, inFlight, browsers, raced, links, provider, sealing>>

\* The task ends: the map entry goes, and all who waited have their answer.
Settled(c) == [d \in Calls |-> IF d = c \/ calls[d].pc = "waiting" THEN IdleCall ELSE calls[d]]

\* storeTokens writes to the row as it is now; the old refresh token is kept unless a new one came.
RefreshStore(c) ==
    LET q == calls[c]
    IN  /\ q.pc = "answered" /\ q.answer = "tokens"
        /\ row' = IF Exists THEN Row(row.app, "connected", q.token, IF q.rotated THEN q.token ELSE row.refresh) ELSE row
        /\ calls' = Settled(c)
        /\ inFlight' = None
        /\ UNCHANGED <<owner, browsers, raced, links, provider, sealing>>

\* invalid_grant and invalid_client end the connection, other failures only leave a note.
RefreshFails(c) ==
    LET q == calls[c]
    IN  /\ q.pc = "answered" /\ q.answer # "tokens"
        /\ row' = IF Exists /\ q.answer = "invalid_grant" THEN clearTokens(row, "auth_failed") ELSE row
        /\ calls' = Settled(c)
        /\ inFlight' = None
        /\ UNCHANGED <<owner, browsers, raced, links, provider, sealing>>

----------------------------------------------------------------------------
(* Sealing under a new master key *)

\* The cell, in which nothing is under way, is started with another master key.
NewKey ==
    /\ Rekeys /\ old = {} /\ row.access # 0
    /\ ~Underway /\ owner.pc = "idle" /\ \A b \in Browsers : browsers[b].pc # "beginning"
    /\ old' = {<<c, row[c]>> : c \in {"access", "refresh"}}
    /\ UNCHANGED <<row, owner, calls, inFlight, browsers, reseal, raced, links, provider>>

\* rekey reads a column under another key, then opens and seals it.  It takes one column after the other.
RekeyRead(column) ==
    /\ reseal = NotSealing
    /\ row[column] # 0 /\ <<column, row[column]>> \in old
    /\ reseal' = [column |-> column, held |-> row[column]]
    /\ UNCHANGED <<row, owner, calls, inFlight, browsers, old, raced, links, provider>>

\* The row of that name is written, whatever it holds by now.
RekeyWrite ==
    LET column == reseal.column
        overwrites == Exists /\ row[column] # reseal.held
    IN  /\ reseal # NotSealing
        /\ row' = IF Exists THEN [row EXCEPT ![column] = reseal.held] ELSE row
        /\ old' = old \ {<<column, reseal.held>>}
        /\ reseal' = NotSealing
        /\ lost' = IF overwrites /\ column = "refresh" THEN lost \cup {Grant(reseal.held)} ELSE lost
        /\ raced' = (raced \/ (overwrites /\ row[column] = 0))
        /\ UNCHANGED <<owner, calls, inFlight, browsers, issued, origin, honours, spent, links>>

----------------------------------------------------------------------------
(* The provider, and the cell's end *)

Issue(app, grant) ==
    /\ issued < MaxTokens
    /\ issued' = issued + 1
    /\ origin' = [origin EXCEPT ![issued + 1] = [app |-> app, grant |-> grant]]

\* A code is good once, for the app it was asked for.
CodeExchanged(b) ==
    LET p == browsers[b]
        Answered(answer, t, r) == browsers' = [browsers EXCEPT ![b] = [p EXCEPT !.pc = "answered", !.answer = answer, !.token = t, !.rotated = r]]
    IN  /\ p.pc = "asked"
        /\ IF p.nonce \in spent \/ p.app # p.config
           THEN Answered("invalid_grant", 0, FALSE) /\ UNCHANGED <<issued, origin, honours, spent>>
           ELSE \E r \in BOOLEAN :
                  /\ Answered("tokens", issued + 1, r)
                  /\ Issue(p.app, issued + 1)
                  /\ honours' = [honours EXCEPT ![issued + 1] = IF r THEN issued + 1 ELSE 0]
                  /\ spent' = NewSpent(b)
        /\ UNCHANGED <<row, owner, calls, inFlight, raced, lost, links, sealing>>

\* The token endpoint is out of order, or its answer is lost and the code with it.
CodeFails(b) ==
    /\ browsers[b].pc = "asked"
    /\ browsers' = [browsers EXCEPT ![b] = [@ EXCEPT !.pc = "answered", !.answer = "failed"]]
    /\ spent' \in {spent, NewSpent(b)}
    /\ UNCHANGED <<row, owner, calls, inFlight, raced, issued, origin, honours, lost, links, sealing>>

CallAnswered(c, answer, t, r) ==
    calls' = [calls EXCEPT ![c] = [@ EXCEPT !.pc = "answered", !.answer = answer, !.token = t, !.rotated = r]]

\* The refresh token is honoured; the provider may replace it.
GrantRefreshed(c) ==
    LET q == calls[c]
        g == IF q.app \in Mint THEN issued + 1 ELSE Grant(q.using)
    IN  /\ q.pc = "asked"
        /\ q.app \notin Mint => honours[g] = q.using /\ origin[q.using].app = q.app
        /\ Issue(q.app, g)
        /\ \E r \in IF q.app \in Mint THEN {FALSE} ELSE BOOLEAN :
              /\ CallAnswered(c, "tokens", issued + 1, r)
              /\ honours' = IF r THEN [honours EXCEPT ![g] = issued + 1] ELSE honours
        /\ UNCHANGED <<row, owner, inFlight, browsers, raced, spent, lost, links, sealing>>

GrantRefused(c) ==
    LET q == calls[c]
    IN  /\ q.pc = "asked" /\ q.app \notin Mint
        /\ honours[Grant(q.using)] # q.using \/ origin[q.using].app # q.app
        /\ CallAnswered(c, "invalid_grant", 0, FALSE)
        /\ UNCHANGED <<row, owner, inFlight, browsers, raced, links, provider, sealing>>

\* The token endpoint is out of order.
ProviderFails(c) ==
    /\ calls[c].pc = "asked"
    /\ CallAnswered(c, "failed", 0, FALSE)
    /\ UNCHANGED <<row, owner, inFlight, browsers, raced, links, provider, sealing>>

\* The answer does not arrive within tokenRequestTimeoutMs.
AnswerLost(c) ==
    /\ calls[c].pc = "answered" /\ calls[c].rotated
    /\ CallAnswered(c, "failed", 0, FALSE)
    /\ lost' = lost \cup {Grant(calls[c].token)}
    /\ UNCHANGED <<row, owner, inFlight, browsers, raced, issued, origin, honours, spent, links, sealing>>

\* The user withdraws a grant at the provider.
Revoke(g) ==
    /\ g <= issued /\ honours[g] # 0
    /\ honours' = [honours EXCEPT ![g] = 0]
    /\ UNCHANGED <<row, owner, calls, inFlight, browsers, raced, issued, origin, spent, lost, links, sealing>>

\* The cell stops: the calls in it and the map are gone.
Restart ==
    /\ Restarts
    /\ Underway \/ owner.pc # "idle"
    /\ calls' = [c \in Calls |-> IdleCall]
    /\ inFlight' = None
    /\ owner' = IdleOwner
    /\ reseal' = NotSealing
    /\ browsers' = [b \in Browsers |-> IF Exchanging(b) \/ browsers[b].pc = "beginning"
                                       THEN Closed(browsers[b]) ELSE browsers[b]]
    /\ lost' = lost \cup {Grant(calls[c].token) : c \in {d \in Calls : calls[d].rotated}}
    /\ UNCHANGED <<row, raced, issued, origin, honours, spent, links, old>>

----------------------------------------------------------------------------
Init ==
    /\ row = NoRow
    /\ connects = [n \in Links |-> NoLink]
    /\ lastConnect = 0
    /\ owner = IdleOwner
    /\ calls = [c \in Calls |-> IdleCall]
    /\ inFlight = None
    /\ browsers = [b \in Browsers |-> NewPage]
    /\ issued = 0
    /\ origin = [t \in Tokens |-> [app |-> None, grant |-> 0]]
    /\ honours = [t \in Tokens |-> 0]
    /\ spent = {}
    /\ old = {}
    /\ reseal = NotSealing
    /\ lost = {}
    /\ raced = FALSE

OwnerStep == (\E a \in Apps : SaveBegin(a)) \/ SaveWrite \/ disconnect \/ delete \/ ConnectStart \/ ConnectInsert

Page(b) ==
    \/ \E n \in Links : BeginRead(b, n)
    \/ BeginWrite(b) \/ Consent(b) \/ (\E p \in Browsers : Reload(b, p))
    \/ CompleteInvalid(b) \/ CompleteLapsed(b) \/ CompleteDenied(b) \/ CompleteRead(b)
    \/ CompletePost(b) \/ CompleteStore(b) \/ CompleteFails(b)

Task(c) == RefreshPost(c) \/ RefreshStore(c) \/ RefreshFails(c)

Provider ==
    \/ \E b \in Browsers : CodeExchanged(b) \/ CodeFails(b)
    \/ \E c \in Calls : GrantRefreshed(c) \/ GrantRefused(c) \/ ProviderFails(c) \/ AnswerLost(c)
    \/ \E g \in Tokens : Revoke(g)

Next ==
    \/ OwnerStep
    \/ \E n \in Links : Lapse(n)
    \/ \E b \in Browsers : Page(b)
    \/ \E c \in Calls : integrationRefresh(c) \/ tokenResolve(c) \/ Task(c)
    \/ Provider
    \/ Restart \/ NewKey
    \/ (\E column \in {"access", "refresh"} : RekeyRead(column)) \/ RekeyWrite

(***************************************************************************)
(* Fairness: a refresh the cell has begun goes on, and the token endpoint  *)
(* answers or the request times out after tokenRequestTimeoutMs.  The      *)
(* users, the browsers and the gateway owe nothing.                        *)
(***************************************************************************)
Fairness == \A c \in Calls : WF_vars(Task(c)) /\ WF_vars(ProviderFails(c))
Spec == Init /\ [][Next]_vars
FairSpec == Spec /\ Fairness

----------------------------------------------------------------------------
(* Every variable keeps its shape; a connection has tokens and only a connection has; the shared refresh runs. *)
Statuses == {"none", "pending", "connected", "auth_failed"}
TypeOK ==
    /\ row \in [app : Apps \cup {None}, status : Statuses, access : 0..issued, refresh : 0..issued]
    /\ row.status = "connected" => row.access # 0
    /\ ~raced /\ row.status # "connected" => row.access = 0 /\ row.refresh = 0
    /\ reseal # NotSealing => reseal.held \in 1..issued
    /\ inFlight \in Calls \cup {None}
    /\ \A c \in Calls : Busy(c) => inFlight = c
    /\ lastConnect \in 0..MaxConnects /\ issued \in 0..MaxTokens

(***************************************************************************)
(* docs/integrations.md:113, "concurrent requests share one refresh, and   *)
(* honour refresh-token rotation": Kody never spends a refresh token       *)
(* twice.  A refresh is refused as invalid_grant, which ends the           *)
(* connection, only when the grant was revoked at the provider, an answer  *)
(* that replaced the token was lost on the way, or the token is that of    *)
(* another app.                                                            *)
(***************************************************************************)
RefusalDeserved ==
    \A c \in Calls : calls[c].answer = "invalid_grant" =>
        LET g == Grant(calls[c].using)
        IN  honours[g] = 0 \/ g \in lost \/ origin[calls[c].using].app # calls[c].app

(***************************************************************************)
(* integrations/store.ts:256, "Changing token endpoints or client id       *)
(* invalidates the stored tokens": the stored tokens were issued to the    *)
(* app that is described, as long as no change of the app overtook tokens  *)
(* on their way.                                                           *)
(***************************************************************************)
TokensOfApp ==
    /\ TypeOK
    /\ ~raced => \A t \in {row.access, row.refresh} \ {0} : origin[t].app = row.app

(***************************************************************************)
(* Everyone waiting for a shared refresh gets an answer: the map entry     *)
(* goes however the refresh ends.                                          *)
(***************************************************************************)
WaitersAnswered == \A c \in Calls : calls[c].pc = "waiting" ~> calls[c].pc # "waiting"

(***************************************************************************)
(* docs/integrations.md:150, "integrationDisconnect: drop tokens, keep the *)
(* app config": a connection whose tokens were dropped comes back with a   *)
(* new grant only, never with the tokens of the old one.                   *)
(***************************************************************************)
DroppedStaysDropped ==
    [][row.status # "connected" /\ row'.status = "connected" => Grant(row'.access) = row'.access]_vars
=============================================================================
