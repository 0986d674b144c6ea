----------------------------- MODULE McpClient -----------------------------
(***************************************************************************)
(* The MCP servers a user connects (mcp-client): one server name, its row  *)
(* (McpServerStore), its OAuth row and pending authorizations              *)
(* (McpOAuthStore), and the calls of the Worker that use them.             *)
(*                                                                         *)
(* The user cell gives way to other calls wherever it seals or opens a     *)
(* value, and between two of its calls the Worker talks to the server and  *)
(* its authorization server.  One step is what happens between two such    *)
(* points.  A bearer is named by the URL it was entered for, a client by   *)
(* its number, a token by its grant and its number in the grant.           *)
(***************************************************************************)
EXTENDS Integers, FiniteSets

CONSTANTS Urls,          \* URLs the name may be given
          Calls,         \* calls under way
          None,
          MaxAttempts,   \* bound: authorizations started
          MaxSeq,        \* bound: refreshes of one grant
          MaxIds         \* bound: times the name is added

ASSUME McpAssumption ==
    /\ None \notin Urls \cup Calls
    /\ MaxAttempts \in Nat /\ MaxSeq \in Nat /\ MaxIds \in Nat

VARIABLES server,     \* the row of mcp_servers
          lastId,
          oneOrigin,  \* whether the URLs share their origin
          oauth,      \* the row of mcp_server_oauth
          attempts,   \* mcp_server_oauth_pending
          lastAttempt,
          inFlight,   \* the call whose refresh is registered
          calls,
          issuer,     \* the authorization server: the refresh token each grant honours
          issued,     \* history: the server each grant was issued for
          exchanges,  \* history: code exchanges of each attempt
          late        \* history: overlaps the fences do not cover

vars == <<server, lastId, oneOrigin, oauth, attempts, lastAttempt, inFlight, calls, issuer, issued, exchanges, late>>
history == <<issued, exchanges, late>>

Attempts == 1..MaxAttempts
Preregistered == MaxAttempts + 1     \* the operator's client

NoToken == [grant |-> 0, seq |-> 0]
NoServer == [id |-> 0, url |-> None, kind |-> "none", bearer |-> None, status |-> "error", usable |-> FALSE]
NoRow == [exists |-> FALSE, client |-> 0, access |-> NoToken, refresh |-> NoToken]
NoAttempt == [state |-> "none", id |-> 0, url |-> None, client |-> 0]
NoCall == [pc |-> "idle", goal |-> "none", id |-> 0, url |-> None, kind |-> "none", client |-> 0, attempt |-> 0,
           access |-> NoToken, refresh |-> NoToken, forced |-> FALSE, changed |-> FALSE, on |-> None, result |-> "none"]

Exists == server.id # 0
sameOrigin(u, v) == u = v \/ oneOrigin
Idle(c) == calls[c].pc = "idle"
At(c, pc) == calls[c].pc = pc
Ends(c) == calls' = [calls EXCEPT ![c] = NoCall]
Goes(c, pc) == calls' = [calls EXCEPT ![c].pc = pc]

\* A call that is about to record what it found.
Deciding(q, r) == [NoCall EXCEPT !.pc = "outcome", !.goal = q.goal, !.url = q.url, !.result = r]

\* discover: a record in hand, the server is asked for its tools.
Discovering(goal, r) == [NoCall EXCEPT !.pc = "authorize", !.goal = goal, !.url = r.url, !.kind = r.kind]

----------------------------------------------------------------------------
(* The OAuth row *)

\* bumpGeneration: the refreshes under way see that they are out of date.
bumpGeneration(cs) == [c \in Calls |-> IF cs[c].pc \in {"client", "asked", "sealing"} THEN [cs[c] EXCEPT !.changed = TRUE] ELSE cs[c]]

clearedTokens(row) == [row EXCEPT !.access = NoToken, !.refresh = NoToken]
clearedClient(row) == [clearedTokens(row) EXCEPT !.client = 0]

\* clear
cleared(cs) ==
    /\ oauth' = NoRow
    /\ attempts' = [a \in Attempts |-> NoAttempt]
    /\ inFlight' = None
    /\ calls' = bumpGeneration(cs)

writeClient(row, k) == [row EXCEPT !.exists = TRUE, !.client = k]

\* writeTokens with create: a refresh token of an older grant does not stay.
Granted(row, access, refresh) == [row EXCEPT !.exists = TRUE, !.access = access, !.refresh = refresh]

\* writeTokens without create: an answer without a refresh token keeps the stored one.
Refreshed(row, access, refresh) == [row EXCEPT !.access = access, !.refresh = IF refresh = NoToken THEN @ ELSE refresh]

----------------------------------------------------------------------------
(* The server row *)

\* A row that is written over or deleted while its bearer is being sealed again.
Resealing == \E c \in Calls : calls[c].pc = "resealing"
Overlap == late' = IF Resealing THEN late \cup {"rekey"} ELSE late

Saved(id, u, kind, bearer) ==
    [id |-> id, url |-> u, kind |-> kind, bearer |-> bearer, status |-> "error", usable |-> TRUE]

NewId == IF Exists THEN server.id ELSE lastId + 1
Counted(id) == lastId' = IF id > lastId THEN id ELSE lastId

\* A replacement without a token keeps the bearer for the same origin only.
KeepsBearer(u) == Exists /\ server.bearer # None /\ sameOrigin(server.url, u)

\* addMcpServer, the save without a bearer: a fresh name or another URL clears the OAuth row.
addMcpServer(c, u) ==
    LET keeps == KeepsBearer(u)
        oauthStays == Exists /\ server.url = u /\ server.kind = "oauth"
        next == Saved(NewId, u, IF keeps THEN "bearer" ELSE IF oauthStays THEN "oauth" ELSE "none",
                      IF keeps THEN server.bearer ELSE None)
        cs == [calls EXCEPT ![c] = Discovering("discover", next)]
    IN  /\ Idle(c) /\ NewId <= MaxIds
        /\ server' = next
        /\ Counted(NewId)
        /\ IF ~Exists \/ server.url # u THEN cleared(cs) ELSE calls' = cs /\ UNCHANGED <<oauth, attempts, inFlight>>
        /\ Overlap
        /\ UNCHANGED <<oneOrigin, lastAttempt, issuer, issued, exchanges>>

\* With a bearer: the row is cleared, and written once the bearer is sealed.
addWithBearer(c, u) ==
    /\ Idle(c) /\ NewId <= MaxIds
    /\ cleared([calls EXCEPT ![c] = [NoCall EXCEPT !.pc = "saving", !.id = NewId, !.url = u]])
    /\ Counted(NewId)
    /\ UNCHANGED <<server, oneOrigin, lastAttempt, issuer, history>>

SaveBearer(c) ==
    LET next == Saved(IF Exists THEN server.id ELSE calls[c].id, calls[c].url, "bearer", calls[c].url)
    IN  /\ At(c, "saving")
        /\ server' = next
        /\ calls' = [calls EXCEPT ![c] = Discovering("discover", next)]
        /\ Overlap
        /\ UNCHANGED <<lastId, oneOrigin, oauth, attempts, lastAttempt, inFlight, issuer, issued, exchanges>>

remove ==
    /\ Exists
    /\ server' = NoServer
    /\ cleared(calls)
    /\ Overlap
    /\ UNCHANGED <<lastId, oneOrigin, lastAttempt, issuer, issued, exchanges>>

\* setEnabled, setUsage: whether the caller's package may use the server.
setUsable ==
    /\ Exists
    /\ server' = [server EXCEPT !.usable = ~@]
    /\ UNCHANGED <<lastId, oneOrigin, oauth, attempts, lastAttempt, inFlight, calls, issuer, history>>

\* setDiscovery with an auth outcome: a bearer record, or one moved from the origin o, is never relabelled.
Relabelled(o, status) ==
    IF server.bearer # None \/ (o # None /\ ~sameOrigin(server.url, o)) THEN server
    ELSE [server EXCEPT !.kind = "oauth", !.status = status]

\* rekeyBearers: the bearer read is written back under the name, whatever the row holds by then.
RekeyBegin(c) ==
    /\ Idle(c) /\ server.bearer # None
    /\ calls' = [calls EXCEPT ![c] = [NoCall EXCEPT !.pc = "resealing", !.url = server.bearer]]
    /\ UNCHANGED <<server, lastId, oneOrigin, oauth, attempts, lastAttempt, inFlight, issuer, history>>

RekeyWrite(c) ==
    /\ At(c, "resealing")
    /\ server' = IF Exists THEN [server EXCEPT !.bearer = calls[c].url] ELSE server
    /\ Ends(c)
    /\ UNCHANGED <<lastId, oneOrigin, oauth, attempts, lastAttempt, inFlight, issuer, history>>

----------------------------------------------------------------------------
(* Authorization of a call *)

\* refreshMcpServer, and the discovery after a client or a grant was saved.
refreshMcpServer(c) ==
    /\ (Idle(c) /\ Exists) \/ At(c, "rediscover")
    /\ calls' = [calls EXCEPT ![c] = IF Exists THEN Discovering("discover", server) ELSE NoCall]
    /\ UNCHANGED <<server, lastId, oneOrigin, oauth, attempts, lastAttempt, inFlight, issuer, history>>

\* reconnectMcpServer forces a refresh when there is a refresh token.
reconnectMcpServer(c) ==
    /\ Idle(c) /\ Exists /\ server.kind = "oauth" /\ oauth.refresh # NoToken
    /\ calls' = [calls EXCEPT ![c] = [Discovering("reconnect", server) EXCEPT !.forced = TRUE]]
    /\ UNCHANGED <<server, lastId, oneOrigin, oauth, attempts, lastAttempt, inFlight, issuer, history>>

\* callMcpTool: "find" discovers the tools first because the tool is not among those stored.
callMcpTool(c) ==
    /\ Idle(c) /\ Exists /\ server.usable
    /\ server.kind = "oauth" => server.status = "ready" \/ (server.status = "error" /\ oauth.access # NoToken)
    /\ \E goal \in {"tool", "find"} : calls' = [calls EXCEPT ![c] = Discovering(goal, server)]
    /\ UNCHANGED <<server, lastId, oneOrigin, oauth, attempts, lastAttempt, inFlight, issuer, history>>

\* A rejected token was replaced meanwhile: the one read now is used.
NewerOr(q) == IF q.result = "stale" /\ oauth.access # q.access THEN "newer" ELSE q.result

\* callAuthorization: the bearer or none of the present row; the refresh under way is joined.
AuthBegin(c) ==
    /\ At(c, "authorize")
    /\ calls' = [calls EXCEPT ![c] =
           IF ~Exists THEN NoCall
           ELSE IF server.kind # "oauth" THEN [@ EXCEPT !.pc = "sending", !.access = NoToken]
           ELSE IF inFlight # None THEN [@ EXCEPT !.pc = "waiting", !.on = inFlight]
           ELSE [@ EXCEPT !.pc = "reading", !.result = NewerOr(calls[c]),
                          !.access = oauth.access, !.refresh = oauth.refresh]]
    /\ UNCHANGED <<server, lastId, oneOrigin, oauth, attempts, lastAttempt, inFlight, issuer, history>>

\* A token is there and neither expired nor rejected: the call is sent with it.
AuthReady(c) ==
    /\ At(c, "reading") /\ calls[c].access # NoToken
    /\ calls[c].result = "newer" \/ ~calls[c].forced
    /\ calls' = [calls EXCEPT ![c].pc = "sending", ![c].refresh = NoToken]
    /\ UNCHANGED <<server, lastId, oneOrigin, oauth, attempts, lastAttempt, inFlight, issuer, history>>

AuthMissing(c) ==
    /\ At(c, "reading") /\ calls[c].access = NoToken
    /\ calls' = [calls EXCEPT ![c].pc = "refused", ![c].result = "authenticating", ![c].access = NoToken]
    /\ UNCHANGED <<server, lastId, oneOrigin, oauth, attempts, lastAttempt, inFlight, issuer, history>>

\* Expired or rejected, and no refresh token: the tokens are cleared.
AuthUseless(c) ==
    /\ At(c, "reading") /\ calls[c].access # NoToken /\ calls[c].refresh = NoToken
    /\ calls[c].result # "newer"
    /\ oauth' = clearedTokens(oauth)
    /\ calls' = bumpGeneration([calls EXCEPT ![c].pc = "refused", ![c].result = "authenticating", ![c].access = NoToken])
    /\ UNCHANGED <<server, lastId, oneOrigin, attempts, lastAttempt, inFlight, issuer, history>>

AuthJoin(c) ==
    /\ At(c, "reading") /\ calls[c].access # NoToken /\ calls[c].refresh # NoToken
    /\ calls[c].result # "newer"
    /\ inFlight # None
    /\ calls' = [calls EXCEPT ![c].pc = "waiting", ![c].on = inFlight, ![c].access = NoToken, ![c].refresh = NoToken]
    /\ UNCHANGED <<server, lastId, oneOrigin, oauth, attempts, lastAttempt, inFlight, issuer, history>>

\* Mutant: the refresh registered meanwhile is not looked for.
RefreshUnaware(c) ==
    /\ At(c, "reading") /\ calls[c].access # NoToken /\ calls[c].refresh # NoToken
    /\ calls[c].result # "newer"
    /\ inFlight' = c
    /\ calls' = [calls EXCEPT ![c].pc = "client", ![c].client = oauth.client, ![c].changed = FALSE]
    /\ late' = IF calls[c].refresh # oauth.refresh THEN late \cup {"tokens"} ELSE late
    /\ UNCHANGED <<server, lastId, oneOrigin, oauth, attempts, lastAttempt, issuer, issued, exchanges>>

\* refreshNow: the generation and the client are read; the tokens were read a step earlier.
RefreshBegin(c) ==
    /\ At(c, "reading") /\ calls[c].access # NoToken /\ calls[c].refresh # NoToken
    /\ calls[c].result # "newer"
    /\ inFlight = None
    /\ inFlight' = c
    /\ calls' = [calls EXCEPT ![c].pc = "client", ![c].client = oauth.client, ![c].changed = FALSE]
    /\ late' = IF calls[c].refresh # oauth.refresh THEN late \cup {"tokens"} ELSE late
    /\ UNCHANGED <<server, lastId, oneOrigin, oauth, attempts, lastAttempt, issuer, issued, exchanges>>

\* The refresh ends: everyone who waits for it gets its result.
Settled(cs, c, pc, result) ==
    [d \in Calls |-> IF d = c \/ (cs[d].pc = "waiting" /\ cs[d].on = c)
                     THEN [cs[d] EXCEPT !.pc = pc, !.result = result, !.on = None, !.client = 0, !.changed = FALSE,
                                        !.access = IF pc = "sending" THEN cs[c].access ELSE NoToken, !.refresh = NoToken]
                     ELSE cs[d]]
Released(c) == inFlight' = IF inFlight = c THEN None ELSE inFlight

Changed(c) == calls[c].changed \/ ~oauth.exists

RefreshChanged(c) ==
    /\ calls[c].pc \in {"client", "asked", "sealing"} /\ Changed(c)
    /\ calls' = Settled(calls, c, "refused", "authenticating")
    /\ Released(c)
    /\ UNCHANGED <<server, lastId, oneOrigin, oauth, attempts, lastAttempt, issuer, history>>

\* No client, tokens of another authorization server, or a refresh token that is refused.
RefreshVoid(c) ==
    /\ \/ At(c, "client")
       \/ At(c, "asked") /\ issuer[calls[c].refresh.grant] # calls[c].refresh.seq
    /\ ~Changed(c)
    /\ oauth' = clearedTokens(oauth)
    /\ calls' = bumpGeneration(Settled(calls, c, "refused", "authenticating"))
    /\ Released(c)
    /\ UNCHANGED <<server, lastId, oneOrigin, attempts, lastAttempt, issuer, history>>

RefreshAsk(c) ==
    /\ At(c, "client") /\ ~Changed(c) /\ calls[c].client # 0
    /\ Goes(c, "asked")
    /\ UNCHANGED <<server, lastId, oneOrigin, oauth, attempts, lastAttempt, inFlight, issuer, history>>

\* The server answers with new tokens, and rotates the refresh token or not.
RefreshAnswered(c) ==
    LET r == calls[c].refresh
    IN  /\ At(c, "asked") /\ issuer[r.grant] = r.seq /\ r.seq < MaxSeq
        /\ \E rotates \in BOOLEAN :
             /\ issuer' = IF rotates THEN [issuer EXCEPT ![r.grant] = r.seq + 1] ELSE issuer
             /\ calls' = [calls EXCEPT ![c].pc = "sealing", ![c].access = [r EXCEPT !.seq = @ + 1],
                                       ![c].refresh = IF rotates THEN [r EXCEPT !.seq = @ + 1] ELSE NoToken]
        /\ UNCHANGED <<server, lastId, oneOrigin, oauth, attempts, lastAttempt, inFlight, history>>

\* Any other error, a lost answer included: the tokens stay.
RefreshFails(c) ==
    LET r == calls[c].refresh
    IN  /\ At(c, "asked") /\ ~Changed(c)
        /\ \/ UNCHANGED issuer
           \/ issuer[r.grant] = r.seq /\ r.seq < MaxSeq /\ issuer' = [issuer EXCEPT ![r.grant] = r.seq + 1]
        /\ calls' = Settled(calls, c, "refused", "error")
        /\ Released(c)
        /\ UNCHANGED <<server, lastId, oneOrigin, oauth, attempts, lastAttempt, history>>

RefreshWrite(c) ==
    /\ At(c, "sealing") /\ ~Changed(c)
    /\ oauth' = Refreshed(oauth, calls[c].access, calls[c].refresh)
    /\ calls' = Settled(calls, c, "sending", "none")
    /\ Released(c)
    /\ UNCHANGED <<server, lastId, oneOrigin, attempts, lastAttempt, issuer, history>>

\* callAuthorization after a failed refresh: the row is read again; a newer record keeps its label.
AuthRefused(c) ==
    LET q == calls[c]
    IN  /\ At(c, "refused")
        /\ IF Exists /\ server.kind # "oauth"
           THEN calls' = [calls EXCEPT ![c].pc = "sending", ![c].access = NoToken] /\ UNCHANGED server
           ELSE /\ server' = IF Exists THEN Relabelled(None, q.result) ELSE server
                /\ calls' = [calls EXCEPT ![c] =
                       IF q.goal = "reconnect" /\ Exists THEN [NoCall EXCEPT !.pc = "rediscover"]
                       ELSE IF q.goal \in {"discover", "find"} /\ Exists
                       THEN Deciding(q, IF q.result = "error" \/ q.kind = "bearer" THEN "error" ELSE "auth")
                       ELSE NoCall]
        /\ UNCHANGED <<lastId, oneOrigin, oauth, attempts, lastAttempt, inFlight, issuer, history>>

----------------------------------------------------------------------------
(* The request to the server and what becomes of its answer *)

\* withAuthorization: a rejected OAuth token is refreshed once.
SendRejected(c) ==
    LET q == calls[c]
    IN  /\ At(c, "sending") /\ q.goal # "reconnect"
        /\ q.kind = "oauth" /\ ~q.forced /\ q.access # NoToken
        /\ calls' = [calls EXCEPT ![c].pc = "authorize", ![c].forced = TRUE, ![c].result = "stale"]
        /\ UNCHANGED <<server, lastId, oneOrigin, oauth, attempts, lastAttempt, inFlight, issuer, history>>

\* A tool call ends, or names a tool the server no longer has and looks again.
SendTool(c) ==
    /\ At(c, "sending") /\ calls[c].goal = "tool"
    /\ \/ Ends(c)
       \/ calls' = [calls EXCEPT ![c] = Discovering("find", @)]
    /\ UNCHANGED <<server, lastId, oneOrigin, oauth, attempts, lastAttempt, inFlight, issuer, history>>

SendReconnect(c) ==
    /\ At(c, "sending") /\ calls[c].goal = "reconnect"
    /\ calls' = [calls EXCEPT ![c] = [NoCall EXCEPT !.pc = "rediscover"]]
    /\ UNCHANGED <<server, lastId, oneOrigin, oauth, attempts, lastAttempt, inFlight, issuer, history>>

\* discover: the tools, an error, or a 401 that makes it look for an authorization server (oauthOutcome).
SendDiscover(c) ==
    /\ At(c, "sending") /\ calls[c].goal \in {"discover", "find"}
    /\ \E r \in {"tools", "error", "auth"} :
         /\ r = "auth" => calls[c].kind # "bearer"
         /\ calls' = [calls EXCEPT ![c] = Deciding(@, r)]
    /\ UNCHANGED <<server, lastId, oneOrigin, oauth, attempts, lastAttempt, inFlight, issuer, history>>

\* setDiscovery.  A call that looked for its tool goes on with the record it gets back.
setDiscovery(c) ==
    LET q == calls[c]
        next == IF q.result = "tools" THEN [server EXCEPT !.status = "ready"]
                ELSE IF q.result = "error" THEN [server EXCEPT !.status = "error"]
                ELSE Relabelled(IF q.result = "park" THEN q.url ELSE None, "authenticating")
        found == IF q.goal = "find" THEN {Discovering("tool", next), NoCall} ELSE {NoCall}
    IN  /\ At(c, "outcome")
        /\ IF Exists
           THEN /\ server' = next
                /\ oauth' = IF q.result = "auth" /\ server.bearer = None THEN [oauth EXCEPT !.exists = TRUE] ELSE oauth
                /\ \E f \in found : calls' = [calls EXCEPT ![c] = f]
           ELSE Ends(c) /\ UNCHANGED <<server, oauth>>
        /\ UNCHANGED <<lastId, oneOrigin, attempts, lastAttempt, inFlight, issuer, history>>

----------------------------------------------------------------------------
(* Authorizing a server *)

\* requireOAuthServer
StartBegin(c) ==
    /\ Idle(c) /\ Exists /\ server.kind = "oauth"
    /\ calls' = [calls EXCEPT ![c] = [NoCall EXCEPT !.pc = "load", !.id = server.id, !.url = server.url]]
    /\ UNCHANGED <<server, lastId, oneOrigin, oauth, attempts, lastAttempt, inFlight, issuer, history>>

\* The stored client is read, the authorization server probed; with none stored one is registered.
StartLoad(c) ==
    /\ At(c, "load")
    /\ \/ /\ lastAttempt < MaxAttempts
          /\ lastAttempt' = lastAttempt + 1
          /\ \E k \in {lastAttempt + 1, oauth.client} \ {0} :
               /\ oauth.client = Preregistered => k = Preregistered
               /\ calls' = [calls EXCEPT ![c].pc = "begin", ![c].client = k, ![c].attempt = lastAttempt + 1]
       \/ Ends(c) /\ UNCHANGED lastAttempt
    /\ UNCHANGED <<server, lastId, oneOrigin, oauth, attempts, inFlight, issuer, history>>

\* mcpServerOAuthBegin: refused when the name was removed and added again meanwhile.
StartSave(c) ==
    /\ At(c, "begin")
    /\ IF server.id = calls[c].id THEN Goes(c, "storing") ELSE Ends(c)
    /\ UNCHANGED <<server, lastId, oneOrigin, oauth, attempts, lastAttempt, inFlight, issuer, history>>

StartStore(c) ==
    /\ At(c, "storing")
    /\ oauth' = writeClient(oauth, calls[c].client)
    /\ Goes(c, "pending")
    /\ UNCHANGED <<server, lastId, oneOrigin, attempts, lastAttempt, inFlight, issuer, history>>

createPending(c) ==
    LET q == calls[c]
    IN  /\ At(c, "pending")
        /\ attempts' = [attempts EXCEPT ![q.attempt] = [state |-> "open", id |-> q.id, url |-> q.url, client |-> q.client]]
        /\ Ends(c)
        /\ UNCHANGED <<server, lastId, oneOrigin, oauth, lastAttempt, inFlight, issuer, history>>

\* claimPending marks the attempt in the step that reads it; a second callback is a replay.
claimPending(c, a) ==
    LET p == attempts[a]
    IN  /\ Idle(c) /\ p.state = "open"
        /\ attempts' = [attempts EXCEPT ![a].state = "used"]
        /\ calls' = [calls EXCEPT ![c] = [NoCall EXCEPT !.pc = "claimed", !.attempt = a, !.id = p.id, !.url = p.url, !.client = p.client]]
        /\ UNCHANGED <<server, lastId, oneOrigin, oauth, lastAttempt, inFlight, issuer, history>>

oauthAttemptIdentityMatches(q) == q.id # 0 /\ server.id = q.id /\ q.client # 0 /\ oauth.client = q.client

\* Expired, moved or changed attempts end; without a code the server is parked unless a grant is there.
FinishCheck(c) ==
    LET q == calls[c]
        parked == IF oauth.access = NoToken THEN Deciding(q, "park") ELSE NoCall
        fits == Exists /\ server.url = q.url /\ oauthAttemptIdentityMatches(q)
    IN  /\ At(c, "claimed")
        /\ \/ Ends(c) /\ UNCHANGED exchanges
           \/ fits /\ calls' = [calls EXCEPT ![c] = parked] /\ UNCHANGED exchanges
           \/ fits /\ Goes(c, "exchange") /\ exchanges' = [exchanges EXCEPT ![q.attempt] = @ + 1]
        /\ UNCHANGED <<server, lastId, oneOrigin, oauth, attempts, lastAttempt, inFlight, issuer, issued, late>>

\* The code is exchanged: the grant starts with its first tokens, or the exchange fails.
FinishExchange(c) ==
    LET q == calls[c]
    IN  /\ At(c, "exchange")
        /\ \/ /\ issuer' = [issuer EXCEPT ![q.attempt] = 1]
              /\ issued' = [issued EXCEPT ![q.attempt] = [id |-> q.id, url |-> q.url]]
              /\ \E r \in {0, 1} : calls' = [calls EXCEPT ![c].pc = "complete", ![c].access = [grant |-> q.attempt, seq |-> 1],
                                    ![c].refresh = IF r = 1 THEN [grant |-> q.attempt, seq |-> 1] ELSE NoToken]
           \/ /\ calls' = [calls EXCEPT ![c] = Deciding(q, "park")]
              /\ UNCHANGED <<issuer, issued>>
        /\ UNCHANGED <<server, lastId, oneOrigin, oauth, attempts, lastAttempt, inFlight, exchanges, late>>

\* Mutant: the server is not looked at again.
FitsUnasked(c) == Exists

\* completeOAuth's check after the last await.
Fits(c) ==
    LET q == calls[c]
    IN  Exists /\ server.url = q.url /\ server.kind # "bearer" /\ oauthAttemptIdentityMatches(q)

\* completeOAuth: sealed first, then checked and written in one step; markOAuth.
completeOAuth(c) ==
    LET q == calls[c]
    IN  /\ At(c, "complete")
        /\ IF Fits(c)
           THEN /\ oauth' = Granted(oauth, q.access, q.refresh)
                /\ server' = [server EXCEPT !.kind = "oauth", !.bearer = None]
                /\ calls' = bumpGeneration([calls EXCEPT ![c] = [NoCall EXCEPT !.pc = "rediscover"]])
           ELSE Ends(c) /\ UNCHANGED <<oauth, server>>
        /\ UNCHANGED <<lastId, oneOrigin, attempts, lastAttempt, inFlight, issuer, history>>

----------------------------------------------------------------------------
(* The operator's client *)

\* setMcpOAuthClient, removeMcpOAuthClient: for a server without a bearer.
ClientBegin(c) ==
    /\ Idle(c) /\ Exists /\ server.kind # "bearer"
    /\ \E goal \in {"set", "remove"} : calls' = [calls EXCEPT ![c] = [NoCall EXCEPT !.pc = "clientclear", !.goal = goal]]
    /\ UNCHANGED <<server, lastId, oneOrigin, oauth, attempts, lastAttempt, inFlight, issuer, history>>

\* clearClient drops the tokens issued to the client; a new one is written once sealed.
clearClient(c) ==
    LET sets == calls[c].goal = "set"
    IN  /\ At(c, "clientclear")
        /\ IF sets /\ ~Exists THEN Ends(c) /\ UNCHANGED oauth
           ELSE /\ oauth' = clearedClient(oauth)
                /\ calls' = bumpGeneration([calls EXCEPT ![c].pc = IF sets THEN "clientstore" ELSE "rediscover"])
        /\ UNCHANGED <<server, lastId, oneOrigin, attempts, lastAttempt, inFlight, issuer, history>>

setPreregisteredClient(c) ==
    /\ At(c, "clientstore")
    /\ oauth' = writeClient(oauth, Preregistered)
    /\ Goes(c, "rediscover")
    /\ UNCHANGED <<server, lastId, oneOrigin, attempts, lastAttempt, inFlight, issuer, history>>

----------------------------------------------------------------------------

Init ==
    /\ server = NoServer /\ lastId = 0 /\ oneOrigin \in BOOLEAN
    /\ oauth = NoRow
    /\ attempts = [a \in Attempts |-> NoAttempt] /\ lastAttempt = 0
    /\ inFlight = None
    /\ calls = [c \in Calls |-> NoCall]
    /\ issuer = [a \in Attempts |-> 0]
    /\ issued = [a \in Attempts |-> [id |-> 0, url |-> None]]
    /\ exchanges = [a \in Attempts |-> 0]
    /\ late = {}

Authorizing(c) ==
    \/ AuthBegin(c) \/ AuthReady(c) \/ AuthMissing(c) \/ AuthUseless(c) \/ AuthJoin(c) \/ AuthRefused(c)
    \/ RefreshBegin(c) \/ RefreshChanged(c) \/ RefreshVoid(c) \/ RefreshAsk(c) \/ RefreshAnswered(c) \/ RefreshFails(c) \/ RefreshWrite(c)
    \/ SendRejected(c) \/ SendTool(c) \/ SendReconnect(c) \/ SendDiscover(c) \/ setDiscovery(c)

Connecting(c) ==
    \/ StartBegin(c) \/ StartLoad(c) \/ StartSave(c) \/ StartStore(c) \/ createPending(c)
    \/ FinishCheck(c) \/ FinishExchange(c) \/ completeOAuth(c)
    \/ ClientBegin(c) \/ clearClient(c) \/ setPreregisteredClient(c)
    \/ \E a \in Attempts : claimPending(c, a)

Next ==
    \/ remove \/ setUsable
    \/ \E c \in Calls :
         \/ Authorizing(c) \/ Connecting(c)
         \/ refreshMcpServer(c) \/ reconnectMcpServer(c) \/ callMcpTool(c)
         \/ SaveBearer(c) \/ RekeyBegin(c) \/ RekeyWrite(c)
         \/ \E u \in Urls : addMcpServer(c, u) \/ addWithBearer(c, u)

Spec == Init /\ [][Next]_vars

----------------------------------------------------------------------------
(* Properties *)

\* The tokens of an OAuth server were issued for this very server at this URL, through removals,
\* replacements and new clients (mcp-client/store.ts completeOAuth, oauth-store.ts refreshNow).
TokensFit ==
    LET g == oauth.access.grant
    IN  "tokens" \notin late /\ server.kind = "oauth" /\ g # 0 => issued[g] = [id |-> server.id, url |-> server.url]

\* The two tokens stored are of one grant (oauth-store.ts writeTokens).
GrantWhole ==
    "tokens" \notin late /\ oauth.access.grant # 0 /\ oauth.refresh.grant # 0 => oauth.access.grant = oauth.refresh.grant

\* The code of an authorization is exchanged once, however often the browser comes back (oauth-store.ts claimPending).
ExchangeOnce == \A a \in Attempts : exchanges[a] <= 1

\* One refresh token is never presented by two calls at once (oauth-store.ts accessToken).
OneRefresh ==
    "tokens" \notin late =>
        \A c, d \in Calls : At(c, "asked") /\ At(d, "asked") /\ calls[c].refresh = calls[d].refresh => c = d

\* A bearer stays with the origin it was entered for (mcp-client/store.ts save).
BearerFits == "rekey" \notin late /\ server.bearer # None => sameOrigin(server.url, server.bearer)

\* Every credential stored under a server's name is that server's: tokens of one grant, issued for this server
\* at this URL, and a bearer entered for its origin (mcp-client/store.ts, oauth-store.ts).
CredentialsFit == TokensFit /\ GrantWhole /\ BearerFits

\* No code and no refresh token is presented by two calls (mcp-client/oauth-store.ts).
UsedOnce == ExchangeOnce /\ OneRefresh
=============================================================================
