---------------------------- MODULE OAuthServer ----------------------------
(***************************************************************************)
(* The authorization server for MCP clients (oauth): registered clients,   *)
(* one-time codes, grants, and families of rotating refresh tokens, kept   *)
(* by OAuthServerStore in the registry cell and used through the routes    *)
(* of the Worker.  One user; users share nothing here but the clients.     *)
(*                                                                         *)
(* The store gives way to other calls where it hashes or seals (WebCrypto) *)
(* and a route between two calls of the cell.  One step is what happens    *)
(* between two such points.  A token pair is named by its number, which    *)
(* stands for both tokens and their hashes.                                *)
(***************************************************************************)
EXTENDS Integers, FiniteSets

CONSTANTS Clients,     \* registered MCP clients
          Requests,    \* token requests under way
          None,
          MaxCodes,    \* bound: codes issued
          MaxGrants,   \* bound: grants made
          MaxPairs     \* bound: token pairs minted

ASSUME OAuthAssumption ==
    /\ None \notin Clients
    /\ MaxCodes \in Nat /\ MaxGrants \in Nat /\ MaxPairs \in Nat

VARIABLES clients,    \* oauth_clients
          codes,      \* oauth_codes: the client of each, None when gone
          lastCode,
          grants,     \* oauth_grants: the client of each, None when deleted
          lastGrant,
          access,     \* oauth_tokens of kind access
          refresh,    \* oauth_tokens of kind refresh
          lastPair,
          born,       \* history: the code each family of tokens came from
          reqs,       \* the token requests
          held,       \* the clients: the pair received last
          careless,   \* history: clients that broke the protocol or whose session was ended
          crowded,    \* history: families refreshed by two requests at once or revoked meanwhile
          ended       \* history: families ended by a revocation

vars == <<clients, codes, lastCode, grants, lastGrant, access, refresh, lastPair, born, reqs, held, careless, crowded, ended>>
tokens == <<access, refresh>>
counters == <<lastCode, lastGrant, lastPair>>
history == <<born, careless, crowded, ended>>

Codes == 1..MaxCodes
Grants == 1..MaxGrants
Pairs == 1..MaxPairs

\* Families are named by the first pair of the family.
NoAccess == [state |-> "absent", grant |-> 0, family |-> 0]
NoRefresh == [state |-> "absent", grant |-> 0, family |-> 0, expired |-> FALSE, replay |-> 0, grace |-> FALSE]
NoReq == [pc |-> "idle", client |-> None, code |-> 0, using |-> 0, grant |-> 0, family |-> 0, pair |-> 0]

Idle(r) == reqs[r].pc = "idle"
Minting(r) == reqs[r].pc \in {"minting", "minted", "sealing"}
Family(f) == {p \in Pairs : refresh[p].state # "absent" /\ refresh[p].family = f}

----------------------------------------------------------------------------
(* Tables *)

\* purge: expired tokens, replay snapshots past the grace, clients never used.  Expired codes
\* and access tokens are refused as unknown ones are: they are gone when they expire.
purgeRefresh ==
    [p \in Pairs |-> IF refresh[p].expired THEN NoRefresh
                     ELSE IF ~refresh[p].grace THEN [refresh[p] EXCEPT !.replay = 0] ELSE refresh[p]]
purgeClients(cs) ==
    [c \in Clients |-> IF cs[c] = "old" /\ \A g \in Grants : grants[g] # c THEN "absent" ELSE cs[c]]

purge ==
    /\ refresh' = purgeRefresh
    /\ UNCHANGED <<codes, access>>

\* Mutant: only the refresh tokens are deleted.
familyRevokeRefresh(f) ==
    /\ refresh' = [p \in Pairs |-> IF refresh[p].family = f THEN NoRefresh ELSE refresh[p]]
    /\ ended' = ended \cup {f}
    /\ UNCHANGED access

familyRevoke(f) ==
    /\ ended' = ended \cup {f}
    /\ access' = [p \in Pairs |-> IF access[p].family = f THEN NoAccess ELSE access[p]]
    /\ refresh' = [p \in Pairs |-> IF refresh[p].family = f THEN NoRefresh ELSE refresh[p]]

Deleted(S) ==
    /\ ended' = ended \cup {access[p].family : p \in {p \in Pairs : access[p].grant \in S}}
                    \cup {refresh[p].family : p \in {p \in Pairs : refresh[p].grant \in S}}
    /\ access' = [p \in Pairs |-> IF access[p].grant \in S THEN NoAccess ELSE access[p]]
    /\ refresh' = [p \in Pairs |-> IF refresh[p].grant \in S THEN NoRefresh ELSE refresh[p]]
    /\ grants' = [g \in Grants |-> IF g \in S THEN None ELSE grants[g]]

\* accessTokenResolve: the token joined with its grant and its client.
accessTokenResolve(p) ==
    /\ access[p].state = "live"
    /\ access[p].grant # 0
    /\ grants[access[p].grant] # None
    /\ clients[grants[access[p].grant]] # "absent"

----------------------------------------------------------------------------
(* Clients and consent *)

clientRegister(c) ==
    /\ clients' = [purgeClients(clients) EXCEPT ![c] = "fresh"]
    /\ purge

handleRegister(c) ==
    /\ clients[c] = "absent"
    /\ clientRegister(c)
    /\ UNCHANGED <<grants, reqs, held, counters, history>>

codeIssue(c) ==
    /\ lastCode < MaxCodes
    /\ lastCode' = lastCode + 1
    /\ codes' = [codes EXCEPT ![lastCode + 1] = c]

\* The user approves (a refusal and a request that does not parse change nothing).
handleAuthorize(c) ==
    /\ clients[c] # "absent"
    /\ codeIssue(c)
    /\ UNCHANGED <<clients, grants, lastGrant, lastPair, reqs, held, tokens, history>>

----------------------------------------------------------------------------
(* Exchange of a code *)

\* A registered client with the right secret, or none when it is public.
clientAuthenticate(c) == clients[c] # "absent"

\* The client is authenticated.
ExchangeBegin(r, c, k) ==
    /\ Idle(r) /\ clientAuthenticate(c)
    /\ k <= lastCode
    /\ reqs' = [reqs EXCEPT ![r] = [NoReq EXCEPT !.pc = "consuming", !.client = c, !.code = k]]
    /\ UNCHANGED <<clients, codes, grants, held, tokens, counters, history>>

codeConsume(k) == codes' = [codes EXCEPT ![k] = None]

\* The code is deleted; it must be fresh and the client's own, and redirect URI, PKCE
\* verifier and resource must fit.
ExchangeConsume(r) ==
    LET q == reqs[r]
    IN  /\ q.pc = "consuming"
        /\ codeConsume(q.code)
        /\ \/ reqs' = [reqs EXCEPT ![r] = NoReq]
           \/ codes[q.code] = q.client /\ reqs' = [reqs EXCEPT ![r].pc = "ensuring"]
        /\ UNCHANGED <<clients, grants, held, tokens, counters, history>>

\* grantEnsure: the client's grant, a new one when there is none.
grantEnsure(r) ==
    LET c == reqs[r].client
        old == {g \in Grants : grants[g] = c}
    IN  /\ reqs[r].pc = "ensuring"
        /\ \/ /\ old # {}
              /\ \E g \in old : reqs' = [reqs EXCEPT ![r] = [@ EXCEPT !.pc = "issuing", !.grant = g]]
              /\ UNCHANGED <<grants, lastGrant>>
           \/ /\ old = {} /\ lastGrant < MaxGrants
              /\ lastGrant' = lastGrant + 1
              /\ grants' = [grants EXCEPT ![lastGrant + 1] = c]
              /\ reqs' = [reqs EXCEPT ![r] = [@ EXCEPT !.pc = "issuing", !.grant = lastGrant + 1]]
        /\ UNCHANGED <<clients, codes, lastCode, lastPair, held, tokens, history>>

Touch(cs, c) == [cs EXCEPT ![c] = IF @ = "absent" THEN @ ELSE "used"]

\* tokensIssue: purge, note the use, and a new family.
tokensIssue(r) ==
    LET n == lastPair + 1
    IN  /\ reqs[r].pc = "issuing" /\ n <= MaxPairs
        /\ purge
        /\ clients' = Touch(purgeClients(clients), reqs[r].client)
        /\ lastPair' = n
        /\ reqs' = [reqs EXCEPT ![r] = [@ EXCEPT !.pc = "minting", !.pair = n, !.family = n]]
        /\ born' = [born EXCEPT ![n] = reqs[r].code]
        /\ UNCHANGED <<grants, lastCode, lastGrant, held, careless, crowded, ended>>

\* mintPair: the access token, and after another hash the refresh token.
MintAccess(r) ==
    LET q == reqs[r]
    IN  /\ q.pc = "minting"
        /\ access' = [access EXCEPT ![q.pair] = [state |-> "live", grant |-> q.grant, family |-> q.family]]
        /\ reqs' = [reqs EXCEPT ![r].pc = "minted"]
        /\ UNCHANGED <<clients, codes, grants, refresh, held, counters, history>>

MintRefresh(r) ==
    LET q == reqs[r]
    IN  /\ q.pc = "minted"
        /\ refresh' = [refresh EXCEPT ![q.pair] =
             [state |-> "live", grant |-> q.grant, family |-> q.family, expired |-> FALSE, replay |-> 0, grace |-> FALSE]]
        /\ reqs' = [reqs EXCEPT ![r].pc = IF q.using = 0 THEN "answered" ELSE "sealing"]
        /\ UNCHANGED <<clients, codes, grants, access, held, counters, history>>

----------------------------------------------------------------------------
(* Refreshing *)

\* A client that never retries before it has given up the last attempt, and only with the
\* pair it received last, keeps the protocol.
Behaves(c, t) == t = held[c] /\ \A r \in Requests : reqs[r].client = c => Idle(r) \/ reqs[r].using = t

\* The client is authenticated, the tables are purged; the token is hashed.
RefreshBegin(r, c, t) ==
    /\ Idle(r) /\ clientAuthenticate(c) /\ t \in 1..held[c]
    /\ purge
    /\ clients' = purgeClients(clients)
    /\ reqs' = [reqs EXCEPT ![r] = [NoReq EXCEPT !.pc = "reading", !.client = c, !.using = t]]
    /\ careless' = IF Behaves(c, t) THEN careless ELSE careless \cup {c}
    /\ UNCHANGED <<grants, held, counters, born, crowded, ended>>

\* The row joined with its grant, for this client.
Found(q) == refresh[q.using].state # "absent" /\ grants[refresh[q.using].grant] = q.client

RefreshUnknown(r) ==
    /\ reqs[r].pc = "reading" /\ ~Found(reqs[r])
    /\ reqs' = [reqs EXCEPT ![r] = NoReq]
    /\ UNCHANGED <<clients, codes, grants, held, tokens, counters, history>>

\* Mutant: an answer is never repeated.
ReplayableNever(q) == FALSE

\* The token was replaced less than a minute ago and its answer is kept.
Replayable(q) == refresh[q.using].state = "replaced" /\ refresh[q.using].grace /\ refresh[q.using].replay # 0

RefreshReplays(r) ==
    LET q == reqs[r]
    IN  /\ q.pc = "reading" /\ Found(q) /\ ~refresh[q.using].expired /\ Replayable(q)
        /\ reqs' = [reqs EXCEPT ![r] = [q EXCEPT !.pc = "answered", !.pair = refresh[q.using].replay]]
        /\ UNCHANGED <<clients, codes, grants, held, tokens, counters, history>>

\* Expired, or used before and not to be repeated: the family ends.
RefreshRevokes(r) ==
    LET q == reqs[r]
        row == refresh[q.using]
    IN  /\ q.pc = "reading" /\ Found(q)
        /\ row.expired \/ (row.state = "replaced" /\ ~Replayable(q))
        /\ familyRevoke(row.family)
        /\ reqs' = [reqs EXCEPT ![r] = NoReq]
        /\ crowded' = crowded \cup {reqs[s].family : s \in {s \in Requests : Minting(s)}}
        /\ UNCHANGED <<clients, codes, grants, held, counters, born, careless>>

\* Rotation begins: the access tokens of the family and older snapshots go.
RefreshRotates(r) ==
    LET q == reqs[r]
        row == refresh[q.using]
        n == lastPair + 1
    IN  /\ q.pc = "reading" /\ Found(q) /\ n <= MaxPairs
        /\ ~row.expired /\ row.state = "live"
        /\ access' = [p \in Pairs |-> IF access[p].family = row.family THEN NoAccess ELSE access[p]]
        /\ refresh' = [p \in Pairs |-> IF refresh[p].family = row.family THEN [refresh[p] EXCEPT !.replay = 0] ELSE refresh[p]]
        /\ lastPair' = n
        /\ reqs' = [reqs EXCEPT ![r] = [q EXCEPT !.pc = "minting", !.pair = n, !.grant = row.grant, !.family = row.family]]
        /\ crowded' = IF \E s \in Requests : Minting(s) /\ reqs[s].family = row.family THEN crowded \cup {row.family} ELSE crowded
        /\ UNCHANGED <<clients, codes, lastCode, grants, lastGrant, held, born, careless, ended>>

\* The used token is marked, with the sealed answer for a retry.
RefreshSeal(r) ==
    LET q == reqs[r]
    IN  /\ q.pc = "sealing"
        /\ refresh' = [refresh EXCEPT ![q.using] =
             IF @.state = "absent" THEN @ ELSE [@ EXCEPT !.state = "replaced", !.replay = q.pair, !.grace = TRUE]]
        /\ clients' = Touch(clients, q.client)
        /\ reqs' = [reqs EXCEPT ![r].pc = "answered"]
        /\ UNCHANGED <<codes, grants, access, held, counters, history>>

\* The answer arrives, or is lost on the way.
Deliver(r) ==
    /\ reqs[r].pc = "answered"
    /\ held' = [held EXCEPT ![reqs[r].client] = reqs[r].pair]
    /\ reqs' = [reqs EXCEPT ![r] = NoReq]
    /\ UNCHANGED <<clients, codes, grants, tokens, counters, history>>

Lose(r) ==
    /\ reqs[r].pc = "answered"
    /\ reqs' = [reqs EXCEPT ![r] = NoReq]
    /\ UNCHANGED <<clients, codes, grants, held, tokens, counters, history>>

----------------------------------------------------------------------------
(* Revocation and the passing of time *)

\* tokenRevoke: a refresh token ends its family, an access token only itself.
RevokeRefresh(c, t) ==
    /\ t \in 1..held[c] /\ refresh[t].state # "absent" /\ grants[refresh[t].grant] = c
    /\ familyRevoke(refresh[t].family)
    /\ careless' = careless \cup {c}
    /\ crowded' = crowded \cup {reqs[s].family : s \in {s \in Requests : Minting(s)}}
    /\ UNCHANGED <<clients, codes, grants, reqs, held, counters, born>>

RevokeAccess(c, t) ==
    /\ t \in 1..held[c] /\ access[t].state # "absent" /\ grants[access[t].grant] = c
    /\ access' = [access EXCEPT ![t] = NoAccess]
    /\ UNCHANGED <<clients, codes, grants, refresh, reqs, held, counters, history>>

handleRevoke(c, t) == clientAuthenticate(c) /\ (RevokeRefresh(c, t) \/ RevokeAccess(c, t))

grantRevoke(g) ==
    /\ grants[g] # None
    /\ Deleted({g})
    /\ careless' = careless \cup {grants[g]}
    /\ UNCHANGED <<clients, codes, reqs, held, counters, born, crowded>>

grantRevokeAll ==
    /\ \E g \in Grants : grants[g] # None
    /\ Deleted({g \in Grants : grants[g] # None})
    /\ careless' = Clients
    /\ UNCHANGED <<clients, codes, reqs, held, counters, born, crowded>>

\* grantList only purges.
grantList == 
    /\ purge
    /\ clients' = purgeClients(clients)
    /\ UNCHANGED <<grants, reqs, held, counters, history>>

\* The clients that hold pair p or have a request under way with it.
Relying(p) == {c \in Clients : held[c] = p \/ \E r \in Requests : reqs[r].client = c /\ p = reqs[r].using}

\* The minute of grace ends; a code, an access token or a refresh token expires; a client grows old.
GraceEnds(p) ==
    /\ refresh[p].grace
    /\ refresh' = [refresh EXCEPT ![p].grace = FALSE]
    /\ careless' = careless \cup Relying(p)
    /\ UNCHANGED <<clients, codes, grants, access, reqs, held, counters, born, crowded, ended>>

Expire(p) ==
    /\ \/ /\ access[p].state = "live"
          /\ access' = [access EXCEPT ![p] = NoAccess]
          /\ UNCHANGED <<refresh, careless>>
       \/ /\ refresh[p].state # "absent" /\ ~refresh[p].expired
          /\ refresh' = [refresh EXCEPT ![p].expired = TRUE]
          /\ careless' = careless \cup ({grants[refresh[p].grant]} \ {None})
          /\ UNCHANGED access
    /\ UNCHANGED <<clients, codes, grants, reqs, held, counters, born, crowded, ended>>

CodeExpires(k) ==
    /\ codes[k] # None
    /\ codes' = [codes EXCEPT ![k] = None]
    /\ UNCHANGED <<clients, grants, reqs, held, tokens, counters, history>>

ClientAges(c) ==
    /\ clients[c] = "fresh"
    /\ clients' = [clients EXCEPT ![c] = "old"]
    /\ UNCHANGED <<codes, grants, reqs, held, tokens, counters, history>>

----------------------------------------------------------------------------
Init ==
    /\ clients = [c \in Clients |-> "absent"]
    /\ codes = [k \in Codes |-> None] /\ lastCode = 0
    /\ grants = [g \in Grants |-> None] /\ lastGrant = 0
    /\ access = [p \in Pairs |-> NoAccess]
    /\ refresh = [p \in Pairs |-> NoRefresh]
    /\ lastPair = 0
    /\ born = [p \in Pairs |-> 0]
    /\ reqs = [r \in Requests |-> NoReq]
    /\ held = [c \in Clients |-> 0]
    /\ careless = {} /\ crowded = {} /\ ended = {}

handleToken(r) ==
    \/ ExchangeConsume(r) \/ grantEnsure(r) \/ tokensIssue(r) \/ MintAccess(r) \/ MintRefresh(r)
    \/ RefreshUnknown(r) \/ RefreshReplays(r) \/ RefreshRevokes(r) \/ RefreshRotates(r) \/ RefreshSeal(r)

Time ==
    \/ \E p \in Pairs : GraceEnds(p) \/ Expire(p)
    \/ \E k \in Codes : CodeExpires(k)
    \/ \E c \in Clients : ClientAges(c)

Next ==
    \/ \E c \in Clients : handleRegister(c) \/ handleAuthorize(c)
    \/ \E r \in Requests, c \in Clients :
          (\E k \in Codes : ExchangeBegin(r, c, k)) \/ (\E t \in Pairs : RefreshBegin(r, c, t))
    \/ \E r \in Requests : handleToken(r) \/ Deliver(r) \/ Lose(r)
    \/ \E c \in Clients, t \in Pairs : handleRevoke(c, t)
    \/ (\E g \in Grants : grantRevoke(g)) \/ grantRevokeAll \/ grantList
    \/ Time

Spec == Init /\ [][Next]_vars

----------------------------------------------------------------------------
(* Every variable keeps its shape, and rows exist only for numbers given out. *)
TypeOK ==
    /\ clients \in [Clients -> {"absent", "fresh", "old", "used"}]
    /\ codes \in [Codes -> Clients \cup {None}]
    /\ grants \in [Grants -> Clients \cup {None}]
    /\ access \in [Pairs -> [state : {"absent", "live"}, grant : 0..MaxGrants, family : 0..MaxPairs]]
    /\ refresh \in [Pairs -> [state : {"absent", "live", "replaced"}, grant : 0..MaxGrants, family : 0..MaxPairs,
                              expired : BOOLEAN, replay : 0..MaxPairs, grace : BOOLEAN]]
    /\ lastCode \in 0..MaxCodes /\ lastGrant \in 0..MaxGrants /\ lastPair \in 0..MaxPairs
    /\ \A p \in Pairs : p > lastPair => access[p] = NoAccess /\ refresh[p] = NoRefresh /\ born[p] = 0
    /\ held \in [Clients -> 0..lastPair]

(***************************************************************************)
(* docs/mcp-oauth.md:47, "consumed exactly once": two families of tokens   *)
(* never come from the same code, however many requests present it.        *)
(***************************************************************************)
CodeOnce == \A p, q \in Pairs : p # q /\ born[p] # 0 => born[p] # born[q]

(***************************************************************************)
(* docs/mcp-oauth.md:55, revocation: once a family was ended, by its       *)
(* client, by the reuse of an old token or with the whole grant, none of   *)
(* its tokens works again, also when a request that was minting finishes   *)
(* later under the revoked grant.  A family revoked by token while a       *)
(* request mints for it is the exception (crowded).                        *)
(***************************************************************************)
SessionEnds ==
    \A f \in ended \ crowded, p \in Pairs :
        /\ access[p].family = f => ~accessTokenResolve(p)
        /\ refresh[p].family = f => grants[refresh[p].grant] = None

\* Client c can rotate token t.
Usable(c, t) == refresh[t].state = "live" /\ ~refresh[t].expired /\ grants[refresh[t].grant] = c

(***************************************************************************)
(* docs/mcp-oauth.md:51, "A client that lost the response may replay the   *)
(* token it just used for 60 seconds": a client that refreshes only with   *)
(* the pair it received last, one pair at a time and within the grace,     *)
(* can go on refreshing, whatever answers were lost: its token is good, or *)
(* the answer that replaced it can be repeated and holds a good one.       *)
(***************************************************************************)
RetrySafe ==
    \A c \in Clients : held[c] # 0 /\ c \notin careless =>
        LET row == refresh[held[c]]
        IN  \/ Usable(c, held[c])
            \/ /\ row.state = "replaced" /\ row.grace /\ row.replay # 0
               /\ ~row.expired /\ grants[row.grant] = c /\ Usable(c, row.replay)

(***************************************************************************)
(* oauth/server-store.ts:413, "the family's live refresh token": a family  *)
(* that no two requests refreshed at the same time, and that was not       *)
(* revoked under a request, has at most one.                               *)
(***************************************************************************)
OneLiveRefresh ==
    \A p, q \in Pairs : p # q /\ refresh[p].state = "live" /\ refresh[q].state = "live" /\ refresh[p].family = refresh[q].family =>
        refresh[p].family \in crowded \/ \E r \in Requests : reqs[r].pc = "sealing" /\ reqs[r].using \in {p, q}

(***************************************************************************)
(* What a user may rely on (oauth/server-store.ts codeConsume, mintPair,   *)
(* tokensRefresh, familyRevoke): a code buys one family, a family has one  *)
(* live refresh token unless refreshes overlapped, and no working token    *)
(* once it was ended.                                                      *)
(***************************************************************************)
FamilySound == CodeOnce /\ OneLiveRefresh /\ SessionEnds
=============================================================================
