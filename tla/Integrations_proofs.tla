------------------------- MODULE Integrations_proofs -------------------------
(***************************************************************************)
(* Proofs about what Outside composes: Integrations, for any apps, calls,  *)
(* browsers, keys and bounds, with restarts and changes of the master key; *)
(* and NpmModules, for any URLs, imports, sizes, limits and isolates.      *)
(***************************************************************************)
EXTENDS Outside, Sequences, FiniteSetTheorems, SequenceTheorems, WellFoundedInduction, TLAPS

-----------------------------------------------------------------------------
(* The inductive invariant *)

Answers == {"none", "failed", "tokens", "invalid_grant"}
Rows == [app : Apps \cup {None}, status : Statuses, access : 0..MaxTokens, refresh : 0..MaxTokens]
CallRows == [pc : {"idle", "waiting", "opening", "asked", "answered"}, app : Apps \cup {None},
             using : 0..MaxTokens, answer : Answers, token : 0..MaxTokens, rotated : BOOLEAN]
Pages == [pc : {"new", "beginning", "consenting", "consented", "denied", "exchanging", "asked", "answered", "done"},
          link : 0..MaxConnects, nonce : (Links \X Browsers) \cup {None}, app : Apps \cup {None},
          config : Apps \cup {None}, status : Statuses, answer : Answers, token : 0..MaxTokens, rotated : BOOLEAN]

\* The type of the variables the properties depend on.
Types ==
    /\ row \in Rows
    /\ owner \in [pc : {"idle", "saving", "starting"}, app : Apps \cup {None}, existing : Apps \cup {None}]
    /\ calls \in [Calls -> CallRows]
    /\ browsers \in [Browsers -> Pages]
    /\ reseal \in [column : {"access", "refresh", None}, held : 0..MaxTokens]
    /\ inFlight \in Calls \cup {None}
    /\ lastConnect \in 0..MaxConnects /\ issued \in 0..MaxTokens
    /\ origin \in [Tokens -> [app : Apps \cup {None}, grant : 0..MaxTokens]]
    /\ honours \in [Tokens -> 0..MaxTokens]
    /\ raced \in BOOLEAN

\* The stages of a refresh.  One runs at a time, and those who wait, wait for it.
Shared ==
    /\ \A c \in Calls : Busy(c) => inFlight = c
    /\ inFlight # None => Busy(inFlight)
    /\ \A c \in Calls : calls[c].pc = "waiting" => inFlight # None
CallStage(q) ==
    /\ (q.answer # "none" => q.pc = "answered") /\ (q.token # 0 => q.answer = "tokens")
    /\ q.answer = "invalid_grant" => q.app \notin Mint
    /\ q.rotated => q.answer = "tokens"
    /\ q.pc \in {"opening", "asked", "answered"} /\ q.app \notin Mint => q.using # 0
PageStage(p) == (p.answer # "none" => p.pc = "answered") /\ (p.token # 0 => p.answer = "tokens")

\* A token that is stored or on its way was issued, and so was the first of its grant.
Given ==
    /\ row.access <= issued /\ row.refresh <= issued /\ reseal.held <= issued
    /\ \A c \in Calls : calls[c].using <= issued /\ calls[c].token <= issued
                        /\ (calls[c].answer = "tokens" => calls[c].token # 0)
    /\ \A b \in Browsers : browsers[b].token <= issued /\ (browsers[b].answer = "tokens" => browsers[b].token # 0)
    /\ \A t \in 1..issued : Grant(t) \in 1..issued

Resealing == reseal # NotSealing => reseal.held # 0 /\ reseal.column \in {"access", "refresh"}
RowTokens ==
    /\ ~Exists => row.access = 0 /\ row.refresh = 0
    /\ row.status = "connected" => row.access # 0
    /\ ~raced /\ row.status # "connected" => row.access = 0 /\ row.refresh = 0

\* The save under way knows the app, unless it is gone; the link under way has a number.
OwnerKnows ==
    /\ owner.pc = "saving" => row.app \in {owner.existing, None}
    /\ owner.pc = "starting" => lastConnect < MaxConnects

\* Tokens on their way were issued to the app they were asked for.
IssuedFor ==
    /\ \A c \in Calls : calls[c].answer = "tokens" => origin[calls[c].token].app = calls[c].app
    /\ \A b \in Browsers : browsers[b].answer = "tokens" => origin[browsers[b].token].app = browsers[b].config

\* Unless the tokens were dropped meanwhile, what is under way is for the app described.
Current ==
    ~raced =>
        /\ \A t \in {row.access, row.refresh} \ {0} : origin[t].app = row.app
        /\ \A c \in Calls : Busy(c) => calls[c].app = row.app
        /\ \A b \in Browsers : Exchanging(b) => browsers[b].config = row.app
        /\ reseal # NotSealing => origin[reseal.held].app = row.app

\* The tokens a page brings belong to a grant of their own, which nobody else knows.
Unknown(t) ==
    /\ row.access # t /\ row.refresh # t /\ reseal.held # t
    /\ \A c \in Calls : calls[c].using # t /\ calls[c].token # t
NewGrant(b) ==
    LET t == browsers[b].token
    IN  browsers[b].answer = "tokens" =>
            /\ Grant(t) = t /\ honours[t] \in {t, 0}
            /\ Unknown(t)
            /\ \A d \in Browsers \ {b} : browsers[d].token # t
NewGrants == \A b \in Browsers : NewGrant(b)

\* A refresh token is good, or revoked, or replaced by one that is on its way or lost.
OnItsWay(g) == \E c \in Calls : calls[c].rotated /\ Grant(calls[c].token) = g
Fresh(t) == honours[Grant(t)] \in {t, 0} \/ Grant(t) \in lost \/ OnItsWay(Grant(t))
RowFresh == row.refresh # 0 => Fresh(row.refresh)
CallFresh(c) == Busy(c) /\ calls[c].app \notin Mint => Fresh(calls[c].using)
Latest(c) == calls[c].rotated => honours[Grant(calls[c].token)] \in {calls[c].token, 0}
Freshness == RowFresh /\ \A c \in Calls : CallFresh(c) /\ Latest(c)

Stages == (\A c \in Calls : CallStage(calls[c])) /\ (\A b \in Browsers : PageStage(browsers[b]))
TInv == Types /\ Stages /\ Shared /\ Given /\ Resealing
AppInv == RowTokens /\ OwnerKnows /\ IssuedFor /\ Current
GrantInv == NewGrants /\ Freshness
IInv == TInv /\ AppInv /\ GrantInv

USE IntegrationsAssumption

-----------------------------------------------------------------------------
(* What a step does to the row, to a page or to a call, without new tokens *)

\* The row loses its tokens: disconnect, failAuth, a refusal.
RowCleared == \E s \in {"pending", "auth_failed"} : row' = clearTokens(row, s)

LEMMA RowKept ==
    ASSUME Types, RowTokens, row' = row \/ RowCleared
    PROVE  /\ row' \in Rows /\ row'.app = row.app
           /\ row'.access \in {row.access, 0} /\ row'.refresh \in {row.refresh, 0}
           /\ row' = row \/ (row'.status # "connected" /\ row'.access = 0 /\ row'.refresh = 0)
<1>1. row \in Rows
  BY DEF Types
<1>2. CASE row' = row
  BY <1>1, <1>2 DEF Rows
<1>3. CASE RowCleared
  <2>1. PICK s \in {"pending", "auth_failed"} : row' = [app |-> row.app, status |-> s, access |-> 0, refresh |-> 0]
    BY <1>3 DEF RowCleared, clearTokens, Row
  <2>2. row.app \in Apps \cup {None} /\ 0 \in 0..MaxTokens
    BY <1>1 DEF Rows
  <2> QED BY <2>1, <2>2 DEF Rows, Statuses
<1> QED BY <1>2, <1>3

\* A page moves on without tokens; the row may lose its own.
LEMMA PageMoves ==
    ASSUME IInv, NEW b \in Browsers, NEW p \in Pages, browsers' = [browsers EXCEPT ![b] = p],
           PageStage(p), p.answer # "tokens", p.token = 0,
           p.pc \in {"exchanging", "asked", "answered"}
              => p.config = row.app \/ (Exchanging(b) /\ p.config = browsers[b].config),
           row' = row \/ RowCleared, lastConnect' = lastConnect,
           UNCHANGED <<owner, calls, inFlight, reseal, raced, issued, origin, honours, lost>>
    PROVE  IInv'
<1>1. /\ Types /\ Stages /\ Shared /\ Given /\ Resealing
      /\ RowTokens /\ OwnerKnows /\ IssuedFor /\ Current /\ NewGrants /\ Freshness
  BY DEF IInv, TInv, AppInv, GrantInv
<1>2. /\ row' \in Rows /\ row'.app = row.app
      /\ row'.access \in {row.access, 0} /\ row'.refresh \in {row.refresh, 0}
      /\ row' = row \/ (row'.status # "connected" /\ row'.access = 0 /\ row'.refresh = 0)
  BY <1>1, RowKept
<1>3. browsers' \in [Browsers -> Pages] /\ browsers'[b] = p /\ \A d \in Browsers \ {b} : browsers'[d] = browsers[d]
  BY <1>1 DEF Types
<1>4. /\ owner' = owner /\ calls' = calls /\ inFlight' = inFlight /\ reseal' = reseal /\ raced' = raced
      /\ issued' = issued /\ origin' = origin /\ honours' = honours /\ lost' = lost /\ lastConnect' = lastConnect
  OBVIOUS
<1>5. row \in Rows /\ calls \in [Calls -> CallRows] /\ issued \in 0..MaxTokens
  BY <1>1 DEF Types
<1>6. Types' /\ Shared' /\ Resealing'
  BY <1>1, <1>2, <1>3, <1>4 DEF Types, Shared, Resealing, Busy
<1>7. Stages'
  BY <1>1, <1>3, <1>4 DEF Stages, PageStage
<1>8. Given'
  BY <1>1, <1>2, <1>3, <1>4, <1>5 DEF Given, Grant, Rows
<1>9. RowTokens' /\ OwnerKnows'
  BY <1>1, <1>2, <1>4 DEF RowTokens, Exists, OwnerKnows
<1>10. IssuedFor'
  BY <1>1, <1>3, <1>4 DEF IssuedFor
<1>11. Current'
  BY <1>1, <1>2, <1>3, <1>4 DEF Current, Busy, Exchanging
<1>12. NewGrants'
  <2> SUFFICES ASSUME NEW d \in Browsers, browsers'[d].answer = "tokens"
               PROVE  NewGrant(d)'
    BY DEF NewGrants, NewGrant
  <2>1. d # b /\ browsers'[d] = browsers[d] /\ browsers[d].token # 0 /\ NewGrant(d)
    BY <1>1, <1>3 DEF Given, NewGrants
  <2>2. Unknown(browsers[d].token)'
    BY <1>2, <1>4, <2>1 DEF NewGrant, Unknown
  <2>3. \A e \in Browsers \ {d} : browsers'[e].token # browsers[d].token
    BY <1>3, <2>1 DEF NewGrant
  <2> QED BY <1>4, <2>1, <2>2, <2>3 DEF NewGrant, Grant, Unknown
<1>13. Freshness'
  BY <1>1, <1>2, <1>4 DEF Freshness, RowFresh, CallFresh, Latest, Fresh, OnItsWay, Grant, Busy
<1> QED BY <1>6, <1>7, <1>8, <1>9, <1>10, <1>11, <1>12, <1>13 DEF IInv, TInv, AppInv, GrantInv

\* A refresh under way goes on, and brings no tokens; those it loses are noted.
LEMMA CallMoves ==
    ASSUME IInv, NEW c \in Calls, NEW q \in CallRows, calls' = [calls EXCEPT ![c] = q],
           Busy(c), q.pc \in {"opening", "asked", "answered"}, CallStage(q), q.answer # "tokens",
           q.app = calls[c].app, q.using = calls[c].using, q.token = 0,
           calls[c].rotated => Grant(calls[c].token) \in lost', lost \subseteq lost', lastConnect' = lastConnect,
           UNCHANGED <<row, owner, inFlight, browsers, reseal, raced, issued, origin, honours>>
    PROVE  IInv'
<1>1. /\ Types /\ Stages /\ Shared /\ Given /\ Resealing
      /\ RowTokens /\ OwnerKnows /\ IssuedFor /\ Current /\ NewGrants /\ Freshness
  BY DEF IInv, TInv, AppInv, GrantInv
<1>2. /\ calls' \in [Calls -> CallRows] /\ calls'[c] = q /\ \A d \in Calls \ {c} : calls'[d] = calls[d]
      /\ ~q.rotated
  BY <1>1 DEF Types, CallStage, CallRows
<1>3. /\ owner' = owner /\ row' = row /\ inFlight' = inFlight /\ browsers' = browsers /\ reseal' = reseal
      /\ raced' = raced /\ issued' = issued /\ origin' = origin /\ honours' = honours /\ lastConnect' = lastConnect
  OBVIOUS
<1>4. \A d \in Calls : Busy(d)' <=> Busy(d)
  BY <1>2 DEF Busy
<1>5. Types' /\ Resealing' /\ RowTokens' /\ OwnerKnows'
  BY <1>1, <1>2, <1>3 DEF Types, Resealing, RowTokens, Exists, OwnerKnows
<1>6. Stages'
  BY <1>1, <1>2, <1>3 DEF Stages, CallStage
<1>7. Shared'
  BY <1>1, <1>2, <1>3, <1>4 DEF Shared, Busy
<1>8. Given'
  BY <1>1, <1>2, <1>3 DEF Given, Grant, Types
<1>9. IssuedFor'
  BY <1>1, <1>2, <1>3 DEF IssuedFor
<1>10. Current'
  <2>1. \A d \in Calls : calls'[d].app = calls[d].app
    BY <1>2
  <2> QED BY <1>1, <1>3, <1>4, <2>1 DEF Current, Exchanging
<1>11. NewGrants'
  <2>1. \A d \in Calls : calls'[d].using = calls[d].using /\ calls'[d].token \in {calls[d].token, 0}
    BY <1>2
  <2> SUFFICES ASSUME NEW d \in Browsers, browsers[d].answer = "tokens"
               PROVE  NewGrant(d)'
    BY <1>3 DEF NewGrants, NewGrant
  <2>2. browsers[d].token # 0 /\ NewGrant(d)
    BY <1>1 DEF Given, NewGrants
  <2>3. Unknown(browsers[d].token)'
    BY <1>3, <2>1, <2>2 DEF NewGrant, Unknown
  <2> QED BY <1>3, <2>2, <2>3 DEF NewGrant, Grant
<1>12. Freshness'
  <2>1. \A t : Fresh(t) => Fresh(t)'
    BY <1>2, <1>3 DEF Fresh, OnItsWay, Grant
  <2>2. \A d \in Calls : calls'[d].app = calls[d].app /\ calls'[d].using = calls[d].using
    BY <1>2
  <2>3. RowFresh'
    BY <1>1, <1>3, <2>1 DEF Freshness, RowFresh, Fresh, Grant
  <2>4. ASSUME NEW d \in Calls PROVE CallFresh(d)' /\ Latest(d)'
    <3>1. CallFresh(d) /\ Latest(d)
      BY <1>1 DEF Freshness
    <3>2. Fresh(calls[d].using) => Fresh(calls[d].using)'
      BY <2>1, <2>2 DEF Fresh
    <3>3. CallFresh(d)'
      BY <1>4, <2>2, <3>1, <3>2 DEF CallFresh
    <3>4. Latest(d)'
      BY <1>2, <1>3, <3>1 DEF Latest, Grant
    <3> QED BY <3>3, <3>4
  <2> QED BY <2>3, <2>4 DEF Freshness
<1> QED BY <1>5, <1>6, <1>7, <1>8, <1>9, <1>10, <1>11, <1>12 DEF IInv, TInv, AppInv, GrantInv
-----------------------------------------------------------------------------
(* The connect flow *)

LEMMA BlankPage == NewPage \in Pages
  BY DEF NewPage, Pages, Statuses, Answers

LEMMA ClosedPage ==
    ASSUME NEW p \in Pages
    PROVE  Closed(p) \in Pages
  BY BlankPage, ZenonT(60) DEF Closed, Pages

LEMMA BeginReadStep ==
    ASSUME IInv, NEW b \in Browsers, NEW n \in Links, BeginRead(b, n)
    PROVE  IInv'
<1> DEFINE p == [NewPage EXCEPT !.pc = "beginning", !.link = n, !.nonce = <<n, b>>, !.app = row.app]
<1>1. row \in Rows /\ browsers \in [Browsers -> Pages] /\ \A d \in Browsers : PageStage(browsers[d])
  BY DEF IInv, TInv, Types, Stages
<1>2. p \in Pages
  <2>1. row.app \in Apps \cup {None} /\ n \in 0..MaxConnects /\ <<n, b>> \in Links \X Browsers
    BY <1>1 DEF Rows, Links
  <2> QED BY <2>1, BlankPage, ZenonT(60) DEF Pages
<1>3. browsers' = [browsers EXCEPT ![b] = p]
  BY <1>1 DEF BeginRead
<1>4. PageStage(p) /\ p.answer # "tokens" /\ p.token = 0
  BY <1>1 DEF BeginRead, Pages, PageStage, NewPage, Links
<1>5. p.pc \in {"exchanging", "asked", "answered"} => p.config = row.app \/ (Exchanging(b) /\ p.config = browsers[b].config)
  BY <1>1 DEF BeginRead, Pages, Exchanging, NewPage, Links
<1> QED BY <1>2, <1>3, <1>4, <1>5, PageMoves DEF BeginRead, links, provider, sealing

LEMMA BeginWriteStep ==
    ASSUME IInv, NEW b \in Browsers, BeginWrite(b)
    PROVE  IInv'
<1> DEFINE p == [browsers[b] EXCEPT !.pc = "consenting"]
<1>1. row \in Rows /\ browsers \in [Browsers -> Pages] /\ \A d \in Browsers : PageStage(browsers[d])
  BY DEF IInv, TInv, Types, Stages
<1>2. p \in Pages
  <2>1. browsers[b] \in Pages
    BY <1>1
  <2> QED BY <2>1, ZenonT(60) DEF Pages, Answers
<1>3. browsers' = [browsers EXCEPT ![b] = p]
  BY <1>1 DEF BeginWrite
<1>4. PageStage(p) /\ p.answer # "tokens" /\ p.token = 0
  BY <1>1 DEF BeginWrite, Pages, PageStage
<1>5. p.pc \in {"exchanging", "asked", "answered"} => p.config = row.app \/ (Exchanging(b) /\ p.config = browsers[b].config)
  BY <1>1 DEF BeginWrite, Pages, Exchanging
<1> QED BY <1>2, <1>3, <1>4, <1>5, PageMoves DEF BeginWrite, links, provider, sealing

LEMMA ReloadStep ==
    ASSUME IInv, NEW b \in Browsers, NEW q \in Browsers, Reload(b, q)
    PROVE  IInv'
<1> DEFINE p == [NewPage EXCEPT !.pc = "consented", !.link = browsers[q].link, !.nonce = browsers[q].nonce, !.app = browsers[q].app]
<1>1. row \in Rows /\ browsers \in [Browsers -> Pages] /\ \A d \in Browsers : PageStage(browsers[d])
  BY DEF IInv, TInv, Types, Stages
<1>2. p \in Pages
  <2>1. browsers[q] \in Pages
    BY <1>1
  <2> QED BY <2>1, BlankPage, ZenonT(60) DEF Pages
<1>3. browsers' = [browsers EXCEPT ![b] = p]
  BY <1>1 DEF Reload
<1>4. PageStage(p) /\ p.answer # "tokens" /\ p.token = 0
  BY <1>1 DEF Reload, Pages, PageStage, NewPage
<1>5. p.pc \in {"exchanging", "asked", "answered"} => p.config = row.app \/ (Exchanging(b) /\ p.config = browsers[b].config)
  BY <1>1 DEF Reload, Pages, Exchanging, NewPage
<1> QED BY <1>2, <1>3, <1>4, <1>5, PageMoves DEF Reload, links, provider, sealing

LEMMA CompleteInvalidStep ==
    ASSUME IInv, NEW b \in Browsers, CompleteInvalid(b)
    PROVE  IInv'
<1> DEFINE p == Closed(browsers[b])
<1>1. row \in Rows /\ browsers \in [Browsers -> Pages] /\ \A d \in Browsers : PageStage(browsers[d])
  BY DEF IInv, TInv, Types, Stages
<1>2. p \in Pages
  BY <1>1, ClosedPage
<1>3. browsers' = [browsers EXCEPT ![b] = p]
  BY <1>1 DEF CompleteInvalid
<1>4. PageStage(p) /\ p.answer # "tokens" /\ p.token = 0
  BY <1>1 DEF CompleteInvalid, Pages, PageStage, Closed, NewPage
<1>5. p.pc \in {"exchanging", "asked", "answered"} => p.config = row.app \/ (Exchanging(b) /\ p.config = browsers[b].config)
  BY <1>1 DEF CompleteInvalid, Pages, Exchanging, Closed, NewPage
<1> QED BY <1>2, <1>3, <1>4, <1>5, PageMoves DEF CompleteInvalid, links, provider, sealing

LEMMA CompleteLapsedStep ==
    ASSUME IInv, NEW b \in Browsers, CompleteLapsed(b)
    PROVE  IInv'
<1> DEFINE p == Closed(browsers[b])
<1>1. row \in Rows /\ browsers \in [Browsers -> Pages] /\ \A d \in Browsers : PageStage(browsers[d])
  BY DEF IInv, TInv, Types, Stages
<1>2. p \in Pages
  BY <1>1, ClosedPage
<1>3. browsers' = [browsers EXCEPT ![b] = p]
  BY <1>1 DEF CompleteLapsed
<1>4. PageStage(p) /\ p.answer # "tokens" /\ p.token = 0
  BY <1>1 DEF CompleteLapsed, Pages, PageStage, Closed, NewPage
<1>5. p.pc \in {"exchanging", "asked", "answered"} => p.config = row.app \/ (Exchanging(b) /\ p.config = browsers[b].config)
  BY <1>1 DEF CompleteLapsed, Pages, Exchanging, Closed, NewPage
<1> QED BY <1>2, <1>3, <1>4, <1>5, PageMoves DEF CompleteLapsed, links, provider, sealing

LEMMA CompleteDeniedStep ==
    ASSUME IInv, NEW b \in Browsers, CompleteDenied(b)
    PROVE  IInv'
<1> DEFINE p == Closed(browsers[b])
<1>1. row \in Rows /\ browsers \in [Browsers -> Pages] /\ \A d \in Browsers : PageStage(browsers[d])
  BY DEF IInv, TInv, Types, Stages
<1>2. p \in Pages
  BY <1>1, ClosedPage
<1>3. browsers' = [browsers EXCEPT ![b] = p]
  BY <1>1 DEF CompleteDenied
<1>4. PageStage(p) /\ p.answer # "tokens" /\ p.token = 0
  BY <1>1 DEF CompleteDenied, Pages, PageStage, Closed, NewPage
<1>5. p.pc \in {"exchanging", "asked", "answered"} => p.config = row.app \/ (Exchanging(b) /\ p.config = browsers[b].config)
  BY <1>1 DEF CompleteDenied, Pages, Exchanging, Closed, NewPage
<1>6. row' = row \/ RowCleared
  BY DEF CompleteDenied, RowCleared, failAuth
<1> QED BY <1>2, <1>3, <1>4, <1>5, <1>6, PageMoves DEF CompleteDenied, links, provider, sealing

LEMMA CompleteFailsStep ==
    ASSUME IInv, NEW b \in Browsers, CompleteFails(b)
    PROVE  IInv'
<1> DEFINE p == Closed(browsers[b])
<1>1. row \in Rows /\ browsers \in [Browsers -> Pages] /\ \A d \in Browsers : PageStage(browsers[d])
  BY DEF IInv, TInv, Types, Stages
<1>2. p \in Pages
  BY <1>1, ClosedPage
<1>3. browsers' = [browsers EXCEPT ![b] = p]
  BY <1>1 DEF CompleteFails
<1>4. PageStage(p) /\ p.answer # "tokens" /\ p.token = 0
  BY <1>1 DEF CompleteFails, Pages, PageStage, Closed, NewPage
<1>5. p.pc \in {"exchanging", "asked", "answered"} => p.config = row.app \/ (Exchanging(b) /\ p.config = browsers[b].config)
  BY <1>1 DEF CompleteFails, Pages, Exchanging, Closed, NewPage
<1>6. row' = row \/ RowCleared
  BY DEF CompleteFails, RowCleared, failAuth
<1> QED BY <1>2, <1>3, <1>4, <1>5, <1>6, PageMoves DEF CompleteFails, links, provider, sealing

LEMMA CompleteReadStep ==
    ASSUME IInv, NEW b \in Browsers, CompleteRead(b)
    PROVE  IInv'
<1> DEFINE p == [browsers[b] EXCEPT !.pc = "exchanging", !.config = row.app, !.status = row.status]
<1>1. row \in Rows /\ browsers \in [Browsers -> Pages] /\ \A d \in Browsers : PageStage(browsers[d])
  BY DEF IInv, TInv, Types, Stages
<1>2. p \in Pages
  <2>1. row.app \in Apps \cup {None} /\ row.status \in Statuses /\ browsers[b] \in Pages
    BY <1>1 DEF Rows
  <2> QED BY <2>1, ZenonT(60) DEF Pages
<1>3. browsers' = [browsers EXCEPT ![b] = p]
  BY <1>1 DEF CompleteRead
<1>4. PageStage(p) /\ p.answer # "tokens" /\ p.token = 0
  BY <1>1 DEF CompleteRead, Pages, PageStage
<1>5. p.pc \in {"exchanging", "asked", "answered"} => p.config = row.app \/ (Exchanging(b) /\ p.config = browsers[b].config)
  BY <1>1 DEF CompleteRead, Pages, Exchanging
<1> QED BY <1>2, <1>3, <1>4, <1>5, PageMoves DEF CompleteRead, links, provider, sealing

LEMMA CompletePostStep ==
    ASSUME IInv, NEW b \in Browsers, CompletePost(b)
    PROVE  IInv'
<1> DEFINE p == IF Exists THEN [browsers[b] EXCEPT !.pc = "asked"] ELSE [browsers[b] EXCEPT !.pc = "answered", !.answer = "failed"]
<1>1. row \in Rows /\ browsers \in [Browsers -> Pages] /\ \A d \in Browsers : PageStage(browsers[d])
  BY DEF IInv, TInv, Types, Stages
<1>2. p \in Pages
  <2>1. browsers[b] \in Pages
    BY <1>1
  <2> QED BY <2>1, ZenonT(60) DEF Pages, Answers
<1>3. browsers' = [browsers EXCEPT ![b] = p]
  BY <1>1 DEF CompletePost
<1>4. PageStage(p) /\ p.answer # "tokens" /\ p.token = 0
  BY <1>1 DEF CompletePost, Pages, PageStage
<1>5. p.pc \in {"exchanging", "asked", "answered"} => p.config = row.app \/ (Exchanging(b) /\ p.config = browsers[b].config)
  BY <1>1 DEF CompletePost, Pages, Exchanging
<1> QED BY <1>2, <1>3, <1>4, <1>5, PageMoves DEF CompletePost, links, provider, sealing

LEMMA CodeFailsStep ==
    ASSUME IInv, NEW b \in Browsers, CodeFails(b)
    PROVE  IInv'
<1> DEFINE p == [browsers[b] EXCEPT !.pc = "answered", !.answer = "failed"]
<1>1. row \in Rows /\ browsers \in [Browsers -> Pages] /\ \A d \in Browsers : PageStage(browsers[d])
  BY DEF IInv, TInv, Types, Stages
<1>2. p \in Pages
  <2>1. browsers[b] \in Pages
    BY <1>1
  <2> QED BY <2>1, ZenonT(60) DEF Pages, Answers
<1>3. browsers' = [browsers EXCEPT ![b] = p]
  BY <1>1 DEF CodeFails
<1>4. PageStage(p) /\ p.answer # "tokens" /\ p.token = 0
  BY <1>1 DEF CodeFails, Pages, PageStage
<1>5. p.pc \in {"exchanging", "asked", "answered"} => p.config = row.app \/ (Exchanging(b) /\ p.config = browsers[b].config)
  BY <1>1 DEF CodeFails, Pages, Exchanging
<1> QED BY <1>2, <1>3, <1>4, <1>5, PageMoves DEF CodeFails, links, provider, sealing

LEMMA ConsentStep ==
    ASSUME IInv, NEW b \in Browsers, Consent(b)
    PROVE  IInv'
<1>1. browsers \in [Browsers -> Pages] /\ browsers[b] \in Pages /\ PageStage(browsers[b])
  BY DEF IInv, TInv, Types, Stages
<1>2. PICK pc \in {"consented", "denied"} : browsers' = [browsers EXCEPT ![b].pc = pc]
  BY DEF Consent
<1> DEFINE p == [browsers[b] EXCEPT !.pc = pc]
<1>3. p \in Pages
  BY <1>1, ZenonT(60) DEF Pages
<1>4. browsers' = [browsers EXCEPT ![b] = p]
  BY <1>1, <1>2
<1>5. PageStage(p) /\ p.answer # "tokens" /\ p.token = 0
  BY <1>1 DEF Consent, Pages, PageStage
<1>6. p.pc \notin {"exchanging", "asked", "answered"}
  BY <1>1 DEF Pages
<1> QED BY <1>3, <1>4, <1>5, <1>6, PageMoves DEF Consent, links, provider, sealing

\* The connect flow stores the first tokens of a grant.
LEMMA CompleteStoreStep ==
    ASSUME IInv, NEW b \in Browsers, CompleteStore(b)
    PROVE  IInv'
<1> DEFINE p == browsers[b]
           t == p.token
<1>1. /\ Types /\ Stages /\ Shared /\ Given /\ Resealing
      /\ RowTokens /\ OwnerKnows /\ IssuedFor /\ Current /\ NewGrants /\ Freshness
  BY DEF IInv, TInv, AppInv, GrantInv
<1>2. p \in Pages /\ p.pc = "answered" /\ p.answer = "tokens" /\ t \in 1..issued /\ t \in 0..MaxTokens
  BY <1>1 DEF CompleteStore, Types, Given, Pages
<1>3. row' = IF Exists THEN [app |-> row.app, status |-> "connected", access |-> t, refresh |-> IF p.rotated THEN t ELSE 0]
             ELSE row
  BY DEF CompleteStore, Row
<1>4. row \in Rows /\ row' \in Rows /\ row'.app = row.app
  <2>1. row \in Rows /\ row.app \in Apps \cup {None} /\ 0 \in 0..MaxTokens
    BY <1>1 DEF Types, Rows
  <2> QED BY <1>2, <1>3, <2>1 DEF Rows, Statuses
<1>5. /\ browsers' \in [Browsers -> Pages] /\ browsers'[b] = Closed(p)
      /\ \A d \in Browsers \ {b} : browsers'[d] = browsers[d]
  BY <1>1, <1>2, ClosedPage DEF CompleteStore, Types
<1>6. Closed(p).pc = "done" /\ Closed(p).answer = "none" /\ Closed(p).token = 0
  BY DEF Closed, NewPage
<1>7. /\ owner' = owner /\ calls' = calls /\ inFlight' = inFlight /\ reseal' = reseal /\ raced' = raced
      /\ issued' = issued /\ origin' = origin /\ honours' = honours /\ lost' = lost /\ lastConnect' = lastConnect
  BY DEF CompleteStore, provider, sealing
<1> HIDE DEF p, t
<1>8. Types' /\ Shared' /\ Resealing'
  BY <1>1, <1>4, <1>5, <1>7 DEF Types, Shared, Resealing, Busy
<1>9. Stages'
  BY <1>1, <1>5, <1>6, <1>7 DEF Stages, PageStage
<1>10. row'.access \in {row.access, t} /\ row'.refresh \in {row.refresh, t, 0}
  BY <1>3
<1>11. Given'
  <2>1. row'.access <= issued /\ row'.refresh <= issued
    BY <1>1, <1>2, <1>10 DEF Given, Types
  <2>2. issued \in Nat
    BY <1>1 DEF Types
  <2> QED BY <1>1, <1>5, <1>6, <1>7, <2>1, <2>2 DEF Given, Grant
<1>12. RowTokens' /\ OwnerKnows'
  BY <1>1, <1>2, <1>3, <1>4, <1>7 DEF RowTokens, Exists, OwnerKnows
<1>13. IssuedFor'
  BY <1>1, <1>5, <1>6, <1>7 DEF IssuedFor
<1>14. Current'
  <2>1. ~raced => origin[t].app = row.app
    BY <1>1, <1>2 DEF IssuedFor, Current, Exchanging, p, t
  <2>2. \A d \in Browsers : Exchanging(d)' => Exchanging(d) /\ browsers'[d] = browsers[d]
    BY <1>5, <1>6 DEF Exchanging
  <2> QED BY <1>1, <1>4, <1>7, <1>10, <2>1, <2>2 DEF Current, Busy
<1>15. NewGrants'
  <2> SUFFICES ASSUME NEW d \in Browsers, browsers'[d].answer = "tokens"
               PROVE  NewGrant(d)'
    BY DEF NewGrants, NewGrant
  <2>1. d # b /\ browsers'[d] = browsers[d] /\ browsers[d].token # 0 /\ NewGrant(d) /\ NewGrant(b)
    BY <1>1, <1>5, <1>6 DEF Given, NewGrants
  <2>2. browsers[d].token # t
    BY <1>2, <2>1 DEF NewGrant, p, t
  <2>3. Unknown(browsers[d].token)'
    BY <1>7, <1>10, <2>1, <2>2 DEF NewGrant, Unknown
  <2>4. \A e \in Browsers \ {d} : browsers'[e].token # browsers[d].token
    BY <1>5, <1>6, <2>1 DEF NewGrant
  <2> QED BY <1>7, <2>1, <2>3, <2>4 DEF NewGrant, Grant, Unknown
<1>16. Freshness'
  <2>1. honours[Grant(t)] \in {t, 0}
    BY <1>1, <1>2 DEF NewGrants, NewGrant, p, t
  <2>2. (row'.refresh = row.refresh) \/ row'.refresh = 0 \/ row'.refresh = t
    BY <1>10
  <2>3. RowFresh'
    BY <1>1, <1>7, <2>1, <2>2 DEF Freshness, RowFresh, Fresh, OnItsWay, Grant
  <2> QED BY <1>1, <1>7, <2>3 DEF Freshness, CallFresh, Latest, Fresh, OnItsWay, Grant, Busy
<1> QED BY <1>8, <1>9, <1>11, <1>12, <1>13, <1>14, <1>15, <1>16 DEF IInv, TInv, AppInv, GrantInv

-----------------------------------------------------------------------------
(* The owner *)

\* The row stays, or it is described anew and loses its tokens.  An app that changes while tokens are on
\* their way is noted.
LEMMA OwnerMoves ==
    ASSUME IInv, row' \in Rows, row' = row \/ (row'.status # "connected" /\ row'.access = 0 /\ row'.refresh = 0),
           raced' \in BOOLEAN, raced => raced', row'.app # row.app => raced' \/ ~Underway,
           owner' \in [pc : {"idle", "saving", "starting"}, app : Apps \cup {None}, existing : Apps \cup {None}],
           OwnerKnows', lastConnect' \in 0..MaxConnects,
           UNCHANGED <<calls, inFlight, browsers, reseal, issued, origin, honours, lost>>
    PROVE  IInv'
<1>1. /\ Types /\ Stages /\ Shared /\ Given /\ Resealing
      /\ RowTokens /\ IssuedFor /\ Current /\ NewGrants /\ Freshness
  BY DEF IInv, TInv, AppInv, GrantInv
<1>2. /\ calls' = calls /\ inFlight' = inFlight /\ browsers' = browsers /\ reseal' = reseal
      /\ issued' = issued /\ origin' = origin /\ honours' = honours /\ lost' = lost
  OBVIOUS
<1>3. row'.access \in {row.access, 0} /\ row'.refresh \in {row.refresh, 0}
  OBVIOUS
<1>4. Types' /\ Stages' /\ Shared' /\ Resealing' /\ IssuedFor'
  BY <1>1, <1>2 DEF Types, Stages, Shared, Busy, Resealing, IssuedFor
<1>5. Given'
  BY <1>1, <1>2, <1>3 DEF Given, Grant, Types
<1>6. RowTokens'
  BY <1>1 DEF RowTokens, Exists
<1>7. Current'
  BY <1>1, <1>2, <1>3 DEF Current, Busy, Exchanging, Underway
<1>8. NewGrants'
  <2> SUFFICES ASSUME NEW d \in Browsers, browsers[d].answer = "tokens"
               PROVE  NewGrant(d)'
    BY <1>2 DEF NewGrants, NewGrant
  <2>1. browsers[d].token # 0 /\ NewGrant(d)
    BY <1>1 DEF Given, NewGrants
  <2>2. Unknown(browsers[d].token)'
    BY <1>2, <1>3, <2>1 DEF NewGrant, Unknown
  <2> QED BY <1>2, <2>1, <2>2 DEF NewGrant, Grant
<1>9. Freshness'
  BY <1>1, <1>2, <1>3 DEF Freshness, RowFresh, CallFresh, Latest, Fresh, OnItsWay, Grant, Busy
<1> QED BY <1>4, <1>5, <1>6, <1>7, <1>8, <1>9 DEF IInv, TInv, AppInv, GrantInv

LEMMA OwnerSteps ==
    ASSUME IInv, OwnerStep \/ (\E n \in Links : Lapse(n)) \/ NewKey
    PROVE  IInv'
<1>1. row \in Rows /\ raced \in BOOLEAN /\ lastConnect \in 0..MaxConnects /\ OwnerKnows
      /\ owner \in [pc : {"idle", "saving", "starting"}, app : Apps \cup {None}, existing : Apps \cup {None}]
  BY DEF IInv, TInv, AppInv, Types
<1>2. ASSUME NEW a \in Apps, SaveBegin(a) PROVE IInv'
  <2>1. /\ row' = row /\ raced' = raced /\ lastConnect' = lastConnect
        /\ UNCHANGED <<calls, inFlight, browsers, reseal, issued, origin, honours, lost>>
    BY <1>2 DEF SaveBegin, links, provider, sealing
  <2>2. owner' = [pc |-> "saving", app |-> a, existing |-> row.app] /\ row.app \in Apps \cup {None}
    BY <1>1, <1>2 DEF SaveBegin, Rows
  <2>3. OwnerKnows'
    BY <2>1, <2>2 DEF OwnerKnows
  <2> QED BY <1>1, <2>1, <2>2, <2>3, OwnerMoves
<1>3. CASE SaveWrite
  <2>1. /\ owner' = IdleOwner /\ raced' = (raced \/ (Underway /\ owner.app # row.app)) /\ lastConnect' = lastConnect
        /\ UNCHANGED <<calls, inFlight, browsers, reseal, issued, origin, honours, lost>>
    BY <1>3 DEF SaveWrite, links, provider, sealing
  <2>2. owner.app \in Apps \cup {None} /\ owner.existing \in Apps \cup {None} /\ row.app \in {owner.existing, None}
    BY <1>1, <1>3 DEF SaveWrite, OwnerKnows
  <2>3. CASE row' = row
    <3>1. OwnerKnows'
      BY <2>1 DEF OwnerKnows, IdleOwner
    <3> QED BY <1>1, <2>1, <2>3, <3>1, OwnerMoves DEF IdleOwner
  <2>4. CASE row' = [app |-> owner.app, status |-> "pending", access |-> 0, refresh |-> 0]
    <3>1. row' \in Rows
      BY <2>2, <2>4 DEF Rows, Statuses
    <3>2. OwnerKnows'
      BY <2>1 DEF OwnerKnows, IdleOwner
    <3> QED BY <1>1, <2>1, <2>4, <3>1, <3>2, OwnerMoves DEF IdleOwner
  <2>5. [row EXCEPT !.app = owner.app].app = owner.app /\ (owner.app = row.app => [row EXCEPT !.app = owner.app] = row)
    BY <1>1 DEF Rows
  <2> QED BY <1>3, <2>2, <2>3, <2>4, <2>5 DEF SaveWrite, Row, clearTokens, Exists
<1>4. CASE disconnect
  <2>1. /\ RowCleared /\ owner' = owner /\ raced' = (raced \/ Underway) /\ lastConnect' = lastConnect
        /\ UNCHANGED <<calls, inFlight, browsers, reseal, issued, origin, honours, lost>>
    BY <1>4 DEF disconnect, RowCleared, links, provider, sealing
  <2>2. /\ row' \in Rows /\ row'.app = row.app
        /\ row' = row \/ (row'.status # "connected" /\ row'.access = 0 /\ row'.refresh = 0)
    BY <2>1, RowKept DEF IInv, TInv, AppInv
  <2>3. OwnerKnows'
    BY <1>1, <2>1, <2>2 DEF OwnerKnows
  <2> QED BY <1>1, <2>1, <2>2, <2>3, OwnerMoves
<1>5. CASE delete
  <2>1. /\ row' = NoRow /\ owner' = owner /\ raced' = (raced \/ Underway) /\ lastConnect' = lastConnect
        /\ UNCHANGED <<calls, inFlight, browsers, reseal, issued, origin, honours, lost>>
    BY <1>5 DEF delete, provider, sealing
  <2>2. row' \in Rows /\ row'.app = None /\ row'.status # "connected" /\ row'.access = 0 /\ row'.refresh = 0
    BY <2>1 DEF NoRow, Row, Rows, Statuses
  <2>3. OwnerKnows'
    BY <1>1, <2>1, <2>2 DEF OwnerKnows
  <2> QED BY <1>1, <2>1, <2>2, <2>3, OwnerMoves
<1>6. CASE ConnectStart \/ ConnectInsert \/ (\E n \in Links : Lapse(n)) \/ NewKey
  <2>1. /\ row' = row /\ raced' = raced
        /\ UNCHANGED <<calls, inFlight, browsers, reseal, issued, origin, honours, lost>>
    BY <1>6 DEF ConnectStart, ConnectInsert, Lapse, NewKey, links, provider, sealing
  <2>2. owner' = owner \/ owner' = IdleOwner \/ owner' = [IdleOwner EXCEPT !.pc = "starting"]
    BY <1>6 DEF ConnectStart, ConnectInsert, Lapse, NewKey
  <2>3. lastConnect' \in 0..MaxConnects
    BY <1>1, <1>6 DEF ConnectStart, ConnectInsert, Lapse, NewKey, OwnerKnows, links
  <2>4. OwnerKnows'
    BY <1>1, <1>6, <2>1 DEF ConnectStart, ConnectInsert, Lapse, NewKey, OwnerKnows, IdleOwner, links
  <2>5. owner' \in [pc : {"idle", "saving", "starting"}, app : Apps \cup {None}, existing : Apps \cup {None}]
    BY <1>1, <2>2 DEF IdleOwner
  <2> QED BY <1>1, <2>1, <2>3, <2>4, <2>5, OwnerMoves
<1> QED BY <1>2, <1>3, <1>4, <1>5, <1>6 DEF OwnerStep

-----------------------------------------------------------------------------
(* Refreshing *)

\* A call asks for a refresh: it joins the one under way or begins one with what the row holds.
LEMMA RefreshBegins ==
    ASSUME IInv, NEW c \in Calls, integrationRefresh(c) \/ tokenResolve(c)
    PROVE  IInv'
<1>1. /\ Types /\ Stages /\ Shared /\ Given /\ Resealing
      /\ RowTokens /\ OwnerKnows /\ IssuedFor /\ Current /\ NewGrants /\ Freshness
  BY DEF IInv, TInv, AppInv, GrantInv
<1>2. /\ owner' = owner /\ row' = row /\ browsers' = browsers /\ reseal' = reseal /\ lost' = lost
      /\ raced' = raced /\ issued' = issued /\ origin' = origin /\ honours' = honours /\ lastConnect' = lastConnect
  BY DEF integrationRefresh, tokenResolve, links, provider, sealing
<1>3. row \in Rows /\ calls \in [Calls -> CallRows] /\ calls[c] \in CallRows /\ calls[c].pc = "idle" /\ CallStage(calls[c])
  BY <1>1 DEF Types, Stages, integrationRefresh, tokenResolve
<1>4. calls[c].answer = "none" /\ ~calls[c].rotated /\ calls[c].token = 0
  BY <1>3 DEF CallStage
<1>5. PICK q \in CallRows :
        /\ calls' = [calls EXCEPT ![c] = q] /\ CallStage(q) /\ q.answer = "none" /\ ~q.rotated /\ q.token = 0
        /\ \/ q.pc = "waiting" /\ inFlight # None /\ inFlight' = inFlight /\ q.using = calls[c].using
           \/ /\ q.pc = "opening" /\ inFlight = None /\ inFlight' = c
              /\ q.using = row.refresh /\ q.app = row.app
  <2>1. CASE inFlight # None
    <3> DEFINE q == [calls[c] EXCEPT !.pc = "waiting"]
    <3>1. q \in CallRows
      BY <1>3, ZenonT(60) DEF CallRows
    <3>2. calls' = [calls EXCEPT ![c] = q] /\ inFlight' = inFlight
      BY <1>3, <2>1 DEF integrationRefresh, tokenResolve, refresh
    <3>3. q.pc = "waiting" /\ q.answer = "none" /\ ~q.rotated /\ q.token = 0 /\ q.using = calls[c].using
      BY <1>3, <1>4 DEF CallRows
    <3> QED BY <2>1, <3>1, <3>2, <3>3 DEF CallStage
  <2>2. CASE inFlight = None
    <3> DEFINE q == [pc |-> "opening", app |-> row.app, using |-> row.refresh, answer |-> "none", token |-> 0, rotated |-> FALSE]
    <3>1. calls' = [calls EXCEPT ![c] = q] /\ inFlight' = c /\ (row.app \in Mint \/ row.refresh # 0)
      BY <1>3, <2>2 DEF integrationRefresh, tokenResolve, refresh, IdleCall
    <3>2. q \in CallRows
      BY <1>3 DEF CallRows, Rows, Answers
    <3> QED BY <2>2, <3>1, <3>2 DEF CallStage
  <2> QED BY <2>1, <2>2
<1>6. calls' \in [Calls -> CallRows] /\ calls'[c] = q /\ \A d \in Calls \ {c} : calls'[d] = calls[d]
  BY <1>3, <1>5
<1>7. inFlight' \in Calls \cup {None}
  BY <1>1, <1>5 DEF Types
<1>8. Types' /\ Resealing' /\ RowTokens' /\ OwnerKnows'
  BY <1>1, <1>2, <1>6, <1>7 DEF Types, Resealing, RowTokens, Exists, OwnerKnows
<1>9. Stages'
  BY <1>1, <1>2, <1>5, <1>6 DEF Stages
<1>10. Shared'
  BY <1>1, <1>3, <1>5, <1>6 DEF Shared, Busy
<1>11. Given'
  BY <1>1, <1>2, <1>5, <1>6 DEF Given, Grant, Types
<1>12. IssuedFor'
  BY <1>1, <1>2, <1>5, <1>6 DEF IssuedFor
<1>13. Current'
  BY <1>1, <1>2, <1>5, <1>6 DEF Current, Busy, Exchanging
<1>14. NewGrants'
  <2> SUFFICES ASSUME NEW d \in Browsers, browsers[d].answer = "tokens"
               PROVE  NewGrant(d)'
    BY <1>2 DEF NewGrants, NewGrant
  <2>1. browsers[d].token # 0 /\ NewGrant(d)
    BY <1>1 DEF Given, NewGrants
  <2>2. Unknown(browsers[d].token)'
    BY <1>2, <1>5, <1>6, <2>1 DEF NewGrant, Unknown
  <2> QED BY <1>2, <2>1, <2>2 DEF NewGrant, Grant
<1>15. Freshness'
  <2>1. \A t : Fresh(t) => Fresh(t)'
    BY <1>2, <1>4, <1>6 DEF Fresh, OnItsWay, Grant
  <2>2. RowFresh'
    BY <1>1, <1>2, <2>1 DEF Freshness, RowFresh, Fresh, Grant
  <2>3. ASSUME NEW d \in Calls PROVE CallFresh(d)' /\ Latest(d)'
    <3>1. CallFresh(d) /\ Latest(d) /\ RowFresh
      BY <1>1 DEF Freshness
    <3>2. CASE d = c
      <4>1. Busy(c)' /\ calls'[c].app \notin Mint => calls'[c].using = row.refresh /\ row.refresh # 0
        BY <1>5, <1>6 DEF Busy, CallStage
      <4>2. row.refresh # 0 => Fresh(row.refresh)'
        BY <1>2, <2>1, <3>1 DEF RowFresh, Fresh, Grant
      <4>3. CallFresh(c)'
        BY <1>2, <4>1, <4>2 DEF CallFresh, Fresh
      <4>4. Latest(c)'
        BY <1>5, <1>6 DEF Latest
      <4> QED BY <3>2, <4>3, <4>4
    <3>3. CASE d # c
      <4>1. calls'[d] = calls[d]
        BY <1>6, <3>3
      <4>2. Fresh(calls[d].using) => Fresh(calls[d].using)'
        BY <2>1, <4>1 DEF Fresh
      <4> QED BY <1>2, <3>1, <4>1, <4>2 DEF CallFresh, Latest, Busy, Grant
    <3> QED BY <3>2, <3>3
  <2> QED BY <2>2, <2>3 DEF Freshness
<1> QED BY <1>8, <1>9, <1>10, <1>11, <1>12, <1>13, <1>14, <1>15 DEF IInv, TInv, AppInv, GrantInv

\* The refresh goes on without tokens: the row is gone, the provider refuses or fails, an answer is lost.
LEMMA RefreshMoves ==
    ASSUME IInv, NEW c \in Calls, RefreshPost(c) \/ GrantRefused(c) \/ ProviderFails(c) \/ AnswerLost(c)
    PROVE  IInv'
<1>1. calls \in [Calls -> CallRows] /\ calls[c] \in CallRows /\ CallStage(calls[c])
  BY DEF IInv, TInv, Types, Stages
<1>2. Busy(c)
  BY DEF RefreshPost, GrantRefused, ProviderFails, AnswerLost, Busy
<1>3. /\ lastConnect' = lastConnect
      /\ UNCHANGED <<row, owner, inFlight, browsers, reseal, raced, issued, origin, honours>>
  BY DEF RefreshPost, GrantRefused, ProviderFails, AnswerLost, links, provider, sealing
<1>4. (calls[c].rotated => Grant(calls[c].token) \in lost') /\ lost \subseteq lost'
  BY <1>1 DEF RefreshPost, GrantRefused, ProviderFails, AnswerLost, CallStage, provider
<1>5. CASE RefreshPost(c) /\ Exists
  <2> DEFINE q == [calls[c] EXCEPT !.pc = "asked"]
  <2>1. q \in CallRows
    BY <1>1, ZenonT(60) DEF CallRows
  <2>2. calls' = [calls EXCEPT ![c] = q]
    BY <1>1, <1>5 DEF RefreshPost
  <2>3. /\ q.pc = "asked" /\ CallStage(q) /\ q.answer # "tokens"
        /\ q.app = calls[c].app /\ q.using = calls[c].using /\ q.token = 0
    BY <1>1, <1>5 DEF RefreshPost, CallRows, CallStage
  <2> QED BY <1>2, <1>3, <1>4, <2>1, <2>2, <2>3, CallMoves
<1>6. ASSUME NEW a \in {"failed", "invalid_grant"}, a = "invalid_grant" => calls[c].app \notin Mint,
             calls' = [calls EXCEPT ![c] = [@ EXCEPT !.pc = "answered", !.answer = a, !.token = 0, !.rotated = FALSE]]
      PROVE  IInv'
  <2> DEFINE q == [calls[c] EXCEPT !.pc = "answered", !.answer = a, !.token = 0, !.rotated = FALSE]
  <2>1. q \in CallRows
    <3>1. a \in Answers /\ 0 \in 0..MaxTokens
      BY DEF Answers
    <3> QED BY <1>1, <3>1, ZenonT(60) DEF CallRows
  <2>2. calls' = [calls EXCEPT ![c] = q]
    BY <1>1, <1>6
  <2>3. /\ q.pc = "answered" /\ q.answer = a /\ ~q.rotated
        /\ q.app = calls[c].app /\ q.using = calls[c].using /\ q.token = 0
    BY <1>1 DEF CallRows
  <2>4. CallStage(q) /\ q.answer # "tokens"
    BY <1>1, <1>2, <1>6, <2>3 DEF CallStage, Busy
  <2> HIDE DEF q
  <2> QED BY <1>2, <1>3, <1>4, <2>1, <2>2, <2>3, <2>4, CallMoves
<1>7. CASE RefreshPost(c) /\ ~Exists
  <2>1. calls[c].token = 0 /\ ~calls[c].rotated /\ calls[c].rotated \in BOOLEAN
    BY <1>1, <1>7 DEF RefreshPost, CallStage, CallRows
  <2>2. [calls[c] EXCEPT !.pc = "answered", !.answer = "failed"]
          = [calls[c] EXCEPT !.pc = "answered", !.answer = "failed", !.token = 0, !.rotated = FALSE]
    BY <1>1, <2>1 DEF CallRows
  <2> QED BY <1>1, <1>6, <1>7, <2>2 DEF RefreshPost
<1>8. CASE GrantRefused(c)
  BY <1>6, <1>8 DEF GrantRefused, CallAnswered
<1>9. CASE ProviderFails(c) \/ AnswerLost(c)
  BY <1>6, <1>9 DEF ProviderFails, AnswerLost, CallAnswered
<1> QED BY <1>5, <1>7, <1>8, <1>9

\* The refresh ends: nobody waits any more.
LEMMA SettledCalls ==
    ASSUME Types, Shared, Stages, NEW c \in Calls, Busy(c), calls' = Settled(c)
    PROVE  /\ calls' \in [Calls -> CallRows]
           /\ \A d \in Calls : /\ calls'[d] \in {IdleCall, calls[d]} /\ calls'[d].pc = "idle" /\ CallStage(calls'[d])
                               /\ calls'[d].answer = "none" /\ calls'[d].token = 0 /\ ~calls'[d].rotated
<1>1. IdleCall \in CallRows /\ CallStage(IdleCall)
  BY DEF IdleCall, CallRows, CallStage, Answers
<1>2. calls \in [Calls -> CallRows] /\ \A d \in Calls : CallStage(calls[d]) /\ (Busy(d) => d = c)
  BY DEF Types, Stages, Shared
<1>3. calls' \in [Calls -> CallRows] /\ \A d \in Calls : calls'[d] = IF d = c \/ calls[d].pc = "waiting" THEN IdleCall ELSE calls[d]
  BY <1>1, <1>2 DEF Settled
<1>4. ASSUME NEW d \in Calls PROVE calls'[d].pc = "idle" /\ calls'[d] \in {IdleCall, calls[d]} /\ CallStage(calls'[d])
  <2>1. CASE d = c \/ calls[d].pc = "waiting"
    <3>1. calls'[d] = IdleCall
      BY <1>3, <2>1
    <3>2. IdleCall.pc = "idle"
      BY DEF IdleCall
    <3> QED BY <1>1, <3>1, <3>2
  <2>2. CASE ~(d = c \/ calls[d].pc = "waiting")
    <3>1. calls'[d] = calls[d] /\ ~Busy(d) /\ calls[d] \in CallRows
      BY <1>2, <1>3, <2>2
    <3> QED BY <1>2, <2>2, <3>1 DEF Busy, CallRows
  <2> QED BY <2>1, <2>2
<1> QED BY <1>3, <1>4 DEF CallStage, CallRows

\* What a settled refresh may do to the row: nothing, clear it, or store the tokens it was given.
LEMMA RefreshEnds ==
    ASSUME IInv, NEW c \in Calls, RefreshStore(c) \/ RefreshFails(c)
    PROVE  IInv'
<1> DEFINE q == calls[c]
           t == q.token
<1>1. /\ Types /\ Stages /\ Shared /\ Given /\ Resealing
      /\ RowTokens /\ OwnerKnows /\ IssuedFor /\ Current /\ NewGrants /\ Freshness
  BY DEF IInv, TInv, AppInv, GrantInv
<1>2. /\ owner' = owner /\ browsers' = browsers /\ reseal' = reseal /\ lost' = lost /\ inFlight' = None
      /\ raced' = raced /\ issued' = issued /\ origin' = origin /\ honours' = honours /\ lastConnect' = lastConnect
  BY DEF RefreshStore, RefreshFails, links, provider, sealing
<1>3. Busy(c) /\ q \in CallRows /\ CallStage(q) /\ row \in Rows /\ calls' = Settled(c)
  BY <1>1 DEF RefreshStore, RefreshFails, Busy, Types, Stages
<1>4. /\ calls' \in [Calls -> CallRows]
      /\ \A d \in Calls : /\ calls'[d] \in {IdleCall, calls[d]} /\ calls'[d].pc = "idle" /\ CallStage(calls'[d])
                          /\ calls'[d].answer = "none" /\ calls'[d].token = 0 /\ ~calls'[d].rotated
  BY <1>1, <1>3, SettledCalls
<1>5. /\ row' \in Rows /\ row'.app = row.app
      /\ row'.access \in {row.access, 0} \cup (IF q.answer = "tokens" THEN {t} ELSE {})
      /\ row'.refresh \in {row.refresh, 0} \cup (IF q.rotated THEN {t} ELSE {})
      /\ \/ row' = row
         \/ row'.status # "connected" /\ row'.access = 0 /\ row'.refresh = 0
         \/ q.answer = "tokens" /\ row'.access = t /\ row'.status = "connected"
      /\ q.rotated /\ row'.refresh # 0 => row'.refresh = t
      /\ ~Exists => row'.access = 0 /\ row'.refresh = 0
  <2>1. CASE RefreshFails(c)
    <3>1. row' = row \/ RowCleared
      BY <2>1 DEF RefreshFails, RowCleared
    <3>2. q.answer # "tokens" /\ ~q.rotated
      BY <1>3, <2>1 DEF RefreshFails, CallStage
    <3> HIDE DEF q, t
    <3>3. ~Exists => row.access = 0 /\ row.refresh = 0
      BY <1>1 DEF RowTokens
    <3> QED BY <1>1, <3>1, <3>2, <3>3, RowKept
  <2>2. CASE RefreshStore(c)
    <3>1. row' = IF Exists THEN [app |-> row.app, status |-> "connected", access |-> t, refresh |-> IF q.rotated THEN t ELSE row.refresh]
                 ELSE row
      BY <2>2 DEF RefreshStore, Row
    <3>2. q.answer = "tokens" /\ t \in 0..MaxTokens /\ row.app \in Apps \cup {None} /\ row.refresh \in 0..MaxTokens
      BY <1>3, <2>2 DEF RefreshStore, CallRows, Rows
    <3> HIDE DEF q, t
    <3>3. row' \in Rows
      BY <1>3, <3>1, <3>2 DEF Rows, Statuses
    <3>4. ~Exists => row.access = 0 /\ row.refresh = 0
      BY <1>1 DEF RowTokens
    <3> QED BY <1>3, <3>1, <3>2, <3>3, <3>4
  <2> QED BY <2>1, <2>2
<1>6. q.answer = "tokens" => t \in 1..issued
  BY <1>1, <1>3 DEF Given, CallRows, Types
<1>7. q.rotated => q.answer = "tokens"
  BY <1>3 DEF CallStage
<1>8. q.answer = "tokens" => origin[t].app = q.app
  BY <1>1 DEF IssuedFor
<1>9. ~raced => q.app = row.app
  BY <1>1, <1>3 DEF Current
<1>10. q.rotated => honours[Grant(t)] \in {t, 0}
  BY <1>1 DEF Freshness, Latest
<1>11. \A d \in Calls : ~Busy(d)'
  BY <1>4 DEF Busy
<1>12. \A d \in Calls : calls[d].rotated => d = c
  <2>1. \A d \in Calls : calls[d].rotated => Busy(d)
    BY <1>1 DEF Stages, CallStage, Busy
  <2> QED BY <1>1, <1>3, <2>1 DEF Shared
<1>13. \A b \in Browsers : browsers[b].answer = "tokens" => browsers[b].token # t
  BY <1>1 DEF NewGrants, NewGrant, Unknown
<1> HIDE DEF q, t
<1>14. Types' /\ Resealing' /\ OwnerKnows'
  BY <1>1, <1>2, <1>4, <1>5 DEF Types, Resealing, OwnerKnows
<1>15. Stages'
  BY <1>1, <1>2, <1>4 DEF Stages
<1>16. Shared'
  BY <1>2, <1>4, <1>11 DEF Shared
<1>17. row'.access <= issued /\ row'.refresh <= issued
  <2>1. issued \in Nat /\ row.access <= issued /\ row.refresh <= issued
    BY <1>1 DEF Types, Given
  <2> QED BY <1>5, <1>6, <1>7, <2>1
<1>18. Given'
  <2>1. IdleCall.using = 0 /\ issued \in Nat
    BY <1>1 DEF IdleCall, Types
  <2>2. \A d \in Calls : calls'[d].using <= issued
    BY <1>1, <1>4, <2>1 DEF Given
  <2> QED BY <1>1, <1>2, <1>4, <1>17, <2>1, <2>2 DEF Given, Grant
<1>19. RowTokens'
  BY <1>1, <1>2, <1>5, <1>6 DEF RowTokens, Exists
<1>20. IssuedFor'
  BY <1>1, <1>2, <1>4 DEF IssuedFor
<1>21. Current'
  BY <1>1, <1>2, <1>5, <1>7, <1>8, <1>9, <1>11 DEF Current, Exchanging
<1>22. NewGrants'
  <2> SUFFICES ASSUME NEW d \in Browsers, browsers[d].answer = "tokens"
               PROVE  NewGrant(d)'
    BY <1>2 DEF NewGrants, NewGrant
  <2>1. browsers[d].token # 0 /\ NewGrant(d) /\ browsers[d].token # t
    BY <1>1, <1>13 DEF Given, NewGrants
  <2>2. IdleCall.using = 0
    BY DEF IdleCall
  <2>3. \A e \in Calls : calls'[e].using # browsers[d].token /\ calls'[e].token # browsers[d].token
    BY <1>4, <2>1, <2>2 DEF NewGrant, Unknown
  <2>4. Unknown(browsers[d].token)'
    BY <1>2, <1>5, <2>1, <2>3 DEF NewGrant, Unknown
  <2> QED BY <1>2, <2>1, <2>4 DEF NewGrant, Grant
<1>23. Freshness'
  <2>1. RowFresh'
    <3>1. CASE q.rotated /\ row'.refresh = t
      BY <1>2, <1>10, <3>1 DEF RowFresh, Fresh, Grant
    <3>2. CASE row'.refresh = 0
      BY <3>2 DEF RowFresh
    <3>3. CASE ~q.rotated /\ row'.refresh = row.refresh
      <4>1. \A d \in Calls : ~calls[d].rotated
        BY <1>12, <3>3 DEF q
      <4> QED BY <1>1, <1>2, <3>3, <4>1 DEF Freshness, RowFresh, Fresh, OnItsWay, Grant
    <3> QED BY <1>5, <3>1, <3>2, <3>3
  <2> QED BY <1>2, <1>4, <1>11, <2>1 DEF Freshness, CallFresh, Latest
<1> QED BY <1>14, <1>15, <1>16, <1>18, <1>19, <1>20, <1>21, <1>22, <1>23 DEF IInv, TInv, AppInv, GrantInv

-----------------------------------------------------------------------------
(* The provider *)

\* A new answer is numbered beyond all others.
LEMMA NewAnswer ==
    ASSUME Types, Given, NEW a \in Apps \cup {None}, NEW g \in 0..MaxTokens,
           NEW n \in Nat, n = issued + 1, g \in 1..n, Issue(a, g)
    PROVE  /\ issued \in Nat /\ issued' = n /\ issued' \in 0..MaxTokens /\ n \in Tokens
           /\ origin' \in [Tokens -> [app : Apps \cup {None}, grant : 0..MaxTokens]]
           /\ origin'[n] = [app |-> a, grant |-> g]
           /\ \A t \in 1..issued : /\ t \in Tokens /\ t # n /\ origin'[t] = origin[t]
                                   /\ Grant(t)' = Grant(t) /\ Grant(t) \in 1..issued
           /\ \A t \in 1..issued' : Grant(t)' \in 1..issued'
<1>1. /\ issued \in Nat /\ MaxTokens \in Nat /\ issued < MaxTokens /\ issued' = n /\ n = issued + 1
      /\ origin \in [Tokens -> [app : Apps \cup {None}, grant : 0..MaxTokens]]
      /\ origin' = [origin EXCEPT ![n] = [app |-> a, grant |-> g]]
  BY DEF Types, Issue
<1>2. n \in Tokens /\ issued' \in 0..MaxTokens /\ \A t \in 1..issued : t \in Tokens /\ t # n
  BY <1>1 DEF Tokens
<1>3. /\ origin' \in [Tokens -> [app : Apps \cup {None}, grant : 0..MaxTokens]]
      /\ origin'[n] = [app |-> a, grant |-> g]
      /\ \A t \in 1..issued : origin'[t] = origin[t]
  BY <1>1, <1>2
<1>4. \A t \in 1..issued : Grant(t)' = Grant(t) /\ Grant(t) \in 1..issued
  BY <1>3 DEF Grant, Given
<1>5. ASSUME NEW t \in 1..issued' PROVE Grant(t)' \in 1..issued'
  <2>1. t \in 1..issued \/ t = n
    BY <1>1
  <2>2. Grant(n)' = g /\ g \in 1..issued'
    BY <1>1, <1>3 DEF Grant
  <2>3. \A u \in 1..issued : u \in 1..issued'
    BY <1>1
  <2>4. CASE t \in 1..issued
    BY <1>4, <2>3, <2>4
  <2>5. CASE t = n
    BY <1>1, <1>3, <2>2, <2>5 DEF Grant
  <2> QED BY <2>1, <2>4, <2>5
<1> QED BY <1>1, <1>2, <1>3, <1>4, <1>5

\* A code buys the first tokens of a grant.
LEMMA CodeExchangedStep ==
    ASSUME IInv, NEW b \in Browsers, CodeExchanged(b)
    PROVE  IInv'
<1> DEFINE p == browsers[b]
<1>0. PICK n \in Nat : n = issued + 1
  BY DEF IInv, TInv, Types
<1>1. /\ Types /\ Stages /\ Shared /\ Given /\ Resealing
      /\ RowTokens /\ OwnerKnows /\ IssuedFor /\ Current /\ NewGrants /\ Freshness
  BY DEF IInv, TInv, AppInv, GrantInv
<1>2. browsers \in [Browsers -> Pages] /\ p \in Pages /\ p.pc = "asked" /\ PageStage(p) /\ p.app \in Apps \cup {None}
  BY <1>1 DEF CodeExchanged, Types, Stages, Pages
<1>3. /\ owner' = owner /\ row' = row /\ calls' = calls /\ inFlight' = inFlight /\ reseal' = reseal
      /\ raced' = raced /\ lost' = lost /\ lastConnect' = lastConnect
  BY DEF CodeExchanged, links, sealing
<1>4. CASE p.nonce \in spent \/ p.app # p.config
  <2> DEFINE r == [p EXCEPT !.pc = "answered", !.answer = "invalid_grant", !.token = 0, !.rotated = FALSE]
  <2>1. r \in Pages
    <3>1. "invalid_grant" \in Answers /\ 0 \in 0..MaxTokens
      BY DEF Answers
    <3> QED BY <1>2, <3>1, ZenonT(60) DEF Pages
  <2>2. /\ browsers' = [browsers EXCEPT ![b] = r]
        /\ issued' = issued /\ origin' = origin /\ honours' = honours
    BY <1>4 DEF CodeExchanged
  <2>3. r.pc = "answered" /\ r.answer = "invalid_grant" /\ r.token = 0 /\ r.config = p.config
    BY <1>2 DEF Pages
  <2>4. PageStage(r) /\ Exchanging(b)
    BY <1>2, <2>3 DEF PageStage, Exchanging
  <2> HIDE DEF r
  <2> QED BY <1>3, <2>1, <2>2, <2>3, <2>4, PageMoves
<1>5. CASE ~(p.nonce \in spent \/ p.app # p.config)
  <2>1. PICK r \in BOOLEAN :
          /\ browsers' = [browsers EXCEPT ![b] = [p EXCEPT !.pc = "answered", !.answer = "tokens", !.token = n, !.rotated = r]]
          /\ Issue(p.app, n)
          /\ honours' = [honours EXCEPT ![n] = IF r THEN n ELSE 0]
    BY <1>0, <1>5 DEF CodeExchanged
  <2>2. n \in 0..MaxTokens /\ n \in 1..n
    BY <1>0, <1>1, <2>1 DEF Issue, Types
  <2>3. /\ issued \in Nat /\ issued' = n /\ issued' \in 0..MaxTokens /\ n \in Tokens
        /\ origin' \in [Tokens -> [app : Apps \cup {None}, grant : 0..MaxTokens]]
        /\ origin'[n] = [app |-> p.app, grant |-> n]
        /\ \A t \in 1..issued : /\ t \in Tokens /\ t # n /\ origin'[t] = origin[t]
                                /\ Grant(t)' = Grant(t) /\ Grant(t) \in 1..issued
        /\ \A t \in 1..issued' : Grant(t)' \in 1..issued'
    BY <1>0, <1>1, <1>2, <2>1, <2>2, NewAnswer
  <2> DEFINE new == [p EXCEPT !.pc = "answered", !.answer = "tokens", !.token = n, !.rotated = r]
  <2>4. new \in Pages
    <3>1. "tokens" \in Answers
      BY DEF Answers
    <3> QED BY <1>2, <2>2, <3>1, ZenonT(60) DEF Pages
  <2>5. new.pc = "answered" /\ new.answer = "tokens" /\ new.token = n /\ new.config = p.config
    BY <1>2 DEF Pages
  <2>6. /\ browsers' \in [Browsers -> Pages] /\ browsers'[b] = new
        /\ \A d \in Browsers \ {b} : browsers'[d] = browsers[d]
    BY <1>2, <2>1, <2>4
  <2>7. /\ honours' \in [Tokens -> 0..MaxTokens] /\ honours'[n] \in {n, 0}
        /\ \A t \in 1..issued : honours'[t] = honours[t]
    BY <1>1, <2>1, <2>2, <2>3 DEF Types
  <2> HIDE DEF new, p
  <2>8. n > issued /\ n # 0
    BY <1>0, <2>3
  <2>9. Types' /\ Shared' /\ Resealing' /\ RowTokens' /\ OwnerKnows'
    BY <1>1, <1>3, <2>3, <2>6, <2>7 DEF Types, Shared, Busy, Resealing, RowTokens, OwnerKnows, Exists
  <2>10. Stages'
    BY <1>1, <1>3, <2>5, <2>6 DEF Stages, PageStage
  <2>11. Given'
    <3>1. \A t \in 0..MaxTokens : t <= issued => t <= issued'
      BY <2>3, <2>8
    <3>2. /\ row.access \in 0..MaxTokens /\ row.refresh \in 0..MaxTokens /\ reseal.held \in 0..MaxTokens
          /\ \A c \in Calls : calls[c].using \in 0..MaxTokens /\ calls[c].token \in 0..MaxTokens
          /\ \A d \in Browsers : browsers[d].token \in 0..MaxTokens
      BY <1>1 DEF Types, Rows, CallRows, Pages
    <3>3. \A d \in Browsers : browsers'[d].token <= issued' /\ (browsers'[d].answer = "tokens" => browsers'[d].token # 0)
      BY <1>1, <2>3, <2>5, <2>6, <2>8, <3>1, <3>2 DEF Given
    <3>4. \A c \in Calls : calls[c].using <= issued' /\ calls[c].token <= issued'
                           /\ (calls[c].answer = "tokens" => calls[c].token # 0)
      BY <1>1, <3>1, <3>2 DEF Given
    <3> QED BY <1>1, <1>3, <2>3, <3>1, <3>2, <3>3, <3>4 DEF Given
  <2>12. /\ \A c \in Calls : calls[c].answer = "tokens" => calls[c].token \in 1..issued
         /\ \A d \in Browsers : browsers[d].answer = "tokens" => browsers[d].token \in 1..issued
         /\ row.access # 0 => row.access \in 1..issued
         /\ row.refresh # 0 => row.refresh \in 1..issued
         /\ reseal # NotSealing => reseal.held \in 1..issued
         /\ \A c \in Calls : Busy(c) /\ calls[c].app \notin Mint => calls[c].using \in 1..issued
    BY <1>1 DEF Types, Given, Rows, CallRows, Pages, Resealing, Stages, CallStage, Busy
  <2>13. IssuedFor'
    BY <1>1, <1>3, <1>5, <2>3, <2>5, <2>6, <2>12 DEF IssuedFor, p
  <2>14. Current'
    <3>1. \A d \in Browsers : Exchanging(d)' => Exchanging(d) /\ browsers'[d].config = browsers[d].config
      BY <1>2, <2>5, <2>6 DEF Exchanging, p
    <3> QED BY <1>1, <1>3, <2>3, <2>12, <3>1 DEF Current, Busy
  <2>15. NewGrants'
    <3> SUFFICES ASSUME NEW d \in Browsers, browsers'[d].answer = "tokens"
                 PROVE  NewGrant(d)'
      BY DEF NewGrants, NewGrant
    <3>1. CASE d = b
      <4>1. Grant(n)' = n
        BY <2>3 DEF Grant
      <4>2. Unknown(n)'
        BY <1>1, <1>3, <2>3, <2>8 DEF Unknown, Given, Types, Rows, CallRows
      <4>3. \A e \in Browsers \ {b} : browsers'[e].token # n
        BY <1>1, <2>3, <2>6, <2>8 DEF Given, Types, Pages
      <4> QED BY <2>5, <2>6, <2>7, <3>1, <4>1, <4>2, <4>3 DEF NewGrant, Unknown, Grant
    <3>2. CASE d # b
      <4>1. browsers'[d] = browsers[d] /\ NewGrant(d) /\ browsers[d].token \in 1..issued
        BY <1>1, <2>6, <2>12, <3>2 DEF NewGrants
      <4>2. Unknown(browsers[d].token)'
        BY <1>3, <4>1 DEF NewGrant, Unknown
      <4>3. \A e \in Browsers \ {d} : browsers'[e].token # browsers[d].token
        BY <2>3, <2>5, <2>6, <4>1 DEF NewGrant
      <4> QED BY <2>3, <2>7, <4>1, <4>2, <4>3 DEF NewGrant, Grant, Unknown
    <3> QED BY <3>1, <3>2
  <2>16. Freshness'
    <3>1. \A c \in Calls : calls[c].rotated => calls[c].token \in 1..issued
      BY <1>1, <2>12 DEF Stages, CallStage
    <3>2. \A g : OnItsWay(g) => OnItsWay(g)'
      BY <1>3, <2>3, <3>1 DEF OnItsWay
    <3>3. \A t \in 1..issued : Fresh(t) => Fresh(t)'
      BY <1>3, <2>3, <2>7, <3>2 DEF Fresh
    <3>4. RowFresh'
      BY <1>1, <1>3, <2>12, <3>3 DEF Freshness, RowFresh, Fresh, OnItsWay, Grant
    <3>5. ASSUME NEW c \in Calls PROVE CallFresh(c)' /\ Latest(c)'
      <4>1. CallFresh(c) /\ Latest(c)
        BY <1>1 DEF Freshness
      <4>2. CallFresh(c)'
        BY <1>3, <2>12, <3>3, <4>1 DEF CallFresh, Fresh, OnItsWay, Grant, Busy
      <4>3. Latest(c)'
        BY <1>3, <2>3, <2>7, <3>1, <4>1 DEF Latest, Grant
      <4> QED BY <4>2, <4>3
    <3> QED BY <3>4, <3>5 DEF Freshness
  <2> QED BY <2>9, <2>10, <2>11, <2>13, <2>14, <2>15, <2>16 DEF IInv, TInv, AppInv, GrantInv
<1> QED BY <1>4, <1>5

\* A refresh token buys new tokens of its grant, and may be replaced.
LEMMA GrantRefreshedStep ==
    ASSUME IInv, NEW c \in Calls, GrantRefreshed(c)
    PROVE  IInv'
<1> DEFINE q == calls[c]
<1>0. PICK n \in Nat : n = issued + 1
  BY DEF IInv, TInv, Types
<1>1. /\ Types /\ Stages /\ Shared /\ Given /\ Resealing
      /\ RowTokens /\ OwnerKnows /\ IssuedFor /\ Current /\ NewGrants /\ Freshness
  BY DEF IInv, TInv, AppInv, GrantInv
<1>2. /\ calls \in [Calls -> CallRows] /\ q \in CallRows /\ q.pc = "asked" /\ CallStage(q)
      /\ q.app \in Apps \cup {None} /\ q.using \in 0..MaxTokens /\ Busy(c) /\ ~q.rotated
  BY <1>1 DEF GrantRefreshed, Types, Stages, CallStage, CallRows, Busy
<1>3. /\ owner' = owner /\ row' = row /\ browsers' = browsers /\ inFlight' = inFlight /\ reseal' = reseal
      /\ raced' = raced /\ lost' = lost /\ lastConnect' = lastConnect
  BY DEF GrantRefreshed, links, sealing
<1>4. q.app \notin Mint => q.using \in 1..issued /\ Grant(q.using) \in 1..issued /\ q.using # 0
  BY <1>1, <1>2 DEF CallStage, Given, Types
<1>5. PICK g \in 1..n, r \in BOOLEAN :
        /\ Issue(q.app, g)
        /\ calls' = [calls EXCEPT ![c] = [@ EXCEPT !.pc = "answered", !.answer = "tokens", !.token = n, !.rotated = r]]
        /\ honours' = IF r THEN [honours EXCEPT ![g] = n] ELSE honours
        /\ q.app \in Mint => g = n /\ ~r
        /\ q.app \notin Mint => g = Grant(q.using) /\ honours[g] = q.using
  <2>1. n \in 1..n /\ \A t \in 1..issued : t \in 1..n
    BY <1>0, <1>1 DEF Types
  <2>2. CASE q.app \in Mint
    <3>1. Issue(q.app, n) /\ honours' = honours
          /\ calls' = [calls EXCEPT ![c] = [@ EXCEPT !.pc = "answered", !.answer = "tokens", !.token = n, !.rotated = FALSE]]
      BY <1>0, <2>2 DEF GrantRefreshed, CallAnswered
    <3> HIDE DEF q
    <3> QED BY <2>1, <2>2, <3>1
  <2>3. CASE q.app \notin Mint
    <3>1. PICK r \in BOOLEAN :
            /\ calls' = [calls EXCEPT ![c] = [@ EXCEPT !.pc = "answered", !.answer = "tokens", !.token = n, !.rotated = r]]
            /\ honours' = IF r THEN [honours EXCEPT ![Grant(q.using)] = n] ELSE honours
      BY <1>0, <2>3 DEF GrantRefreshed, CallAnswered
    <3>2. Issue(q.app, Grant(q.using)) /\ honours[Grant(q.using)] = q.using
      BY <2>3 DEF GrantRefreshed
    <3>3. PICK g \in 1..n : g = Grant(q.using)
      BY <1>4, <2>1, <2>3
    <3> HIDE DEF q
    <3> QED BY <2>3, <3>1, <3>2, <3>3
  <2> QED BY <2>2, <2>3
<1>6. n \in 0..MaxTokens /\ g \in 0..MaxTokens /\ issued \in Nat /\ n # 0 /\ n > issued
  BY <1>0, <1>1, <1>5 DEF Issue, Types
<1>7. /\ issued' = n /\ issued' \in 0..MaxTokens /\ n \in Tokens
      /\ origin' \in [Tokens -> [app : Apps \cup {None}, grant : 0..MaxTokens]]
      /\ origin'[n] = [app |-> q.app, grant |-> g]
      /\ \A t \in 1..issued : /\ t \in Tokens /\ t # n /\ origin'[t] = origin[t]
                              /\ Grant(t)' = Grant(t) /\ Grant(t) \in 1..issued
      /\ \A t \in 1..issued' : Grant(t)' \in 1..issued'
  BY <1>0, <1>1, <1>2, <1>5, <1>6, NewAnswer
<1> DEFINE new == [q EXCEPT !.pc = "answered", !.answer = "tokens", !.token = n, !.rotated = r]
<1>8. new \in CallRows
  <2>1. "tokens" \in Answers
    BY DEF Answers
  <2> QED BY <1>2, <1>6, <2>1, ZenonT(60) DEF CallRows
<1>9. /\ new.pc = "answered" /\ new.answer = "tokens" /\ new.token = n /\ new.rotated = r
      /\ new.app = q.app /\ new.using = q.using
  BY <1>2 DEF CallRows
<1>10. calls' \in [Calls -> CallRows] /\ calls'[c] = new /\ \A d \in Calls \ {c} : calls'[d] = calls[d]
  BY <1>2, <1>5, <1>8
<1> HIDE DEF new
<1>11. CallStage(new)
  BY <1>4, <1>9 DEF CallStage
<1>12. g \in Tokens /\ honours \in [Tokens -> 0..MaxTokens]
  BY <1>1, <1>5, <1>7 DEF Types, Tokens
<1>13. /\ honours' \in [Tokens -> 0..MaxTokens] /\ (r => honours'[g] = n)
       /\ \A t \in Tokens : t # g \/ ~r => honours'[t] = honours[t]
  BY <1>5, <1>6, <1>12
<1>14. \A d \in Calls : Busy(d)' <=> Busy(d)
  BY <1>2, <1>9, <1>10 DEF Busy
<1>15. \A d \in Calls : ~calls[d].rotated
  <2>1. \A d \in Calls : calls[d].rotated => Busy(d)
    BY <1>1 DEF Stages, CallStage, Busy
  <2> QED BY <1>1, <1>2, <2>1 DEF Shared
<1>16. \A d \in Calls : Busy(d) => d = c
  BY <1>1, <1>2 DEF Shared
<1>17. Types' /\ Resealing' /\ RowTokens' /\ OwnerKnows'
  BY <1>1, <1>3, <1>7, <1>10, <1>13 DEF Types, Resealing, RowTokens, OwnerKnows, Exists
<1>18. Stages'
  BY <1>1, <1>3, <1>10, <1>11 DEF Stages
<1>19. Shared'
  <2>1. inFlight = c
    BY <1>1, <1>2 DEF Shared
  <2>2. \A d \in Calls : Busy(d)' => inFlight' = d
    BY <1>3, <1>14, <1>16, <2>1
  <2>3. Busy(inFlight)'
    BY <1>3, <1>9, <1>10, <2>1 DEF Busy
  <2>4. inFlight' # None
    BY <1>3, <2>1
  <2> QED BY <2>2, <2>3, <2>4 DEF Shared
<1>20. /\ \A d \in Calls : calls[d].answer = "tokens" => calls[d].token \in 1..issued
       /\ \A b \in Browsers : browsers[b].answer = "tokens" => browsers[b].token \in 1..issued
       /\ row.access # 0 => row.access \in 1..issued
       /\ row.refresh # 0 => row.refresh \in 1..issued
       /\ reseal # NotSealing => reseal.held \in 1..issued
  BY <1>1 DEF Types, Given, Rows, CallRows, Pages, Resealing
<1> HIDE DEF q
<1>21. Given'
  <2>1. \A t \in 0..MaxTokens : t <= issued => t <= issued'
    BY <1>6, <1>7
  <2>2. /\ row.access \in 0..MaxTokens /\ row.refresh \in 0..MaxTokens /\ reseal.held \in 0..MaxTokens
        /\ \A d \in Calls : calls[d].using \in 0..MaxTokens /\ calls[d].token \in 0..MaxTokens
        /\ \A b \in Browsers : browsers[b].token \in 0..MaxTokens
    BY <1>1 DEF Types, Rows, CallRows, Pages
  <2>3. \A b \in Browsers : browsers[b].token <= issued' /\ (browsers[b].answer = "tokens" => browsers[b].token # 0)
    BY <1>1, <2>1, <2>2 DEF Given
  <2>4. \A d \in Calls : calls'[d].using <= issued' /\ calls'[d].token <= issued'
                         /\ (calls'[d].answer = "tokens" => calls'[d].token # 0)
    BY <1>1, <1>6, <1>7, <1>9, <1>10, <2>1, <2>2 DEF Given, q
  <2> QED BY <1>1, <1>3, <1>7, <2>1, <2>2, <2>3, <2>4 DEF Given
<1>22. IssuedFor'
  BY <1>1, <1>3, <1>7, <1>9, <1>10, <1>20 DEF IssuedFor
<1>23. Current'
  <2>1. \A d \in Calls : calls'[d].app = calls[d].app
    BY <1>9, <1>10 DEF q
  <2> QED BY <1>1, <1>3, <1>7, <1>14, <1>20, <2>1 DEF Current, Exchanging
<1>24. NewGrants'
  <2> SUFFICES ASSUME NEW d \in Browsers, browsers[d].answer = "tokens"
               PROVE  NewGrant(d)'
    BY <1>3 DEF NewGrants, NewGrant
  <2> DEFINE t == browsers[d].token
  <2>1. NewGrant(d) /\ t \in 1..issued /\ t \in Tokens /\ t # n
    BY <1>1, <1>7, <1>20 DEF NewGrants
  <2>2. Grant(t) = t /\ honours[t] \in {t, 0} /\ Unknown(t) /\ \A e \in Browsers \ {d} : browsers[e].token # t
    BY <2>1 DEF NewGrant
  <2>3. q.using # t
    BY <2>2 DEF Unknown, q
  <2>4. r => g # t
    BY <1>4, <1>5, <2>2, <2>3
  <2>5. honours'[t] = honours[t]
    BY <1>13, <2>1, <2>4
  <2>6. \A e \in Calls : calls'[e].using # t /\ calls'[e].token # t
    BY <1>9, <1>10, <2>1, <2>2, <2>3 DEF Unknown
  <2>7. Grant(browsers[d].token)' = browsers[d].token
    BY <1>3, <1>7, <2>1, <2>2 DEF Grant
  <2>8. Unknown(browsers[d].token)'
    BY <1>3, <2>2, <2>6 DEF Unknown
  <2> QED BY <1>3, <2>2, <2>5, <2>7, <2>8 DEF NewGrant, Grant, Unknown
<1>25. Freshness'
  <2>1. r => OnItsWay(g)'
    <3>1. calls'[c].rotated = r /\ calls'[c].token = n /\ origin'[n].grant = g
      BY <1>7, <1>9, <1>10
    <3> QED BY <3>1, Zenon DEF OnItsWay, Grant
  <2>2. \A t \in 1..issued : Fresh(t) => Fresh(t)'
    <3> SUFFICES ASSUME NEW t \in 1..issued, Fresh(t) PROVE Fresh(t)'
      OBVIOUS
    <3>1. Grant(t)' = Grant(t) /\ Grant(t) \in 1..issued /\ Grant(t) \in Tokens
      BY <1>7
    <3>2. honours[Grant(t)] \in {t, 0} \/ Grant(t) \in lost
      BY <1>15 DEF Fresh, OnItsWay
    <3>3. CASE r /\ Grant(t) = g
      BY <2>1, <3>1, <3>3 DEF Fresh, OnItsWay
    <3>4. CASE ~(r /\ Grant(t) = g)
      BY <1>3, <1>13, <3>1, <3>2, <3>4 DEF Fresh
    <3> QED BY <3>3, <3>4
  <2>3. RowFresh'
    BY <1>1, <1>3, <1>20, <2>2 DEF Freshness, RowFresh, Fresh, OnItsWay, Grant
  <2>4. ASSUME NEW d \in Calls PROVE CallFresh(d)' /\ Latest(d)'
    <3>1. CASE d = c
      <4>1. calls[c].app \notin Mint => calls[c].using \in 1..issued /\ Fresh(calls[c].using)
        BY <1>1, <1>2, <1>4 DEF Freshness, CallFresh, q
      <4>2. calls'[c].app = calls[c].app /\ calls'[c].using = calls[c].using
        BY <1>9, <1>10 DEF q
      <4>3. CallFresh(c)'
        BY <2>2, <4>1, <4>2 DEF CallFresh, Fresh, OnItsWay, Grant
      <4>4. Latest(c)'
        BY <1>7, <1>9, <1>10, <1>13 DEF Latest, Grant
      <4> QED BY <3>1, <4>3, <4>4
    <3>2. CASE d # c
      BY <1>10, <1>14, <1>15, <1>16, <3>2 DEF CallFresh, Latest
    <3> QED BY <3>1, <3>2
  <2> QED BY <2>3, <2>4 DEF Freshness
<1> QED BY <1>17, <1>18, <1>19, <1>21, <1>22, <1>23, <1>24, <1>25 DEF IInv, TInv, AppInv, GrantInv

LEMMA RevokeStep ==
    ASSUME IInv, NEW g \in Tokens, Revoke(g)
    PROVE  IInv'
<1>1. /\ Types /\ Stages /\ Shared /\ Given /\ Resealing
      /\ RowTokens /\ OwnerKnows /\ IssuedFor /\ Current /\ NewGrants /\ Freshness
  BY DEF IInv, TInv, AppInv, GrantInv
<1>2. /\ owner' = owner /\ row' = row /\ calls' = calls /\ browsers' = browsers /\ inFlight' = inFlight
      /\ reseal' = reseal /\ raced' = raced /\ lost' = lost /\ lastConnect' = lastConnect
      /\ issued' = issued /\ origin' = origin
  BY DEF Revoke, links, sealing
<1>3. honours' \in [Tokens -> 0..MaxTokens] /\ \A t \in Tokens : honours'[t] \in {honours[t], 0}
  BY <1>1 DEF Revoke, Types
<1>4. Types' /\ Stages' /\ Shared' /\ Resealing' /\ RowTokens' /\ OwnerKnows' /\ IssuedFor' /\ Current'
  BY <1>1, <1>2, <1>3 DEF Types, Stages, Shared, Busy, Resealing, RowTokens, Exists, OwnerKnows, IssuedFor, Current, Exchanging
<1>5. Given'
  BY <1>1, <1>2 DEF Given, Grant
<1>6. \A t \in 1..issued : t \in Tokens /\ Grant(t) \in Tokens /\ Grant(t)' = Grant(t)
  BY <1>1, <1>2 DEF Given, Types, Tokens, Grant
<1>7. NewGrants'
  <2> SUFFICES ASSUME NEW d \in Browsers, browsers[d].answer = "tokens"
               PROVE  NewGrant(d)'
    BY <1>2 DEF NewGrants, NewGrant
  <2>1. NewGrant(d) /\ browsers[d].token \in Tokens
    BY <1>1, <1>6 DEF NewGrants, Given, Types, Pages
  <2>2. Unknown(browsers[d].token)'
    BY <1>2, <2>1 DEF NewGrant, Unknown
  <2> QED BY <1>2, <1>3, <2>1, <2>2 DEF NewGrant, Grant
<1>8. Freshness'
  <2>1. /\ row.refresh # 0 => row.refresh \in 1..issued
        /\ \A c \in Calls : /\ calls[c].rotated => calls[c].token \in 1..issued
                            /\ Busy(c) /\ calls[c].app \notin Mint => calls[c].using \in 1..issued
    BY <1>1 DEF Types, Given, Rows, CallRows, Stages, CallStage, Busy
  <2>2. \A t \in 1..issued : Fresh(t) => Fresh(t)'
    BY <1>2, <1>3, <1>6 DEF Fresh, OnItsWay, Grant
  <2>3. RowFresh'
    BY <1>1, <1>2, <2>1, <2>2 DEF Freshness, RowFresh, Fresh, OnItsWay, Grant
  <2>4. ASSUME NEW c \in Calls PROVE CallFresh(c)' /\ Latest(c)'
    <3>1. CallFresh(c) /\ Latest(c)
      BY <1>1 DEF Freshness
    <3>2. CallFresh(c)'
      BY <1>2, <2>1, <2>2, <3>1 DEF CallFresh, Fresh, OnItsWay, Grant, Busy
    <3>3. Latest(c)'
      BY <1>2, <1>3, <1>6, <2>1, <3>1 DEF Latest, Grant
    <3> QED BY <3>2, <3>3
  <2> QED BY <2>3, <2>4 DEF Freshness
<1> QED BY <1>4, <1>5, <1>7, <1>8 DEF IInv, TInv, AppInv, GrantInv

-----------------------------------------------------------------------------
(* Restarts and sealing *)

LEMMA RestartStep ==
    ASSUME IInv, Restart
    PROVE  IInv'
<1>1. /\ Types /\ Stages /\ Shared /\ Given /\ Resealing
      /\ RowTokens /\ OwnerKnows /\ IssuedFor /\ Current /\ NewGrants /\ Freshness
  BY DEF IInv, TInv, AppInv, GrantInv
<1>2. /\ row' = row /\ raced' = raced /\ lastConnect' = lastConnect /\ issued' = issued /\ origin' = origin
      /\ honours' = honours /\ owner' = IdleOwner /\ inFlight' = None /\ reseal' = NotSealing
      /\ lost \subseteq lost' /\ \A c \in Calls : calls[c].rotated => Grant(calls[c].token) \in lost'
  BY DEF Restart, links
<1>3. IdleCall \in CallRows /\ CallStage(IdleCall) /\ IdleCall.pc = "idle" /\ IdleCall.answer = "none"
      /\ ~IdleCall.rotated /\ IdleCall.token = 0 /\ IdleCall.using = 0
  BY DEF IdleCall, CallRows, CallStage, Answers
<1>4. calls' \in [Calls -> CallRows] /\ \A c \in Calls : calls'[c] = IdleCall
  BY <1>3 DEF Restart
<1>5. /\ browsers' \in [Browsers -> Pages]
      /\ \A b \in Browsers : /\ browsers'[b] \in {Closed(browsers[b]), browsers[b]}
                             /\ browsers'[b].pc \notin {"exchanging", "asked", "answered"}
                             /\ browsers'[b].answer = "none" /\ browsers'[b].token = 0
  <2>1. browsers \in [Browsers -> Pages] /\ \A b \in Browsers : browsers[b] \in Pages /\ Closed(browsers[b]) \in Pages
    BY <1>1, ClosedPage DEF Types
  <2>2. \A b \in Browsers : browsers'[b] = IF Exchanging(b) \/ browsers[b].pc = "beginning" THEN Closed(browsers[b]) ELSE browsers[b]
    BY DEF Restart
  <2>3. browsers' \in [Browsers -> Pages]
    BY <2>1 DEF Restart
  <2>4. \A b \in Browsers : Closed(browsers[b]).pc = "done" /\ Closed(browsers[b]).answer = "none" /\ Closed(browsers[b]).token = 0
    BY DEF Closed, NewPage
  <2>5. \A b \in Browsers : ~Exchanging(b) => browsers[b].answer = "none" /\ browsers[b].token = 0
    BY <1>1 DEF Stages, PageStage, Exchanging
  <2> QED BY <2>2, <2>3, <2>4, <2>5 DEF Exchanging
<1>6. owner' \in [pc : {"idle", "saving", "starting"}, app : Apps \cup {None}, existing : Apps \cup {None}]
      /\ owner'.pc = "idle"
  BY <1>2 DEF IdleOwner
<1>7. reseal' \in [column : {"access", "refresh", None}, held : 0..MaxTokens] /\ reseal'.held = 0
  BY <1>2 DEF NotSealing
<1>8. Types'
  BY <1>1, <1>2, <1>4, <1>5, <1>6, <1>7 DEF Types
<1>9. Stages'
  BY <1>3, <1>4, <1>5 DEF Stages, PageStage
<1>10. Shared' /\ Resealing' /\ RowTokens' /\ OwnerKnows' /\ IssuedFor'
  BY <1>1, <1>2, <1>3, <1>4, <1>5, <1>6 DEF Shared, Busy, Resealing, NotSealing, RowTokens, Exists, OwnerKnows, IssuedFor
<1>11. Given'
  <2>1. issued \in Nat
    BY <1>1 DEF Types
  <2> QED BY <1>1, <1>2, <1>3, <1>4, <1>5, <1>7, <2>1 DEF Given, Grant
<1>12. Current'
  BY <1>1, <1>2, <1>3, <1>4, <1>5 DEF Current, Busy, Exchanging, NotSealing
<1>13. NewGrants'
  BY <1>5 DEF NewGrants, NewGrant
<1>14. Freshness'
  BY <1>1, <1>2, <1>3, <1>4 DEF Freshness, RowFresh, CallFresh, Latest, Fresh, OnItsWay, Grant, Busy
<1> QED BY <1>8, <1>9, <1>10, <1>11, <1>12, <1>13, <1>14 DEF IInv, TInv, AppInv, GrantInv

LEMMA RekeyReadStep ==
    ASSUME IInv, NEW column \in {"access", "refresh"}, RekeyRead(column)
    PROVE  IInv'
<1>1. /\ Types /\ Stages /\ Shared /\ Given /\ Resealing
      /\ RowTokens /\ OwnerKnows /\ IssuedFor /\ Current /\ NewGrants /\ Freshness
  BY DEF IInv, TInv, AppInv, GrantInv
<1>2. /\ owner' = owner /\ row' = row /\ calls' = calls /\ browsers' = browsers /\ inFlight' = inFlight
      /\ raced' = raced /\ lost' = lost /\ lastConnect' = lastConnect
      /\ issued' = issued /\ origin' = origin /\ honours' = honours
  BY DEF RekeyRead, links, provider
<1>3. reseal' = [column |-> column, held |-> row[column]] /\ row[column] # 0
  BY DEF RekeyRead
<1>4. row[column] \in {row.access, row.refresh} /\ row[column] \in 0..MaxTokens
  BY <1>1 DEF Types, Rows
<1>5. reseal' \in [column : {"access", "refresh", None}, held : 0..MaxTokens]
      /\ reseal'.held = row[column] /\ reseal'.column = column
  BY <1>3, <1>4
<1>6. Types' /\ Stages' /\ Shared' /\ Resealing' /\ RowTokens' /\ OwnerKnows' /\ IssuedFor'
  BY <1>1, <1>2, <1>3, <1>5 DEF Types, Stages, Shared, Busy, Resealing, RowTokens, Exists, OwnerKnows, IssuedFor
<1>7. Given'
  BY <1>1, <1>2, <1>4, <1>5 DEF Given, Grant
<1>8. Current'
  BY <1>1, <1>2, <1>3, <1>4, <1>5 DEF Current, Busy, Exchanging
<1>9. NewGrants'
  <2> SUFFICES ASSUME NEW d \in Browsers, browsers[d].answer = "tokens"
               PROVE  NewGrant(d)'
    BY <1>2 DEF NewGrants, NewGrant
  <2>1. NewGrant(d)
    BY <1>1 DEF NewGrants
  <2>2. Unknown(browsers[d].token)'
    BY <1>2, <1>4, <1>5, <2>1 DEF NewGrant, Unknown
  <2> QED BY <1>2, <2>1, <2>2 DEF NewGrant, Grant
<1>10. Freshness'
  BY <1>1, <1>2 DEF Freshness, RowFresh, CallFresh, Latest, Fresh, OnItsWay, Grant, Busy
<1> QED BY <1>6, <1>7, <1>8, <1>9, <1>10 DEF IInv, TInv, AppInv, GrantInv

\* A token sealed again replaces what the column holds by now; a refresh token that came meanwhile is lost.
LEMMA RekeyWriteStep ==
    ASSUME IInv, RekeyWrite
    PROVE  IInv'
<1> DEFINE column == reseal.column
           held == reseal.held
<1>1. /\ Types /\ Stages /\ Shared /\ Given /\ Resealing
      /\ RowTokens /\ OwnerKnows /\ IssuedFor /\ Current /\ NewGrants /\ Freshness
  BY DEF IInv, TInv, AppInv, GrantInv
<1>2. /\ owner' = owner /\ calls' = calls /\ browsers' = browsers /\ inFlight' = inFlight
      /\ lastConnect' = lastConnect /\ issued' = issued /\ origin' = origin /\ honours' = honours
      /\ reseal' = NotSealing /\ reseal # NotSealing
  BY DEF RekeyWrite, links
<1>3. held # 0 /\ column \in {"access", "refresh"} /\ held \in 0..MaxTokens /\ held <= issued
  BY <1>1, <1>2 DEF Resealing, Types, Given
<1>4. row \in Rows
  BY <1>1 DEF Types
<1>5. /\ row' = IF Exists THEN [row EXCEPT ![column] = held] ELSE row
      /\ lost' = IF Exists /\ row[column] # held /\ column = "refresh" THEN lost \cup {Grant(held)} ELSE lost
      /\ raced' = (raced \/ (Exists /\ row[column] # held /\ row[column] = 0))
  BY DEF RekeyWrite
<1> HIDE DEF column, held
<1>6. /\ row'.app = row.app /\ row'.status = row.status
      /\ row'.access = IF Exists /\ column = "access" THEN held ELSE row.access
      /\ row'.refresh = IF Exists /\ column = "refresh" THEN held ELSE row.refresh
  <2>1. CASE column = "access"
    BY <1>4, <1>5, <2>1 DEF Rows
  <2>2. CASE column = "refresh"
    BY <1>4, <1>5, <2>2 DEF Rows
  <2> QED BY <1>3, <2>1, <2>2
<1>7. row' \in Rows
  <2>1. CASE column = "access"
    BY <1>3, <1>4, <1>5, <2>1 DEF Rows
  <2>2. CASE column = "refresh"
    BY <1>3, <1>4, <1>5, <2>2 DEF Rows
  <2> QED BY <1>3, <2>1, <2>2
<1>8. reseal' \in [column : {"access", "refresh", None}, held : 0..MaxTokens] /\ reseal'.held = 0
  BY <1>2 DEF NotSealing
<1>9. raced' \in BOOLEAN /\ (raced => raced')
  BY <1>1, <1>5 DEF Types
<1>10. Types'
  BY <1>1, <1>2, <1>7, <1>8, <1>9 DEF Types
<1>11. Stages' /\ Shared' /\ Resealing' /\ IssuedFor'
  BY <1>1, <1>2 DEF Stages, Shared, Busy, Resealing, IssuedFor
<1>12. OwnerKnows'
  BY <1>1, <1>2, <1>6 DEF OwnerKnows
<1>13. Given'
  <2>1. issued \in Nat /\ row'.access <= issued /\ row'.refresh <= issued
    BY <1>1, <1>3, <1>6 DEF Given, Types
  <2> QED BY <1>1, <1>2, <1>8, <2>1 DEF Given, Grant
<1>14. RowTokens'
  <2>1. CASE Exists /\ column = "access"
    <3>1. row[column] = row.access /\ row'.access = held /\ row'.refresh = row.refresh
      BY <1>6, <2>1
    <3>2. ~raced' => ~raced /\ (row.access = held \/ row.access # 0)
      BY <1>5, <2>1, <3>1
    <3> QED BY <1>1, <1>3, <1>6, <2>1, <3>1, <3>2 DEF RowTokens, Exists
  <2>2. CASE Exists /\ column = "refresh"
    BY <1>1, <1>3, <1>5, <1>6, <2>2 DEF RowTokens, Exists
  <2>3. CASE ~Exists
    BY <1>1, <1>5, <1>9, <2>3 DEF RowTokens, Exists
  <2> QED BY <1>3, <2>1, <2>2, <2>3
<1>15. Current'
  <2>1. ~raced => origin[held].app = row.app
    BY <1>1, <1>2 DEF Current, held
  <2>2. row'.access \in {row.access, held} /\ row'.refresh \in {row.refresh, held}
    BY <1>6
  <2> QED BY <1>1, <1>2, <1>6, <1>9, <2>1, <2>2 DEF Current, Busy, Exchanging
<1>16. NewGrants'
  <2> SUFFICES ASSUME NEW d \in Browsers, browsers[d].answer = "tokens"
               PROVE  NewGrant(d)'
    BY <1>2 DEF NewGrants, NewGrant
  <2>1. NewGrant(d) /\ browsers[d].token # 0
    BY <1>1 DEF NewGrants, Given
  <2>2. Unknown(browsers[d].token)'
    BY <1>2, <1>6, <1>8, <2>1 DEF NewGrant, Unknown, held
  <2> QED BY <1>2, <2>1, <2>2 DEF NewGrant, Grant
<1>17. Freshness'
  <2>1. lost \subseteq lost'
    BY <1>5
  <2>2. \A t : Fresh(t) => Fresh(t)'
    BY <1>2, <2>1 DEF Fresh, OnItsWay, Grant
  <2>3. RowFresh'
    <3>1. CASE row'.refresh = row.refresh
      BY <1>1, <2>2, <3>1 DEF Freshness, RowFresh, Fresh, OnItsWay, Grant
    <3>2. CASE row'.refresh # row.refresh
      <4>1. Exists /\ column = "refresh" /\ row'.refresh = held /\ row[column] # held
        BY <1>6, <3>2
      <4>2. Grant(held) \in lost'
        BY <1>5, <4>1
      <4> QED BY <1>2, <4>1, <4>2 DEF RowFresh, Fresh, Grant
    <3> QED BY <3>1, <3>2
  <2>4. ASSUME NEW c \in Calls PROVE CallFresh(c)' /\ Latest(c)'
    BY <1>1, <1>2, <2>2 DEF Freshness, CallFresh, Latest, Fresh, OnItsWay, Grant, Busy
  <2> QED BY <2>3, <2>4 DEF Freshness
<1> QED BY <1>10, <1>11, <1>12, <1>13, <1>14, <1>15, <1>16, <1>17 DEF IInv, TInv, AppInv, GrantInv

-----------------------------------------------------------------------------
(* The theorems *)

LEMMA InitIInv == Init => IInv
<1> SUFFICES ASSUME Init PROVE IInv
  OBVIOUS
<1>1. /\ row = [app |-> None, status |-> "none", access |-> 0, refresh |-> 0]
      /\ owner = IdleOwner /\ inFlight = None /\ issued = 0 /\ lastConnect = 0 /\ raced = FALSE
      /\ calls = [c \in Calls |-> IdleCall] /\ browsers = [b \in Browsers |-> NewPage]
      /\ origin = [t \in Tokens |-> [app |-> None, grant |-> 0]] /\ honours = [t \in Tokens |-> 0]
      /\ reseal = NotSealing
  BY DEF Init, NoRow, Row
<1>2. IdleCall \in CallRows /\ CallStage(IdleCall) /\ IdleCall.pc = "idle" /\ IdleCall.answer = "none"
      /\ ~IdleCall.rotated /\ IdleCall.token = 0 /\ IdleCall.using = 0
  BY DEF IdleCall, CallRows, CallStage, Answers
<1>3. NewPage \in Pages /\ PageStage(NewPage) /\ NewPage.pc = "new" /\ NewPage.answer = "none" /\ NewPage.token = 0
  BY BlankPage DEF NewPage, PageStage
<1>4. Types
  <2>1. 0 \in 0..MaxTokens /\ 0 \in 0..MaxConnects
    OBVIOUS
  <2>2. row \in Rows
    BY <1>1, <2>1 DEF Rows, Statuses
  <2>3. owner \in [pc : {"idle", "saving", "starting"}, app : Apps \cup {None}, existing : Apps \cup {None}]
    BY <1>1 DEF IdleOwner
  <2>4. reseal \in [column : {"access", "refresh", None}, held : 0..MaxTokens]
    BY <1>1, <2>1 DEF NotSealing
  <2>5. /\ calls \in [Calls -> CallRows] /\ browsers \in [Browsers -> Pages]
        /\ origin \in [Tokens -> [app : Apps \cup {None}, grant : 0..MaxTokens]]
        /\ honours \in [Tokens -> 0..MaxTokens]
    BY <1>1, <1>2, <1>3, <2>1
  <2> QED BY <1>1, <2>1, <2>2, <2>3, <2>4, <2>5 DEF Types
<1>5. Stages /\ Shared /\ Resealing /\ RowTokens /\ OwnerKnows /\ IssuedFor
  BY <1>1, <1>2, <1>3 DEF Stages, Shared, Busy, Resealing, RowTokens, Exists, OwnerKnows, IdleOwner, IssuedFor
<1>6. Given /\ Current
  BY <1>1, <1>2, <1>3 DEF Given, Current, Busy, Exchanging, NotSealing
<1>7. NewGrants /\ Freshness
  BY <1>1, <1>2, <1>3 DEF NewGrants, NewGrant, Freshness, RowFresh, CallFresh, Latest, Busy
<1> QED BY <1>4, <1>5, <1>6, <1>7 DEF IInv, TInv, AppInv, GrantInv

LEMMA StepIInv == IInv /\ [Next]_vars => IInv'
<1> SUFFICES ASSUME IInv, [Next]_vars PROVE IInv'
  OBVIOUS
<1>1. CASE OwnerStep \/ (\E n \in Links : Lapse(n)) \/ NewKey
  BY <1>1, OwnerSteps
<1>2. ASSUME NEW b \in Browsers, Page(b) PROVE IInv'
  BY <1>2, BeginReadStep, BeginWriteStep, ConsentStep, ReloadStep, CompleteInvalidStep, CompleteLapsedStep,
     CompleteDeniedStep, CompleteReadStep, CompletePostStep, CompleteStoreStep, CompleteFailsStep DEF Page
<1>3. ASSUME NEW c \in Calls, integrationRefresh(c) \/ tokenResolve(c) \/ Task(c) PROVE IInv'
  BY <1>3, RefreshBegins, RefreshMoves, RefreshEnds DEF Task
<1>4. CASE Provider
  BY <1>4, CodeExchangedStep, CodeFailsStep, GrantRefreshedStep, RefreshMoves, RevokeStep DEF Provider
<1>5. CASE Restart \/ (\E column \in {"access", "refresh"} : RekeyRead(column)) \/ RekeyWrite
  BY <1>5, RestartStep, RekeyReadStep, RekeyWriteStep
<1>6. CASE UNCHANGED vars
  <2>1. /\ row' = row /\ owner' = owner /\ calls' = calls /\ inFlight' = inFlight /\ browsers' = browsers
        /\ lastConnect' = lastConnect /\ issued' = issued /\ origin' = origin /\ honours' = honours
        /\ reseal' = reseal /\ lost' = lost /\ raced' = raced
    BY <1>6 DEF vars
  <2>2. OwnerKnows /\ Types
    BY DEF IInv, TInv, AppInv
  <2>3. OwnerKnows'
    BY <2>1, <2>2 DEF OwnerKnows
  <2> QED BY <2>1, <2>2, <2>3, OwnerMoves DEF Types
<1> QED BY <1>1, <1>2, <1>3, <1>4, <1>5, <1>6 DEF Next

LEMMA Inductive == Spec => []IInv
BY InitIInv, StepIInv, PTL DEF Spec

(***************************************************************************)
(* integrations/store.ts: every variable keeps its shape, one refresh runs *)
(* at a time, a connection has tokens and only a connection has; and they  *)
(* were issued to the app that is described, unless the app or the tokens  *)
(* changed while some were on their way.                                   *)
(***************************************************************************)
THEOREM TokensFitTheApp == Spec => []TokensOfApp
<1>1. IInv => TokensOfApp
  <2> SUFFICES ASSUME IInv PROVE TokensOfApp
    OBVIOUS
  <2>1. /\ Types /\ Shared /\ Given /\ Resealing /\ RowTokens /\ Current
    BY DEF IInv, TInv, AppInv
  <2>2. row \in [app : Apps \cup {None}, status : Statuses, access : 0..issued, refresh : 0..issued]
    <3>1. row \in Rows /\ row.access \in 0..issued /\ row.refresh \in 0..issued
      BY <2>1 DEF Types, Given, Rows
    <3> QED BY <3>1 DEF Rows
  <2>3. reseal # NotSealing => reseal.held \in 1..issued
    BY <2>1 DEF Types, Given, Resealing
  <2> QED BY <2>1, <2>2, <2>3 DEF TokensOfApp, TypeOK, Types, Shared, RowTokens, Current
<1> QED BY <1>1, Inductive, PTL

Deserved(c) ==
    \/ honours[Grant(calls[c].using)] = 0 \/ Grant(calls[c].using) \in lost
    \/ origin[calls[c].using].app # calls[c].app

\* A refusal that was deserved stays so: nobody else uses the grant meanwhile.
LEMMA DeservedStays ==
    ASSUME IInv, NEW c \in Calls, calls[c].answer = "invalid_grant", Deserved(c), calls'[c] = calls[c],
           lost \subseteq lost',
           \A t \in 1..issued : origin'[t] = origin[t] /\ honours'[t] \in {honours[t], 0}
    PROVE  Deserved(c)'
<1>1. calls[c].using \in 1..issued /\ Grant(calls[c].using) \in 1..issued
  BY DEF IInv, TInv, Types, Stages, CallStage, CallRows, Given
<1>2. Grant(calls[c].using)' = Grant(calls[c].using)
  BY <1>1 DEF Grant
<1> QED BY <1>1, <1>2 DEF Deserved, Grant

\* The provider refuses a token only for these reasons, by the freshness of the token.
LEMMA RefusedDeserved ==
    ASSUME IInv, NEW c \in Calls, GrantRefused(c)
    PROVE  Deserved(c)'
<1>1. calls \in [Calls -> CallRows] /\ calls[c].pc = "asked" /\ Busy(c) /\ calls[c].app \notin Mint
  BY DEF GrantRefused, Busy, IInv, TInv, Types
<1>2. calls'[c].using = calls[c].using /\ calls'[c].app = calls[c].app
      /\ origin' = origin /\ honours' = honours /\ lost' = lost
  BY <1>1 DEF GrantRefused, CallAnswered, CallRows, provider
<1>3. \A d \in Calls : ~calls[d].rotated
  <2>1. \A d \in Calls : calls[d].rotated => Busy(d) /\ calls[d].pc = "answered"
    BY DEF IInv, TInv, Stages, CallStage, Busy
  <2> QED BY <1>1, <2>1 DEF IInv, TInv, Shared
<1>4. honours[Grant(calls[c].using)] \in {calls[c].using, 0} \/ Grant(calls[c].using) \in lost
  BY <1>1, <1>3 DEF IInv, GrantInv, Freshness, CallFresh, Fresh, OnItsWay
<1>5. honours[Grant(calls[c].using)] # calls[c].using \/ origin[calls[c].using].app # calls[c].app
  BY DEF GrantRefused
<1> QED BY <1>2, <1>4, <1>5 DEF Deserved, Grant

LEMMA StepRefusal == IInv /\ RefusalDeserved /\ [Next]_vars => RefusalDeserved'
<1> SUFFICES ASSUME IInv, RefusalDeserved, [Next]_vars, NEW c \in Calls, calls'[c].answer = "invalid_grant"
             PROVE  Deserved(c)'
  BY DEF RefusalDeserved, Deserved
<1>1. /\ Types /\ Stages /\ Shared /\ Given /\ (calls[c].answer = "invalid_grant" => Deserved(c))
  BY DEF IInv, TInv, RefusalDeserved, Deserved
<1>2. calls \in [Calls -> CallRows] /\ issued \in Nat
  BY <1>1 DEF Types
<1>3. ASSUME calls'[c] = calls[c], origin' = origin, honours' = honours, lost \subseteq lost'
      PROVE  Deserved(c)'
  BY <1>1, <1>3, DeservedStays
<1>4. CASE OwnerStep \/ (\E n \in Links : Lapse(n)) \/ NewKey
  <2>1. calls' = calls /\ origin' = origin /\ honours' = honours /\ lost' = lost
    BY <1>4 DEF OwnerStep, SaveBegin, SaveWrite, disconnect, delete, ConnectStart, ConnectInsert, Lapse, NewKey, provider
  <2> QED BY <1>3, <2>1
<1>5. ASSUME NEW b \in Browsers, Page(b) \/ CodeFails(b) PROVE Deserved(c)'
  <2>1. calls' = calls /\ origin' = origin /\ honours' = honours /\ lost' = lost
    BY <1>5 DEF Page, BeginRead, BeginWrite, Consent, Reload, CompleteInvalid, CompleteLapsed, CompleteDenied,
                CompleteRead, CompletePost, CompleteStore, CompleteFails, CodeFails, provider
  <2> QED BY <1>3, <2>1
<1>6. ASSUME NEW d \in Calls, integrationRefresh(d) \/ tokenResolve(d) PROVE Deserved(c)'
  <2>1. origin' = origin /\ honours' = honours /\ lost' = lost /\ calls[d].pc = "idle"
    BY <1>6 DEF integrationRefresh, tokenResolve, provider
  <2>2. calls[d].answer = "none" /\ IdleCall.answer = "none"
    BY <1>1, <2>1 DEF Stages, CallStage, IdleCall
  <2>3. refresh(d) /\ calls[d] \in CallRows
    BY <1>2, <1>6 DEF integrationRefresh, tokenResolve
  <2>4. PICK q : calls' = [calls EXCEPT ![d] = q] /\ q.answer = "none"
    <3>1. CASE inFlight # None
      <4>1. [calls[d] EXCEPT !.pc = "waiting"].answer = "none"
        BY <2>2, <2>3 DEF CallRows
      <4> QED BY <1>2, <2>3, <3>1, <4>1 DEF refresh
    <3>2. CASE inFlight = None
      <4>1. [IdleCall EXCEPT !.pc = "opening", !.app = row.app, !.using = row.refresh].answer = "none"
        BY DEF IdleCall
      <4> QED BY <2>3, <3>2, <4>1 DEF refresh
    <3> QED BY <3>1, <3>2
  <2>5. d # c /\ calls'[c] = calls[c]
    BY <1>2, <2>4
  <2> QED BY <1>3, <2>1, <2>5
<1>7. ASSUME NEW d \in Calls, Task(d) PROVE Deserved(c)'
  <2>1. origin' = origin /\ honours' = honours /\ lost' = lost /\ Busy(d) /\ IdleCall.answer = "none"
    BY <1>7 DEF Task, RefreshPost, RefreshStore, RefreshFails, Busy, provider, IdleCall
  <2>2. calls'[c] = calls[c]
    <3>1. CASE RefreshPost(d)
      <4>1. calls'[d].answer # "invalid_grant"
        BY <1>1, <1>2, <3>1 DEF RefreshPost, Stages, CallStage, CallRows
      <4> QED BY <1>2, <3>1, <4>1 DEF RefreshPost
    <3>2. CASE RefreshStore(d) \/ RefreshFails(d)
      <4>1. calls'[c].answer = "none"
        BY <1>1, <2>1, <3>2, SettledCalls DEF RefreshStore, RefreshFails
      <4> QED BY <4>1
    <3> QED BY <1>7, <3>1, <3>2 DEF Task
  <2> QED BY <1>3, <2>1, <2>2
<1>8. ASSUME NEW d \in Calls, ProviderFails(d) \/ AnswerLost(d) PROVE Deserved(c)'
  <2>1. origin' = origin /\ honours' = honours /\ lost \subseteq lost'
    BY <1>8 DEF ProviderFails, AnswerLost, provider
  <2>2. calls' = [calls EXCEPT ![d] = [@ EXCEPT !.pc = "answered", !.answer = "failed", !.token = 0, !.rotated = FALSE]]
    BY <1>8 DEF ProviderFails, AnswerLost, CallAnswered
  <2>3. calls[d] \in CallRows
    BY <1>2
  <2>4. [calls[d] EXCEPT !.pc = "answered", !.answer = "failed", !.token = 0, !.rotated = FALSE].answer = "failed"
    BY <2>3 DEF CallRows
  <2>5. d # c /\ calls'[c] = calls[c]
    BY <1>2, <2>2, <2>4
  <2> QED BY <1>3, <2>1, <2>5
<1>9. ASSUME NEW d \in Calls, GrantRefused(d) PROVE Deserved(c)'
  <2>1. CASE d = c
    BY <1>9, <2>1, RefusedDeserved
  <2>2. CASE d # c
    <3>1. origin' = origin /\ honours' = honours /\ lost' = lost /\ calls'[c] = calls[c]
      BY <1>2, <1>9, <2>2 DEF GrantRefused, CallAnswered, provider
    <3> QED BY <1>3, <3>1
  <2> QED BY <2>1, <2>2
<1>10. ASSUME NEW d \in Calls, GrantRefreshed(d) PROVE FALSE
  <2>1. d # c /\ calls'[c] = calls[c]
    BY <1>2, <1>10 DEF GrantRefreshed, CallAnswered, CallRows
  <2>2. Busy(c) /\ Busy(d)
    BY <1>1, <1>10, <2>1 DEF Stages, CallStage, Busy, GrantRefreshed
  <2> QED BY <1>1, <2>1, <2>2 DEF Shared
<1>11. ASSUME NEW b \in Browsers, CodeExchanged(b) PROVE Deserved(c)'
  <2>1. calls' = calls /\ lost' = lost
    BY <1>11 DEF CodeExchanged
  <2>2. CASE UNCHANGED <<issued, origin, honours, spent>>
    BY <1>3, <2>1, <2>2
  <2>3. CASE ~UNCHANGED <<issued, origin, honours, spent>>
    <3>1. PICK r \in BOOLEAN : Issue(browsers[b].app, issued + 1)
                               /\ honours' = [honours EXCEPT ![issued + 1] = IF r THEN issued + 1 ELSE 0]
      BY <1>11, <2>3 DEF CodeExchanged
    <3>2. \A t \in 1..issued : t # issued + 1 /\ t \in Tokens
      BY <1>1, <1>2 DEF Types, Tokens
    <3>3. \A t \in 1..issued : origin'[t] = origin[t] /\ honours'[t] = honours[t]
      BY <1>1, <3>1, <3>2 DEF Types, Issue
    <3> QED BY <1>1, <2>1, <3>3, DeservedStays
  <2> QED BY <2>2, <2>3
<1>12. ASSUME NEW g \in Tokens, Revoke(g) PROVE Deserved(c)'
  <2>1. calls' = calls /\ lost' = lost /\ origin' = origin /\ honours' = [honours EXCEPT ![g] = 0]
    BY <1>12 DEF Revoke
  <2>2. \A t \in 1..issued : honours'[t] \in {honours[t], 0}
    BY <1>1, <2>1 DEF Types, Tokens
  <2> QED BY <1>1, <2>1, <2>2, DeservedStays
<1>13. CASE Restart
  BY <1>13 DEF Restart, IdleCall
<1>14. CASE (\E column \in {"access", "refresh"} : RekeyRead(column)) \/ RekeyWrite
  <2>1. calls' = calls /\ origin' = origin /\ honours' = honours /\ lost \subseteq lost'
    BY <1>14 DEF RekeyRead, RekeyWrite, provider
  <2> QED BY <1>3, <2>1
<1>15. CASE UNCHANGED vars
  BY <1>3, <1>15 DEF vars
<1> QED BY <1>4, <1>5, <1>6, <1>7, <1>8, <1>9, <1>10, <1>11, <1>12, <1>13, <1>14, <1>15 DEF Next, Provider

(***************************************************************************)
(* docs/integrations.md:113: Kody never spends a refresh token twice.  The *)
(* provider refuses one only if the grant was revoked, an answer that      *)
(* replaced the token was lost, or the token is that of another app.       *)
(***************************************************************************)
THEOREM RefusalsAreDeserved == Spec => []RefusalDeserved
<1>1. Init => RefusalDeserved
  BY DEF Init, RefusalDeserved, IdleCall
<1> QED BY <1>1, Inductive, StepRefusal, PTL DEF Spec

\* A call waits only while a refresh is under way, whose end answers it: the map entry of a refresh that
\* has ended, been refused or stopped with the cell is never left behind (integrations/store.ts:581).
Waited == \A c \in Calls : calls[c].pc = "waiting" => \E d \in Calls : Busy(d)

\* integrations/store.ts:581: nobody waits for a refresh that does not run.
THEOREM NobodyWaitsInVain == Spec => []Waited
<1>1. IInv => Waited
  BY DEF IInv, TInv, Types, Shared, Waited
<1> QED BY <1>1, Inductive, PTL

-----------------------------------------------------------------------------
(* NpmModules: the inductive invariant *)

(* Sums: the library's fold gives a set of URLs the sum of their sizes, taking away one chosen element after the other. *)
OneUrl(s) == CHOOSE u \in s : TRUE
SumOn(w, ss) == \A s \in ss : w[s] = IF s = {} THEN 0 ELSE Bytes[OneUrl(s)] + w[s \ {OneUrl(s)}]
UrlsUpTo(n) == {s \in SUBSET Urls : Cardinality(s) <= n}

(* The URLs in a queue. *)
Queued(s) == {s[k] : k \in 1 .. Len(s)}

ResolutionPcs == {"idle", "next", "asking", "fetching", "storing", "done", "failed"}
ResolutionStates == [pc : ResolutionPcs, isolate : Isolates \cup {0}, asked : SUBSET Urls, queue : Seq(Urls),
                     graph : [Urls -> 0 .. MaxVersion], fetched : SUBSET Urls]
CacheRows == [ver : 0 .. MaxVersion, fetched : 0 .. MaxTime, used : 0 .. MaxTime]

NpmTypes ==
    /\ cdn \in [Urls -> Npm!Versions]
    /\ memo \in [Isolates -> [Urls -> 0 .. MaxVersion]]
    /\ rows \in [Urls -> CacheRows]
    /\ time \in 0 .. MaxTime
    /\ res \in [Calls -> ResolutionStates]

(* The sources of a graph import what is in it or still queued. *)
ImportsKnown(graph, known) ==
    \A u \in Npm!Held(graph) : \A k \in 1 .. Len(Imports[u][graph[u]]) : Imports[u][graph[u]][k] \in known

(* A resolution has or still queues all that was asked for and is imported, and what it has is within the limits. *)
ResolutionFits(q) ==
    /\ q.pc # "idle" => q.isolate \in Isolates
    /\ q.pc \notin {"idle", "failed"} =>
          /\ q.asked \subseteq Npm!Held(q.graph) \cup Queued(q.queue)
          /\ ImportsKnown(q.graph, Npm!Held(q.graph) \cup Queued(q.queue))
          /\ Cardinality(Npm!Held(q.graph)) <= MaxModules
          /\ Npm!Weight(Npm!Held(q.graph)) <= MaxTotalBytes
    /\ q.pc \in {"asking", "fetching"} =>
          /\ q.queue # <<>> /\ Head(q.queue) \notin Npm!Held(q.graph)
          /\ Cardinality(Npm!Held(q.graph)) < MaxModules
    /\ q.pc \in {"storing", "done"} => q.queue = <<>>

NpmInv ==
    /\ NpmTypes
    /\ Npm!Weight(Npm!Cached) <= CacheMaxBytes
    /\ \A r \in Calls : ResolutionFits(res[r])

(* A set of numbers has a least one. *)
LEMMA LeastOne == ASSUME NEW T \in SUBSET Nat, T # {} PROVE \E m \in T : \A k \in T : m <= k
<1>1. PICK m \in T : \A k \in T : ~(<<k, m>> \in OpToRel(<, Nat))
  BY NatLessThanWellFounded, WFMin
<1>2. \A k \in T : ~(k < m)
  BY <1>1 DEF OpToRel
<1>3. \A k \in T : m <= k
  BY <1>2
<1>4. QED  BY <1>3

(* The instance counts as the library does. *)
LEMMA SameCount == /\ \A S : Npm!Cardinality(S) = Cardinality(S)
                   /\ \A S : Npm!IsFiniteSet(S) <=> IsFiniteSet(S)
  BY DEF Npm!Cardinality, Cardinality, Npm!IsFiniteSet, IsFiniteSet

(* The URLs are finitely many numbers with a size each. *)
LEMMA UrlsFinite == ASSUME Npm!NpmConstants PROVE IsFiniteSet(Urls) /\ Bytes \in [Urls -> Nat] /\ Urls \subseteq Nat
  BY SameCount DEF Npm!NpmConstants

(* What is taken from a set leaves a smaller one. *)
LEMMA OneUrlLess ==
    ASSUME Npm!NpmConstants, NEW n \in Nat, NEW s \in UrlsUpTo(n), NEW u \in s
    PROVE  /\ u \in Urls /\ n # 0 /\ n - 1 \in Nat
           /\ s \ {u} \in UrlsUpTo(n - 1) /\ s \ {u} \in SUBSET Urls
<1>1. s \in SUBSET Urls /\ IsFiniteSet(s)
  BY UrlsFinite, FS_Subset DEF UrlsUpTo
<1>2. /\ Cardinality(s) \in Nat /\ Cardinality(s) <= n
      /\ Cardinality(s \ {u}) = Cardinality(s) - 1 /\ Cardinality(s \ {u}) \in Nat
  BY <1>1, FS_CardinalityType, FS_RemoveElement DEF UrlsUpTo
<1>3. QED  BY <1>1, <1>2 DEF UrlsUpTo

(* Every set of URLs is among those of some size. *)
LEMMA SomeSize == ASSUME Npm!NpmConstants, NEW s \in SUBSET Urls PROVE \E n \in Nat : s \in UrlsUpTo(n)
<1>1. Cardinality(s) \in Nat
  BY UrlsFinite, FS_Subset, FS_CardinalityType
<1>2. QED  BY <1>1 DEF UrlsUpTo

(* The sums exist and are numbers: there is no least size of sets without them. *)
LEMMA WeightsExist == ASSUME Npm!NpmConstants PROVE \E w \in [SUBSET Urls -> Nat] : SumOn(w, SUBSET Urls)
<1> DEFINE Has(n) == \E w \in [UrlsUpTo(n) -> Nat] : SumOn(w, UrlsUpTo(n))
           Bad == {n \in Nat : ~Has(n)}
<1>0. \A s : s # {} => OneUrl(s) \in s
  BY DEF OneUrl
<1>1. Has(0)
  <2> DEFINE w == [s \in UrlsUpTo(0) |-> 0]
  <2>1. \A s \in UrlsUpTo(0) : s = {}
    BY OneUrlLess
  <2>2. SumOn(w, UrlsUpTo(0))
    BY <2>1 DEF SumOn
  <2>3. w \in [UrlsUpTo(0) -> Nat]
    OBVIOUS
  <2>4. QED  BY <2>2, <2>3
<1>2. ASSUME NEW n \in Nat, n # 0, Has(n - 1) PROVE Has(n)
  <2>1. PICK w \in [UrlsUpTo(n - 1) -> Nat] : SumOn(w, UrlsUpTo(n - 1))
    BY <1>2
  <2> DEFINE v == [s \in UrlsUpTo(n) |-> IF s = {} THEN 0 ELSE Bytes[OneUrl(s)] + w[s \ {OneUrl(s)}]]
  <2>2. v \in [UrlsUpTo(n) -> Nat]
    <3>1. ASSUME NEW s \in UrlsUpTo(n), s # {}
          PROVE  Bytes[OneUrl(s)] \in Nat /\ w[s \ {OneUrl(s)}] \in Nat
      <4>1. OneUrl(s) \in s
        BY <1>0, <3>1
      <4>2. OneUrl(s) \in Urls /\ s \ {OneUrl(s)} \in UrlsUpTo(n - 1)
        BY <4>1, OneUrlLess
      <4>3. QED  BY <4>2, UrlsFinite
    <3>2. \A s \in UrlsUpTo(n) : (IF s = {} THEN 0 ELSE Bytes[OneUrl(s)] + w[s \ {OneUrl(s)}]) \in Nat
      <4>1. SUFFICES ASSUME NEW s \in UrlsUpTo(n)
                     PROVE  (IF s = {} THEN 0 ELSE Bytes[OneUrl(s)] + w[s \ {OneUrl(s)}]) \in Nat
        OBVIOUS
      <4>2. CASE s = {}
        BY <4>2
      <4>3. CASE s # {}
        <5>1. PICK a \in Nat, b \in Nat : a = Bytes[OneUrl(s)] /\ b = w[s \ {OneUrl(s)}]
          BY <3>1, <4>3
        <5>2. (IF s = {} THEN 0 ELSE Bytes[OneUrl(s)] + w[s \ {OneUrl(s)}]) = a + b
          BY <4>3, <5>1
        <5>3. QED  BY <5>2
      <4>4. QED  BY <4>2, <4>3
    <3>3. QED  BY <3>2
  <2>3. \A s \in UrlsUpTo(n - 1) : s \in UrlsUpTo(n) /\ w[s] = v[s]
    <3>1. \A s \in UrlsUpTo(n - 1) : Cardinality(s) \in Nat
      BY UrlsFinite, FS_Subset, FS_CardinalityType DEF UrlsUpTo
    <3>2. \A s \in UrlsUpTo(n - 1) : s \in UrlsUpTo(n)
      BY <3>1 DEF UrlsUpTo
    <3>3. \A s \in UrlsUpTo(n - 1) : w[s] = IF s = {} THEN 0 ELSE Bytes[OneUrl(s)] + w[s \ {OneUrl(s)}]
      BY <2>1 DEF SumOn
    <3>4. QED  BY <3>2, <3>3
  <2>4. \A s \in UrlsUpTo(n) : s # {} => w[s \ {OneUrl(s)}] = v[s \ {OneUrl(s)}]
    BY <1>0, <2>3, OneUrlLess
  <2>5. SumOn(v, UrlsUpTo(n))
    BY <2>4 DEF SumOn
  <2>6. QED  BY <2>2, <2>5
<1>3. Bad = {}
  <2>1. SUFFICES ASSUME Bad # {} PROVE FALSE
    OBVIOUS
  <2>2. PICK n \in Bad : \A m \in Bad : n <= m
    BY <2>1, LeastOne
  <2>3. n # 0 /\ n - 1 \in Nat /\ n - 1 \notin Bad
    BY <1>1, <2>2
  <2> HIDE DEF Has
  <2>4. QED  BY <1>2, <2>2, <2>3
<1>4. UrlsUpTo(Cardinality(Urls)) = SUBSET Urls /\ Cardinality(Urls) \in Nat
  BY UrlsFinite, FS_Subset, FS_CardinalityType DEF UrlsUpTo
<1>5. Has(Cardinality(Urls))
  BY <1>3, <1>4
<1>6. QED  BY <1>4, <1>5

(* The weight of a set is its sum: there is no smallest subset on which the fold differs. *)
LEMMA WeightIs ==
    ASSUME Npm!NpmConstants, NEW w \in [SUBSET Urls -> Nat], SumOn(w, SUBSET Urls), NEW S \in SUBSET Urls
    PROVE  Npm!Weight(S) = w[S]
<1> DEFINE Iter(iter) == iter = [s \in SUBSET S |-> IF s = {} THEN 0 ELSE Bytes[CHOOSE x \in s : TRUE] + iter[s \ {CHOOSE x \in s : TRUE}]]
           c == CHOOSE iter : Iter(iter)
<1>1. Npm!Weight(S) = c[S]
  BY DEF Npm!Weight, Npm!MapThenSumSet, Npm!MapThenFoldSet
<1>2. \A s : s # {} => (CHOOSE x \in s : TRUE) \in s
  OBVIOUS
<1>3. Iter(c)
  <2> DEFINE g == [s \in SUBSET S |-> w[s]]
  <2>1. \A s \in SUBSET S : w[s] = IF s = {} THEN 0 ELSE Bytes[CHOOSE x \in s : TRUE] + w[s \ {CHOOSE x \in s : TRUE}]
    BY DEF SumOn, OneUrl
  <2>2. \A s \in SUBSET S : s # {} => g[s \ {CHOOSE x \in s : TRUE}] = w[s \ {CHOOSE x \in s : TRUE}]
    OBVIOUS
  <2>3. Iter(g)
    BY <2>1, <2>2
  <2> HIDE DEF Iter, g
  <2>4. QED  BY <2>3
<1>4. \A s \in SUBSET S : c[s] = IF s = {} THEN 0 ELSE Bytes[OneUrl(s)] + c[s \ {OneUrl(s)}]
  <2>1. c = [s \in SUBSET S |-> IF s = {} THEN 0 ELSE Bytes[CHOOSE x \in s : TRUE] + c[s \ {CHOOSE x \in s : TRUE}]]
    BY <1>3
  <2> HIDE DEF c
  <2>2. QED  BY <2>1 DEF OneUrl
<1> HIDE DEF c, Iter
<1> DEFINE Bad == {n \in Nat : \E s \in UrlsUpTo(n) \cap SUBSET S : c[s] # w[s]}
<1>5. Bad = {}
  <2>1. SUFFICES ASSUME Bad # {} PROVE FALSE
    OBVIOUS
  <2>2. PICK n \in Bad : \A m \in Bad : n <= m
    BY <2>1, LeastOne
  <2>3. PICK s \in UrlsUpTo(n) \cap SUBSET S : c[s] # w[s]
    BY <2>2
  <2>4. c[s] = (IF s = {} THEN 0 ELSE Bytes[OneUrl(s)] + c[s \ {OneUrl(s)}]) /\ w[s] = IF s = {} THEN 0 ELSE Bytes[OneUrl(s)] + w[s \ {OneUrl(s)}]
    BY <1>4 DEF SumOn
  <2>5. s # {} /\ OneUrl(s) \in s
    BY <2>3, <2>4 DEF OneUrl
  <2>6. s \ {OneUrl(s)} \in UrlsUpTo(n - 1) \cap SUBSET S /\ n # 0 /\ n - 1 \in Nat
    BY <2>5, OneUrlLess
  <2>7. n - 1 \notin Bad
    BY <2>2, <2>6
  <2>8. QED  BY <2>3, <2>4, <2>5, <2>6, <2>7
<1>6. PICK n \in Nat : S \in UrlsUpTo(n)
  BY SomeSize
<1>7. QED  BY <1>1, <1>5, <1>6

(* It does not matter which element is taken away: there is no smallest set for which it does. *)
LEMMA TakenAway ==
    ASSUME Npm!NpmConstants, NEW w \in [SUBSET Urls -> Nat], SumOn(w, SUBSET Urls), NEW S \in SUBSET Urls, NEW x \in S
    PROVE  w[S] = Bytes[x] + w[S \ {x}]
<1> DEFINE Even(s) == \A u \in s : w[s] = Bytes[u] + w[s \ {u}]
           Bad == {n \in Nat : \E s \in UrlsUpTo(n) : ~Even(s)}
<1>1. Bad = {}
  <2>1. SUFFICES ASSUME Bad # {} PROVE FALSE
    OBVIOUS
  <2>2. PICK n \in Bad : \A m \in Bad : n <= m
    BY <2>1, LeastOne
  <2>3. PICK s \in UrlsUpTo(n) : ~Even(s)
    BY <2>2
  <2>4. PICK u \in s : w[s] # Bytes[u] + w[s \ {u}]
    BY <2>3
  <2>5. PICK y : y = OneUrl(s)
    OBVIOUS
  <2>6. s \in SUBSET Urls /\ y \in s /\ w[s] = Bytes[y] + w[s \ {y}]
    BY <2>5 DEF UrlsUpTo, OneUrl, SumOn
  <2>7. y # u
    BY <2>4, <2>6
  <2>8. /\ s \ {y} \in UrlsUpTo(n - 1) /\ s \ {u} \in UrlsUpTo(n - 1) /\ n - 1 \in Nat /\ n - 1 \notin Bad
        /\ u \in Urls /\ y \in Urls
    <3>1. n # 0 /\ n - 1 \in Nat /\ s \ {y} \in UrlsUpTo(n - 1) /\ s \ {u} \in UrlsUpTo(n - 1) /\ u \in Urls /\ y \in Urls
      BY <2>6, OneUrlLess
    <3>2. QED  BY <2>2, <3>1
  <2>9. Even(s \ {y}) /\ Even(s \ {u})
    BY <2>8
  <2>10. (s \ {y}) \ {u} = (s \ {u}) \ {y} /\ (s \ {u}) \ {y} \in SUBSET Urls
    BY <2>6
  <2>11. w[s \ {y}] = Bytes[u] + w[(s \ {u}) \ {y}] /\ w[s \ {u}] = Bytes[y] + w[(s \ {u}) \ {y}]
    BY <2>6, <2>7, <2>9, <2>10
  <2>12. Bytes[u] \in Nat /\ Bytes[y] \in Nat /\ w[(s \ {u}) \ {y}] \in Nat
    BY <2>8, <2>10, UrlsFinite
  <2>13. QED  BY <2>4, <2>6, <2>11, <2>12
<1>2. PICK n \in Nat : S \in UrlsUpTo(n)
  BY SomeSize
<1> HIDE DEF Even
<1>3. Even(S)
  BY <1>1, <1>2
<1>4. QED  BY <1>3 DEF Even

(* A part of a set weighs no more than the set: there is no smallest set with a heavier part. *)
LEMMA PartWeighsLess ==
    ASSUME Npm!NpmConstants, NEW S \in SUBSET Urls, NEW T \in SUBSET S
    PROVE  Npm!Weight(S) \in Nat /\ Npm!Weight(T) \in Nat /\ Npm!Weight(T) <= Npm!Weight(S)
<1>1. PICK w \in [SUBSET Urls -> Nat] : SumOn(w, SUBSET Urls)
  BY WeightsExist
<1> DEFINE Bad == {n \in Nat : \E s \in UrlsUpTo(n) : \E t \in SUBSET s : ~(w[t] <= w[s])}
<1>2. Bad = {}
  <2>1. SUFFICES ASSUME Bad # {} PROVE FALSE
    OBVIOUS
  <2>2. PICK n \in Bad : \A m \in Bad : n <= m
    BY <2>1, LeastOne
  <2>3. PICK s \in UrlsUpTo(n) : \E t \in SUBSET s : ~(w[t] <= w[s])
    BY <2>2
  <2>4. PICK t \in SUBSET s : ~(w[t] <= w[s])
    BY <2>3
  <2>5. s \in SUBSET Urls /\ t \in SUBSET Urls
    BY DEF UrlsUpTo
  <2>6. PICK u \in s : u \notin t
    <3>1. s # t
      BY <2>4, <2>5
    <3>2. QED  BY <3>1
  <2>7. t \in SUBSET (s \ {u}) /\ s \ {u} \in UrlsUpTo(n - 1) /\ n # 0 /\ n - 1 \in Nat /\ u \in Urls /\ s \ {u} \in SUBSET Urls
    BY <2>5, <2>6, OneUrlLess
  <2>8. w[t] <= w[s \ {u}]
    BY <2>2, <2>7
  <2>9. w[s] = Bytes[u] + w[s \ {u}] /\ Bytes[u] \in Nat
    BY <1>1, <2>5, <2>7, TakenAway, UrlsFinite
  <2>10. w[t] \in Nat /\ w[s \ {u}] \in Nat
    BY <2>5, <2>7
  <2>11. QED  BY <2>4, <2>8, <2>9, <2>10
<1>3. PICK n \in Nat : S \in UrlsUpTo(n)
  BY SomeSize
<1>4. w[T] <= w[S] /\ w[T] \in Nat /\ w[S] \in Nat
  BY <1>2, <1>3
<1>5. QED  BY <1>1, <1>4, WeightIs

(* No URLs weigh nothing. *)
LEMMA NothingWeighs == ASSUME Npm!NpmConstants PROVE Npm!Weight({}) = 0
<1>1. PICK w \in [SUBSET Urls -> Nat] : SumOn(w, SUBSET Urls)
  BY WeightsExist
<1>2. w[{}] = 0
  BY <1>1 DEF SumOn
<1>3. QED  BY <1>1, <1>2, WeightIs

(* After an eviction the rows fit: all that are left are counted with the one of them that was used first. *)
LEMMA EvictFits ==
    ASSUME Npm!NpmConstants, MaxTime \in Nat, NEW table \in [Urls -> CacheRows]
    PROVE  /\ Npm!evict(table) \in [Urls -> CacheRows]
           /\ Npm!Weight({u \in Urls : Npm!evict(table)[u].ver # 0}) <= CacheMaxBytes
<1> DEFINE kept == {u \in Urls : table[u].ver # 0}
           later(u) == {v \in kept : Npm!Before(table, u, v)}
           left == {u \in Urls : Npm!evict(table)[u].ver # 0}
<1>1. Npm!evict(table) = [u \in Urls |-> IF u \in kept /\ Npm!Weight(later(u)) > CacheMaxBytes THEN Npm!NoRow ELSE table[u]]
  BY DEF Npm!evict
<1>2. Npm!NoRow \in CacheRows /\ Npm!NoRow.ver = 0 /\ CacheMaxBytes \in Nat
  BY DEF Npm!NpmConstants, Npm!NoRow, CacheRows
<1> HIDE DEF later
<1>3. Npm!evict(table) \in [Urls -> CacheRows]
  BY <1>1, <1>2
<1>4. left \subseteq kept /\ \A u \in left : ~(Npm!Weight(later(u)) > CacheMaxBytes)
  BY <1>1, <1>2
<1>5. CASE left = {}
  <2> HIDE DEF left
  <2>1. Npm!Weight(left) = 0
    BY <1>5, NothingWeighs
  <2>2. Npm!Weight(left) <= CacheMaxBytes
    BY <1>2, <2>1
  <2>3. QED  BY <1>3, <2>2 DEF left
<1>6. CASE left # {}
  <2>1. \A u \in Urls : table[u].used \in Nat /\ u \in Nat
    BY UrlsFinite DEF CacheRows
  <2>2. PICK m \in {table[u].used : u \in left} : \A k \in {table[u].used : u \in left} : m <= k
    <3>1. {table[u].used : u \in left} \subseteq Nat /\ {table[u].used : u \in left} # {}
      BY <1>6, <2>1
    <3> HIDE DEF left
    <3>2. QED  BY <3>1, LeastOne
  <2>3. PICK u \in {v \in left : table[v].used = m} : \A v \in {x \in left : table[x].used = m} : u <= v
    <3>1. {v \in left : table[v].used = m} \subseteq Nat /\ {v \in left : table[v].used = m} # {}
      BY <2>1, <2>2
    <3> HIDE DEF left
    <3>2. QED  BY <3>1, LeastOne
  <2>4. \A v \in left : Npm!Before(table, u, v)
    <3>1. \A v \in left : m <= table[v].used /\ table[v].used \in Nat
      BY <2>1, <2>2
    <3>2. table[u].used = m /\ m \in Nat
      BY <2>1, <2>3
    <3>3. \A v \in left : table[v].used = m => u <= v
      BY <2>3
    <3> HIDE DEF left
    <3>4. QED  BY <3>1, <3>2, <3>3 DEF Npm!Before
  <2>5. left \subseteq later(u) /\ later(u) \in SUBSET Urls
    BY <1>4, <2>4 DEF later
  <2>6. Npm!Weight(left) <= Npm!Weight(later(u)) /\ Npm!Weight(left) \in Nat /\ Npm!Weight(later(u)) \in Nat
    <3> HIDE DEF left
    <3>1. QED  BY <2>5, PartWeighsLess
  <2>7. ~(Npm!Weight(later(u)) > CacheMaxBytes)
    BY <1>4, <2>3
  <2>8. Npm!Weight(left) <= CacheMaxBytes
    BY <1>2, <2>6, <2>7
  <2>9. QED  BY <1>3, <2>8
<1>7. QED  BY <1>5, <1>6

(* What is queued is the head and the rest. *)
LEMMA QueuedTail ==
    ASSUME NEW s \in Seq(Urls), s # <<>>
    PROVE  Head(s) \in Urls /\ Tail(s) \in Seq(Urls) /\ Queued(s) = {Head(s)} \cup Queued(Tail(s))
<1>1. /\ Len(s) \in Nat /\ Len(s) > 0 /\ Head(s) = s[1] /\ Tail(s) \in Seq(Urls) /\ Len(Tail(s)) = Len(s) - 1
      /\ \A k \in 1 .. Len(s) - 1 : Tail(s)[k] = s[k + 1]
  BY HeadTailProperties, EmptySeq
<1>2. \A k \in 1 .. Len(s) : s[k] = Head(s) \/ \E i \in 1 .. Len(Tail(s)) : s[k] = Tail(s)[i]
  <2>1. SUFFICES ASSUME NEW k \in 1 .. Len(s) PROVE s[k] = Head(s) \/ \E i \in 1 .. Len(Tail(s)) : s[k] = Tail(s)[i]
    OBVIOUS
  <2>2. CASE k = 1
    BY <1>1, <2>2
  <2>3. CASE k # 1
    <3>1. k - 1 \in 1 .. Len(s) - 1 /\ (k - 1) + 1 = k
      BY <1>1, <2>3
    <3>2. QED  BY <1>1, <3>1
  <2>4. QED  BY <2>2, <2>3
<1>3. \A i \in 1 .. Len(Tail(s)) : \E k \in 1 .. Len(s) : s[k] = Tail(s)[i]
  BY <1>1
<1>4. Head(s) \in Urls /\ \E k \in 1 .. Len(s) : s[k] = Head(s)
  BY <1>1
<1>5. QED  BY <1>1, <1>2, <1>3, <1>4 DEF Queued

(* What is queued of two sequences is what is queued of each. *)
LEMMA QueuedBoth ==
    ASSUME NEW s \in Seq(Urls), NEW t \in Seq(Urls)
    PROVE  s \o t \in Seq(Urls) /\ Queued(s \o t) = Queued(s) \cup Queued(t)
<1>1. /\ s \o t \in Seq(Urls) /\ Len(s \o t) = Len(s) + Len(t) /\ Len(s) \in Nat /\ Len(t) \in Nat
      /\ \A i \in 1 .. Len(s) + Len(t) : (s \o t)[i] = IF i <= Len(s) THEN s[i] ELSE t[i - Len(s)]
  BY ConcatProperties
<1>2. \A i \in 1 .. Len(s \o t) : (\E k \in 1 .. Len(s) : (s \o t)[i] = s[k]) \/ (\E k \in 1 .. Len(t) : (s \o t)[i] = t[k])
  <2>1. SUFFICES ASSUME NEW i \in 1 .. Len(s) + Len(t)
                 PROVE  (\E k \in 1 .. Len(s) : (s \o t)[i] = s[k]) \/ (\E k \in 1 .. Len(t) : (s \o t)[i] = t[k])
    BY <1>1
  <2>2. CASE i <= Len(s)
    BY <1>1, <2>2
  <2>3. CASE ~(i <= Len(s))
    <3>1. i - Len(s) \in 1 .. Len(t) /\ (s \o t)[i] = t[i - Len(s)]
      BY <1>1, <2>3
    <3>2. QED  BY <3>1
  <2>4. QED  BY <2>2, <2>3
<1>3. \A k \in 1 .. Len(s) : k \in 1 .. Len(s \o t) /\ (s \o t)[k] = s[k]
  BY <1>1
<1>4. \A k \in 1 .. Len(t) : k + Len(s) \in 1 .. Len(s \o t) /\ (s \o t)[k + Len(s)] = t[k]
  BY <1>1
<1>5. PICK r : r = s \o t
  OBVIOUS
<1>6. Queued(r) \subseteq Queued(s) \cup Queued(t)
  <2>1. \A i \in 1 .. Len(r) : (\E k \in 1 .. Len(s) : r[i] = s[k]) \/ (\E k \in 1 .. Len(t) : r[i] = t[k])
    BY <1>2, <1>5
  <2>2. QED  BY <2>1 DEF Queued
<1>7. Queued(s) \subseteq Queued(r) /\ Queued(t) \subseteq Queued(r)
  <2>1. /\ \A k \in 1 .. Len(s) : \E i \in 1 .. Len(r) : r[i] = s[k]
        /\ \A k \in 1 .. Len(t) : \E i \in 1 .. Len(r) : r[i] = t[k]
    BY <1>3, <1>4, <1>5
  <2>2. QED  BY <2>1 DEF Queued
<1>8. QED  BY <1>1, <1>5, <1>6, <1>7

(* The constants, one by one. *)
LEMMA NpmNumbers ==
    ASSUME Npm!NpmConstants
    PROVE  /\ MaxModules \in Nat /\ MaxTotalBytes \in Nat /\ CacheMaxBytes \in Nat /\ MaxTime \in Nat
           /\ MaxVersion \in Nat /\ MaxVersion # 0 /\ Npm!Versions = 1 .. MaxVersion
           /\ Specifiers \subseteq Seq(Urls) /\ Imports \in [Urls -> [1 .. MaxVersion -> Seq(Urls)]]
  BY DEF Npm!NpmConstants, Npm!Versions

(* A source that is loaded, its imports queued, leaves the resolution within its limits or fails it. *)
LEMMA LoadedFits ==
    ASSUME Npm!NpmConstants, NpmTypes, NEW r \in Calls, NEW ver \in 1 .. MaxVersion, NEW fetched \in BOOLEAN,
           ResolutionFits(res[r]), res[r].pc \in {"next", "asking", "fetching"}, res[r].queue # <<>>,
           Head(res[r].queue) \notin Npm!Held(res[r].graph), Cardinality(Npm!Held(res[r].graph)) < MaxModules
    PROVE  Npm!Loaded(r, ver, fetched) \in ResolutionStates /\ ResolutionFits(Npm!Loaded(r, ver, fetched))
<1>1. PICK q \in ResolutionStates : q = res[r]
  BY DEF NpmTypes
<1>2. PICK u \in Urls : u = Head(q.queue)
  BY <1>1, QueuedTail DEF ResolutionStates
<1>3. PICK t \in Seq(Urls) : t = Tail(q.queue)
  BY <1>1, QueuedTail DEF ResolutionStates
<1>4. Queued(q.queue) = {u} \cup Queued(t) /\ q.isolate \in Isolates /\ q.graph \in [Urls -> 0 .. MaxVersion] /\ q.fetched \in SUBSET Urls
      /\ q.asked \in SUBSET Urls
  BY <1>1, <1>2, <1>3, QueuedTail DEF ResolutionStates, ResolutionFits
<1>5. PICK g \in [Urls -> 0 .. MaxVersion] : g = [q.graph EXCEPT ![u] = ver]
  <2>1. ver \in 0 .. MaxVersion
    BY NpmNumbers
  <2>2. QED  BY <1>4, <2>1
<1>6. PICK more \in Seq(Urls) : more = Imports[u][ver]
  BY NpmNumbers
<1>7. Npm!Held(g) = Npm!Held(q.graph) \cup {u} /\ g[u] = ver /\ \A v \in Npm!Held(q.graph) : g[v] = q.graph[v]
  BY <1>1, <1>2, <1>4, <1>5 DEF Npm!Held
<1>8. CASE Npm!Weight(Npm!Held(g)) > MaxTotalBytes
  <2>1. Npm!Loaded(r, ver, fetched) = [q EXCEPT !.pc = "failed"]
    BY <1>1, <1>2, <1>5, <1>8 DEF Npm!Loaded, Npm!Url
  <2>2. PICK e \in ResolutionStates : e = [q EXCEPT !.pc = "failed"] /\ e.pc = "failed" /\ e.isolate = q.isolate
    <3>1. \A a \in ResolutionStates : LET b == [a EXCEPT !.pc = "failed"]
                                     IN  b \in ResolutionStates /\ b.pc = "failed" /\ b.isolate = a.isolate
      BY DEF ResolutionStates, ResolutionPcs
    <3>2. QED  BY <3>1
  <2>3. QED  BY <1>4, <2>1, <2>2 DEF ResolutionFits
<1>9. CASE ~(Npm!Weight(Npm!Held(g)) > MaxTotalBytes)
  <2>1. PICK f \in SUBSET Urls : f = IF fetched THEN q.fetched \cup {u} ELSE q.fetched
    BY <1>4
  <2>2. PICK e : e = [q EXCEPT !.pc = "next", !.queue = t \o more, !.graph = g, !.fetched = f]
    OBVIOUS
  <2>3. Npm!Loaded(r, ver, fetched) = e
    BY <1>1, <1>2, <1>3, <1>5, <1>6, <1>9, <2>1, <2>2 DEF Npm!Loaded, Npm!Url
  <2>4. t \o more \in Seq(Urls) /\ Queued(t \o more) = Queued(t) \cup Queued(more)
    BY QueuedBoth
  <2>5. /\ e \in ResolutionStates /\ e.pc = "next" /\ e.queue = t \o more /\ e.graph = g /\ e.isolate = q.isolate /\ e.asked = q.asked
    BY <2>2, <2>4 DEF ResolutionStates, ResolutionPcs
  <2>6. e.asked \subseteq Npm!Held(g) \cup Queued(t \o more)
    BY <1>1, <1>4, <1>7, <2>4, <2>5 DEF ResolutionFits
  <2>7. ImportsKnown(g, Npm!Held(g) \cup Queued(t \o more))
    <3>1. SUFFICES ASSUME NEW v \in Npm!Held(g), NEW k \in 1 .. Len(Imports[v][g[v]])
                   PROVE  Imports[v][g[v]][k] \in Npm!Held(g) \cup Queued(t \o more)
      BY DEF ImportsKnown
    <3>2. CASE v = u
      BY <1>6, <1>7, <2>4, <3>2 DEF Queued
    <3>3. CASE v # u
      <4>1. v \in Npm!Held(q.graph) /\ g[v] = q.graph[v]
        BY <1>7, <3>3
      <4>2. Imports[v][g[v]][k] \in Npm!Held(q.graph) \cup Queued(q.queue)
        BY <1>1, <4>1 DEF ResolutionFits, ImportsKnown
      <4>3. QED  BY <1>4, <1>7, <2>4, <4>2
    <3>4. QED  BY <3>2, <3>3
  <2>8. Cardinality(Npm!Held(g)) <= MaxModules
    <3>1. IsFiniteSet(Npm!Held(q.graph))
      BY UrlsFinite, FS_Subset DEF Npm!Held
    <3>2. PICK held : held = Npm!Held(q.graph)
      OBVIOUS
    <3>3. u \notin held /\ Npm!Held(g) = held \cup {u} /\ IsFiniteSet(held) /\ Cardinality(held) < MaxModules
      BY <1>1, <1>2, <1>7, <3>1, <3>2
    <3>4. Cardinality(held \cup {u}) = Cardinality(held) + 1 /\ Cardinality(held) \in Nat
      BY <3>3, FS_AddElement, FS_CardinalityType
    <3>5. QED  BY <3>3, <3>4, NpmNumbers
  <2>9. Npm!Weight(Npm!Held(g)) <= MaxTotalBytes
    <3>1. Npm!Weight(Npm!Held(g)) \in Nat
      <4>1. Npm!Held(g) \in SUBSET Urls
        BY <1>5 DEF Npm!Held
      <4>2. QED  BY <4>1, PartWeighsLess
    <3>2. QED  BY <1>9, <3>1, NpmNumbers
  <2>10. ResolutionFits(e)
    BY <1>4, <2>5, <2>6, <2>7, <2>8, <2>9 DEF ResolutionFits
  <2>11. QED  BY <2>3, <2>5, <2>10
<1>10. QED  BY <1>8, <1>9

(* A step keeps the invariant when the rows fit and every resolution it changes does. *)
LEMMA NpmKeeps ==
    ASSUME NpmInv, cdn' \in [Urls -> Npm!Versions], memo' \in [Isolates -> [Urls -> 0 .. MaxVersion]],
           rows' \in [Urls -> CacheRows], Npm!Weight({u \in Urls : rows'[u].ver # 0}) <= CacheMaxBytes, time' \in 0 .. MaxTime,
           res' \in [Calls -> ResolutionStates],
           \A r \in Calls : \E q : res'[r] = q /\ (q = res[r] \/ ResolutionFits(q))
    PROVE  NpmInv'
<1>1. NpmTypes'
  BY DEF NpmTypes
<1>2. (Npm!Weight(Npm!Cached) <= CacheMaxBytes)'
  BY DEF Npm!Cached
<1>3. \A r \in Calls : ResolutionFits(res'[r])
  BY DEF NpmInv
<1>4. \A r \in Calls : ResolutionFits(res[r])'
  BY <1>3 DEF ResolutionFits, ImportsKnown
<1>5. QED  BY <1>1, <1>2, <1>4 DEF NpmInv

(* A step of one resolution that leaves the rows alone. *)
LEMMA ResolutionKeeps ==
    ASSUME NpmInv, UNCHANGED <<cdn, rows, time>>, memo' \in [Isolates -> [Urls -> 0 .. MaxVersion]],
           NEW r \in Calls, NEW q \in ResolutionStates, ResolutionFits(q), res' = [res EXCEPT ![r] = q]
    PROVE  NpmInv'
<1>1. NpmTypes /\ Npm!Weight({u \in Urls : rows[u].ver # 0}) <= CacheMaxBytes
  BY DEF NpmInv, Npm!Cached
<1>2. res' \in [Calls -> ResolutionStates] /\ \A c \in Calls : res'[c] = q \/ res'[c] = res[c]
  BY <1>1 DEF NpmTypes
<1>3. /\ cdn' \in [Urls -> Npm!Versions] /\ rows' \in [Urls -> CacheRows] /\ time' \in 0 .. MaxTime
      /\ Npm!Weight({u \in Urls : rows'[u].ver # 0}) <= CacheMaxBytes
  BY <1>1 DEF NpmTypes
<1>4. QED  BY <1>2, <1>3, NpmKeeps

(* A step of no resolution. *)
LEMMA RowsKeep ==
    ASSUME NpmInv, cdn' \in [Urls -> Npm!Versions], memo' \in [Isolates -> [Urls -> 0 .. MaxVersion]],
           rows' \in [Urls -> CacheRows], Npm!Weight({u \in Urls : rows'[u].ver # 0}) <= CacheMaxBytes, time' \in 0 .. MaxTime,
           res' = res
    PROVE  NpmInv'
<1>1. res' \in [Calls -> ResolutionStates]
  BY DEF NpmInv, NpmTypes
<1>2. QED  BY <1>1, NpmKeeps

(* Nothing is resolved or cached at the start. *)
LEMMA NpmStart == ASSUME Npm!NpmConstants, Npm!Init PROVE NpmInv
<1> USE DEF Npm!Init
<1>1. 1 \in Npm!Versions /\ 0 \in 0 .. MaxVersion /\ 0 \in 0 .. MaxTime
  BY NpmNumbers
<1>2. Npm!Idle \in ResolutionStates /\ ResolutionFits(Npm!Idle)
  BY <1>1 DEF Npm!Idle, Npm!NoGraph, ResolutionStates, ResolutionPcs, ResolutionFits
<1>3. NpmTypes
  BY <1>1, <1>2 DEF NpmTypes, CacheRows, Npm!NoRow, Npm!NoGraph
<1>4. Npm!Cached = {}
  BY DEF Npm!Cached, Npm!NoRow
<1>5. QED  BY <1>2, <1>3, <1>4, NothingWeighs, NpmNumbers DEF NpmInv

(* The source of a URL is kept by the isolate. *)
LEMMA MemoTypes ==
    ASSUME NpmTypes, Npm!NpmConstants, NEW i \in Isolates, NEW u \in Urls, NEW ver \in 0 .. MaxVersion
    PROVE  Npm!memoize(i, u, ver) \in [Isolates -> [Urls -> 0 .. MaxVersion]]
<1>1. Npm!NoGraph \in [Urls -> 0 .. MaxVersion]
  BY NpmNumbers DEF Npm!NoGraph
<1>2. PICK a \in [Urls -> 0 .. MaxVersion] : a = IF Npm!Cardinality(Npm!Held(memo[i])) >= MemoMax THEN Npm!NoGraph ELSE memo[i]
  BY <1>1 DEF NpmTypes
<1>3. [a EXCEPT ![u] = ver] \in [Urls -> 0 .. MaxVersion]
  OBVIOUS
<1>4. Npm!memoize(i, u, ver) = [memo EXCEPT ![i] = [a EXCEPT ![u] = ver]]
  BY <1>2 DEF NpmTypes, Npm!memoize
<1>5. QED  BY <1>3, <1>4 DEF NpmTypes

(* A resolution begins. *)
LEMMA BeginStep ==
    ASSUME Npm!NpmConstants, NpmInv, NEW r \in Calls, NEW i \in Isolates, NEW specs \in Specifiers, Npm!Begin(r, i, specs)
    PROVE  NpmInv'
<1>1. specs \in Seq(Urls) /\ DOMAIN specs = 1 .. Len(specs)
  BY NpmNumbers
<1> DEFINE q == [Npm!Idle EXCEPT !.pc = "next", !.isolate = i, !.queue = specs, !.asked = {specs[k] : k \in DOMAIN specs}]
<1>2. res' = [res EXCEPT ![r] = q] /\ UNCHANGED <<cdn, memo, rows, time>>
  BY DEF Npm!Begin
<1>3. 0 \in 0 .. MaxVersion
  BY NpmNumbers
<1>4. Npm!NoGraph \in [Urls -> 0 .. MaxVersion]
  BY <1>3 DEF Npm!NoGraph
<1>5. {specs[k] : k \in DOMAIN specs} \in SUBSET Urls /\ {specs[k] : k \in DOMAIN specs} = Queued(specs)
  BY <1>1 DEF Queued
<1>6. /\ q \in ResolutionStates /\ q.pc = "next" /\ q.isolate = i /\ q.queue = specs /\ q.asked = Queued(specs)
      /\ q.graph = Npm!NoGraph
  BY <1>1, <1>4, <1>5 DEF Npm!Idle, ResolutionStates, ResolutionPcs
<1> HIDE DEF q
<1>7. Npm!Held(Npm!NoGraph) = {}
  BY DEF Npm!Held, Npm!NoGraph
<1>8. Npm!Weight({}) <= MaxTotalBytes /\ Cardinality({}) <= MaxModules
  BY NothingWeighs, NpmNumbers, FS_EmptySet
<1>9. ResolutionFits(q)
  BY <1>6, <1>7, <1>8 DEF ResolutionFits, ImportsKnown
<1>10. memo' \in [Isolates -> [Urls -> 0 .. MaxVersion]]
  BY <1>2 DEF NpmInv, NpmTypes
<1>11. QED  BY <1>2, <1>6, <1>9, <1>10, ResolutionKeeps

(* What a step finds. *)
LEMMA Found ==
    ASSUME NpmInv, NEW r \in Calls
    PROVE  /\ NpmTypes /\ res[r] \in ResolutionStates /\ ResolutionFits(res[r]) /\ res[r].queue \in Seq(Urls)
           /\ res[r].graph \in [Urls -> 0 .. MaxVersion] /\ memo \in [Isolates -> [Urls -> 0 .. MaxVersion]]
           /\ rows \in [Urls -> CacheRows]
  BY DEF NpmInv, NpmTypes, ResolutionStates

(* A resolution goes on at another place, or fails. *)
LEMMA PcMoves ==
    ASSUME NpmInv, NEW r \in Calls, NEW pc \in ResolutionPcs \ {"idle"}, res[r].pc # "idle",
           ResolutionFits([res[r] EXCEPT !.pc = pc]), UNCHANGED <<cdn, memo, rows, time>>, res' = [res EXCEPT ![r].pc = pc]
    PROVE  NpmInv'
<1>1. res[r] \in ResolutionStates /\ res \in [Calls -> ResolutionStates] /\ memo' \in [Isolates -> [Urls -> 0 .. MaxVersion]]
  BY DEF NpmInv, NpmTypes
<1>2. \A a \in ResolutionStates : [a EXCEPT !.pc = pc] \in ResolutionStates
  BY DEF ResolutionStates
<1>3. PICK q \in ResolutionStates : q = [res[r] EXCEPT !.pc = pc]
  BY <1>1, <1>2
<1>4. res' = [res EXCEPT ![r] = q]
  BY <1>1, <1>3
<1>5. QED  BY <1>1, <1>3, <1>4, ResolutionKeeps

(* What a change of the place leaves. *)
LEMMA PcOnly ==
    ASSUME NEW a \in ResolutionStates, NEW pc
    PROVE  \E b : /\ b = [a EXCEPT !.pc = pc] /\ b.pc = pc /\ b.isolate = a.isolate /\ b.asked = a.asked /\ b.queue = a.queue
                  /\ b.graph = a.graph
<1>1. LET b == [a EXCEPT !.pc = pc]
      IN  b.pc = pc /\ b.isolate = a.isolate /\ b.asked = a.asked /\ b.queue = a.queue /\ b.graph = a.graph
  BY DEF ResolutionStates
<1>2. QED  BY <1>1

(* A resolution that fails keeps nothing to promise. *)
LEMMA FailedFits == ASSUME NEW a \in ResolutionStates, a.pc # "idle", ResolutionFits(a) PROVE ResolutionFits([a EXCEPT !.pc = "failed"])
<1>1. PICK b : /\ b = [a EXCEPT !.pc = "failed"] /\ b.pc = "failed" /\ b.isolate = a.isolate /\ b.asked = a.asked
               /\ b.queue = a.queue /\ b.graph = a.graph
  <2>1. \A x \in ResolutionStates : LET b == [x EXCEPT !.pc = "failed"]
                                   IN  /\ b.pc = "failed" /\ b.isolate = x.isolate /\ b.asked = x.asked
                                       /\ b.queue = x.queue /\ b.graph = x.graph
    BY DEF ResolutionStates
  <2>2. QED  BY <2>1
<1>2. ResolutionFits(b)
  BY <1>1 DEF ResolutionFits
<1>3. QED  BY <1>1, <1>2

(* A URL that was seen is not loaded again. *)
LEMMA SkipSeenStep == ASSUME Npm!NpmConstants, NpmInv, NEW r \in Calls, Npm!SkipSeen(r) PROVE NpmInv'
<1>1. /\ res[r].pc = "next" /\ res[r].queue # <<>> /\ Head(res[r].queue) \in Npm!Held(res[r].graph)
      /\ UNCHANGED <<cdn, memo, rows, time>> /\ res' = [res EXCEPT ![r].queue = Tail(res[r].queue)]
  BY DEF Npm!SkipSeen, Npm!At, Npm!Url, Npm!Seen, NpmInv, NpmTypes
<1>2. PICK a \in ResolutionStates : a = res[r]
  BY Found
<1>3. a.queue \in Seq(Urls) /\ ResolutionFits(a) /\ res \in [Calls -> ResolutionStates] /\ memo' \in [Isolates -> [Urls -> 0 .. MaxVersion]]
  BY <1>1, <1>2, Found DEF NpmInv, NpmTypes
<1>4. PICK t \in Seq(Urls) : t = Tail(a.queue) /\ Queued(a.queue) = {Head(a.queue)} \cup Queued(t)
  BY <1>1, <1>2, <1>3, QueuedTail
<1>5. PICK q \in ResolutionStates : /\ q = [a EXCEPT !.queue = t] /\ q.pc = a.pc /\ q.isolate = a.isolate /\ q.asked = a.asked
                                    /\ q.graph = a.graph /\ q.queue = t
  <2>1. \A x \in ResolutionStates : LET b == [x EXCEPT !.queue = t]
                                   IN  /\ b \in ResolutionStates /\ b.pc = x.pc /\ b.isolate = x.isolate /\ b.asked = x.asked
                                       /\ b.graph = x.graph /\ b.queue = t
    BY DEF ResolutionStates
  <2>2. QED  BY <2>1
<1>6. res' = [res EXCEPT ![r] = q]
  BY <1>1, <1>2, <1>3, <1>4, <1>5
<1>7. Npm!Held(a.graph) \cup Queued(a.queue) = Npm!Held(a.graph) \cup Queued(t)
  BY <1>1, <1>2, <1>4
<1>8. ResolutionFits(q)
  BY <1>1, <1>2, <1>3, <1>5, <1>7 DEF ResolutionFits
<1>9. QED  BY <1>1, <1>3, <1>6, <1>8, ResolutionKeeps

(* A resolution fails: too many modules, or the CDN does not answer. *)
LEMMA FailStep == ASSUME Npm!NpmConstants, NpmInv, NEW r \in Calls, Npm!TooMany(r) \/ Npm!FetchFails(r) PROVE NpmInv'
<1>1. /\ res[r].pc \in {"next", "fetching"} /\ UNCHANGED <<cdn, memo, rows, time>> /\ res' = [res EXCEPT ![r].pc = "failed"]
  BY DEF Npm!TooMany, Npm!FetchFails, Npm!At
<1>2. res[r] \in ResolutionStates /\ ResolutionFits(res[r])
  BY Found
<1>3. ResolutionFits([res[r] EXCEPT !.pc = "failed"])
  BY <1>1, <1>2, FailedFits
<1>4. "failed" \in ResolutionPcs \ {"idle"}
  BY DEF ResolutionPcs
<1>5. QED  BY <1>1, <1>3, <1>4, PcMoves

(* The isolate does not have it: the shared cache is asked, or the CDN. *)
LEMMA LoadElsewhereStep == ASSUME Npm!NpmConstants, NpmInv, NEW r \in Calls, Npm!LoadElsewhere(r) PROVE NpmInv'
<1>1. /\ res[r].pc = "next" /\ res[r].queue # <<>> /\ Head(res[r].queue) \notin Npm!Held(res[r].graph)
      /\ Cardinality(Npm!Held(res[r].graph)) < MaxModules /\ UNCHANGED <<cdn, memo, rows, time>>
  BY SameCount DEF Npm!LoadElsewhere, Npm!MayLoad, Npm!At, Npm!Url, Npm!Seen
<1>2. PICK pc \in {"asking", "fetching"} : res' = [res EXCEPT ![r].pc = pc]
  <2>1. (IF Npm!Shared THEN "asking" ELSE "fetching") \in {"asking", "fetching"}
    OBVIOUS
  <2>2. QED  BY <2>1 DEF Npm!LoadElsewhere
<1>3. PICK a \in ResolutionStates : a = res[r] /\ ResolutionFits(a)
  BY Found
<1>4. PICK b : /\ b = [a EXCEPT !.pc = pc] /\ b.pc = pc /\ b.isolate = a.isolate /\ b.asked = a.asked /\ b.queue = a.queue
               /\ b.graph = a.graph
  BY PcOnly
<1>5. ResolutionFits(b)
  BY <1>1, <1>3, <1>4 DEF ResolutionFits
<1>6. pc \in ResolutionPcs \ {"idle"}
  BY DEF ResolutionPcs
<1>7. QED  BY <1>1, <1>2, <1>3, <1>4, <1>5, <1>6, PcMoves

(* All is loaded. *)
LEMMA QueueEmptyStep == ASSUME Npm!NpmConstants, NpmInv, NEW r \in Calls, Npm!QueueEmpty(r) PROVE NpmInv'
<1>1. res[r].pc = "next" /\ res[r].queue = <<>> /\ UNCHANGED <<cdn, memo, rows, time>>
  BY DEF Npm!QueueEmpty
<1>2. PICK pc \in {"storing", "done"} : res' = [res EXCEPT ![r].pc = pc]
  <2>1. (IF Npm!Shared /\ res[r].fetched # {} THEN "storing" ELSE "done") \in {"storing", "done"}
    OBVIOUS
  <2>2. QED  BY <2>1 DEF Npm!QueueEmpty
<1>3. PICK a \in ResolutionStates : a = res[r] /\ ResolutionFits(a)
  BY Found
<1>4. PICK b : /\ b = [a EXCEPT !.pc = pc] /\ b.pc = pc /\ b.isolate = a.isolate /\ b.asked = a.asked /\ b.queue = a.queue
               /\ b.graph = a.graph
  BY PcOnly
<1>5. ResolutionFits(b)
  BY <1>1, <1>3, <1>4 DEF ResolutionFits
<1>6. pc \in ResolutionPcs \ {"idle"}
  BY DEF ResolutionPcs
<1>7. QED  BY <1>1, <1>2, <1>3, <1>4, <1>5, <1>6, PcMoves

(* The isolate has the source. *)
LEMMA LoadMemoStep == ASSUME Npm!NpmConstants, NpmInv, NEW r \in Calls, Npm!LoadMemo(r) PROVE NpmInv'
<1>1. /\ res[r].pc = "next" /\ res[r].queue # <<>> /\ Head(res[r].queue) \notin Npm!Held(res[r].graph)
      /\ Cardinality(Npm!Held(res[r].graph)) < MaxModules /\ UNCHANGED <<cdn, memo, rows, time>>
      /\ memo[res[r].isolate][Head(res[r].queue)] # 0
      /\ res' = [res EXCEPT ![r] = Npm!Loaded(r, memo[res[r].isolate][Head(res[r].queue)], FALSE)]
  BY SameCount DEF Npm!LoadMemo, Npm!MayLoad, Npm!At, Npm!Url, Npm!Seen
<1>2. NpmTypes /\ ResolutionFits(res[r]) /\ memo \in [Isolates -> [Urls -> 0 .. MaxVersion]]
  BY Found
<1>3. res[r].isolate \in Isolates /\ Head(res[r].queue) \in Urls
  BY <1>1, <1>2, Found, QueuedTail DEF ResolutionFits
<1>4. PICK ver \in 1 .. MaxVersion : ver = memo[res[r].isolate][Head(res[r].queue)]
  <2>1. memo[res[r].isolate][Head(res[r].queue)] \in 0 .. MaxVersion
    BY <1>2, <1>3
  <2>2. QED  BY <1>1, <2>1, NpmNumbers
<1>5. PICK q : q = Npm!Loaded(r, ver, FALSE)
  OBVIOUS
<1>6. q \in ResolutionStates /\ ResolutionFits(q)
  BY <1>1, <1>2, <1>5, LoadedFits
<1>7. res' = [res EXCEPT ![r] = q] /\ memo' \in [Isolates -> [Urls -> 0 .. MaxVersion]]
  BY <1>1, <1>2, <1>4, <1>5
<1>8. QED  BY <1>1, <1>6, <1>7, ResolutionKeeps

(* A row that is asked for is used or, past its time, deleted; no row is added. *)
LEMMA RowAsked ==
    ASSUME Npm!NpmConstants, NpmInv, NEW u \in Urls, NEW entry \in CacheRows, entry.ver = 0 \/ rows[u].ver # 0,
           NEW after, after = [rows EXCEPT ![u] = entry]
    PROVE  after \in [Urls -> CacheRows] /\ Npm!Weight({v \in Urls : after[v].ver # 0}) <= CacheMaxBytes
<1>1. rows \in [Urls -> CacheRows] /\ Npm!Weight(Npm!Cached) <= CacheMaxBytes
  BY DEF NpmInv, NpmTypes
<1> DEFINE left == {v \in Urls : after[v].ver # 0}
<1>2. left \subseteq Npm!Cached /\ Npm!Cached \in SUBSET Urls
  BY <1>1 DEF Npm!Cached
<1>3. after \in [Urls -> CacheRows]
  BY <1>1
<1> HIDE DEF left
<1>4. Npm!Weight(left) <= Npm!Weight(Npm!Cached) /\ Npm!Weight(left) \in Nat /\ Npm!Weight(Npm!Cached) \in Nat
  BY <1>2, PartWeighsLess
<1>5. Npm!Weight(left) <= CacheMaxBytes
  BY <1>1, <1>4, NpmNumbers
<1>6. QED  BY <1>3, <1>5 DEF left

(* The shared cache is asked: a fresh row is loaded and kept by the isolate, otherwise the CDN is next. *)
LEMMA GetManyStep == ASSUME Npm!NpmConstants, NpmInv, NEW r \in Calls, Npm!getMany(r) PROVE NpmInv'
<1>1. /\ res[r].pc = "asking" /\ res[r].queue # <<>> /\ UNCHANGED <<cdn, time>>
  BY DEF Npm!getMany, Npm!At
<1>2. /\ NpmTypes /\ ResolutionFits(res[r]) /\ rows \in [Urls -> CacheRows] /\ memo \in [Isolates -> [Urls -> 0 .. MaxVersion]]
      /\ res \in [Calls -> ResolutionStates] /\ cdn \in [Urls -> Npm!Versions] /\ time \in 0 .. MaxTime
  BY Found DEF NpmInv, NpmTypes
<1>3. PICK u \in Urls : u = Head(res[r].queue) /\ u \notin Npm!Held(res[r].graph)
  BY <1>1, <1>2, Found, QueuedTail DEF ResolutionFits
<1>4. res[r].isolate \in Isolates /\ Cardinality(Npm!Held(res[r].graph)) < MaxModules
  BY <1>1, <1>2 DEF ResolutionFits
<1>5. PICK entry \in CacheRows : entry = rows[u]
  BY <1>2
<1>6. CASE entry.ver # 0 /\ ~Npm!Expired(entry)
  <2>1. PICK ver \in 1 .. MaxVersion : ver = entry.ver
    BY <1>6, NpmNumbers DEF CacheRows
  <2>2. PICK now \in CacheRows : now = [entry EXCEPT !.used = time] /\ now.ver = entry.ver
    <3>1. \A x \in CacheRows : [x EXCEPT !.used = time] \in CacheRows /\ [x EXCEPT !.used = time].ver = x.ver
      BY <1>2 DEF CacheRows
    <3>2. QED  BY <3>1
  <2>3. PICK q : q = Npm!Loaded(r, ver, FALSE)
    OBVIOUS
  <2>4. q \in ResolutionStates /\ ResolutionFits(q)
    BY <1>1, <1>2, <1>3, <1>4, <2>3, LoadedFits
  <2>5. rows' = [rows EXCEPT ![u] = now] /\ res' = [res EXCEPT ![r] = q] /\ memo' = Npm!memoize(res[r].isolate, u, ver)
    BY <1>3, <1>5, <1>6, <2>1, <2>2, <2>3 DEF Npm!getMany, Npm!Url
  <2>6. memo' \in [Isolates -> [Urls -> 0 .. MaxVersion]]
    <3>1. ver \in 0 .. MaxVersion
      BY NpmNumbers
    <3>2. QED  BY <1>2, <1>4, <2>5, <3>1, MemoTypes
  <2>7. rows' \in [Urls -> CacheRows] /\ Npm!Weight({v \in Urls : rows'[v].ver # 0}) <= CacheMaxBytes
    <3>1. now.ver = 0 \/ rows[u].ver # 0
      BY <1>5, <1>6
    <3>2. PICK after : after = rows'
      OBVIOUS
    <3>3. after = [rows EXCEPT ![u] = now]
      BY <2>5, <3>2
    <3>4. after \in [Urls -> CacheRows] /\ Npm!Weight({v \in Urls : after[v].ver # 0}) <= CacheMaxBytes
      BY <3>1, <3>3, RowAsked
    <3>5. QED  BY <3>2, <3>4
  <2>8. res' \in [Calls -> ResolutionStates] /\ \A c \in Calls : res'[c] = q \/ res'[c] = res[c]
    BY <1>2, <2>4, <2>5
  <2>9. cdn' \in [Urls -> Npm!Versions] /\ time' \in 0 .. MaxTime
    BY <1>1, <1>2
  <2>10. QED  BY <2>4, <2>6, <2>7, <2>8, <2>9, NpmKeeps
<1>7. CASE ~(entry.ver # 0 /\ ~Npm!Expired(entry))
  <2>1. rows' = [rows EXCEPT ![u] = Npm!NoRow] /\ res' = [res EXCEPT ![r] = [res[r] EXCEPT !.pc = "fetching"]] /\ memo' = memo
    BY <1>2, <1>3, <1>5, <1>7 DEF Npm!getMany, Npm!Url
  <2>2. Npm!NoRow \in CacheRows /\ Npm!NoRow.ver = 0
    BY NpmNumbers DEF Npm!NoRow, CacheRows
  <2>3. PICK a \in ResolutionStates : a = res[r] /\ ResolutionFits(a)
    BY <1>2
  <2>4. PICK b : /\ b = [a EXCEPT !.pc = "fetching"] /\ b.pc = "fetching" /\ b.isolate = a.isolate /\ b.asked = a.asked
                 /\ b.queue = a.queue /\ b.graph = a.graph
    <3>1. \A x \in ResolutionStates : LET b == [x EXCEPT !.pc = "fetching"]
                                     IN  /\ b.pc = "fetching" /\ b.isolate = x.isolate /\ b.asked = x.asked
                                         /\ b.queue = x.queue /\ b.graph = x.graph
      BY DEF ResolutionStates
    <3>2. QED  BY <3>1
  <2>5. b \in ResolutionStates
    BY <2>4 DEF ResolutionStates, ResolutionPcs
  <2>6. ResolutionFits(b)
    BY <1>1, <2>3, <2>4 DEF ResolutionFits
  <2>7. rows' \in [Urls -> CacheRows] /\ Npm!Weight({v \in Urls : rows'[v].ver # 0}) <= CacheMaxBytes
    <3>1. PICK none \in CacheRows : none = Npm!NoRow /\ none.ver = 0
      BY <2>2
    <3>2. PICK after : after = rows'
      OBVIOUS
    <3>3. after = [rows EXCEPT ![u] = none]
      BY <2>1, <3>1, <3>2
    <3>4. after \in [Urls -> CacheRows] /\ Npm!Weight({v \in Urls : after[v].ver # 0}) <= CacheMaxBytes
      BY <3>1, <3>3, RowAsked
    <3>5. QED  BY <3>2, <3>4
  <2>8. res' \in [Calls -> ResolutionStates] /\ \A c \in Calls : res'[c] = b \/ res'[c] = res[c]
    BY <1>2, <2>1, <2>3, <2>4, <2>5
  <2>9. cdn' \in [Urls -> Npm!Versions] /\ time' \in 0 .. MaxTime /\ memo' \in [Isolates -> [Urls -> 0 .. MaxVersion]]
    BY <1>1, <1>2, <2>1
  <2>10. QED  BY <2>6, <2>7, <2>8, <2>9, NpmKeeps
<1>8. QED  BY <1>6, <1>7

(* The CDN answers. *)
LEMMA FetchStep == ASSUME Npm!NpmConstants, NpmInv, NEW r \in Calls, Npm!fetchFromCdn(r) PROVE NpmInv'
<1>1. /\ res[r].pc = "fetching" /\ res[r].queue # <<>> /\ UNCHANGED <<cdn, rows, time>>
  BY DEF Npm!fetchFromCdn, Npm!At
<1>2. NpmTypes /\ ResolutionFits(res[r]) /\ cdn \in [Urls -> Npm!Versions]
  BY Found DEF NpmTypes
<1>3. PICK u \in Urls : u = Head(res[r].queue) /\ u \notin Npm!Held(res[r].graph)
  BY <1>1, <1>2, Found, QueuedTail DEF ResolutionFits
<1>4. res[r].isolate \in Isolates /\ Cardinality(Npm!Held(res[r].graph)) < MaxModules
  BY <1>1, <1>2 DEF ResolutionFits
<1>5. PICK ver \in 1 .. MaxVersion : ver = cdn[u]
  BY <1>2, NpmNumbers
<1>6. PICK q : q = Npm!Loaded(r, ver, TRUE)
  OBVIOUS
<1>7. q \in ResolutionStates /\ ResolutionFits(q)
  BY <1>1, <1>2, <1>3, <1>4, <1>6, LoadedFits
<1>8. res' = [res EXCEPT ![r] = q] /\ memo' = Npm!memoize(res[r].isolate, u, ver)
  BY <1>3, <1>5, <1>6 DEF Npm!fetchFromCdn, Npm!Url
<1>9. memo' \in [Isolates -> [Urls -> 0 .. MaxVersion]]
  <2>1. ver \in 0 .. MaxVersion
    BY NpmNumbers
  <2>2. QED  BY <1>2, <1>4, <1>8, <2>1, MemoTypes
<1>10. QED  BY <1>1, <1>7, <1>8, <1>9, ResolutionKeeps

(* What was downloaded is put into the shared cache, and what it has too much of goes. *)
LEMMA PutManyStep == ASSUME Npm!NpmConstants, NpmInv, NEW r \in Calls, Npm!putMany(r) PROVE NpmInv'
<1>1. res[r].pc = "storing" /\ UNCHANGED <<cdn, memo, time>> /\ res' = [res EXCEPT ![r].pc = "done"]
  BY DEF Npm!putMany
<1>2. /\ cdn \in [Urls -> Npm!Versions] /\ memo \in [Isolates -> [Urls -> 0 .. MaxVersion]] /\ time \in 0 .. MaxTime
      /\ rows \in [Urls -> CacheRows] /\ res \in [Calls -> ResolutionStates]
  BY DEF NpmInv, NpmTypes
<1>3. PICK a \in ResolutionStates : a = res[r] /\ ResolutionFits(a) /\ a.graph \in [Urls -> 0 .. MaxVersion]
  BY Found
<1>4. PICK b \in ResolutionStates : /\ b = [a EXCEPT !.pc = "done"] /\ b.pc = "done" /\ b.isolate = a.isolate
                                    /\ b.asked = a.asked /\ b.queue = a.queue /\ b.graph = a.graph
  <2>1. \A x \in ResolutionStates : LET y == [x EXCEPT !.pc = "done"]
                                   IN  /\ y \in ResolutionStates /\ y.pc = "done" /\ y.isolate = x.isolate /\ y.asked = x.asked
                                       /\ y.queue = x.queue /\ y.graph = x.graph
    BY DEF ResolutionStates, ResolutionPcs
  <2>2. QED  BY <2>1
<1>5. ResolutionFits(b)
  BY <1>1, <1>3, <1>4 DEF ResolutionFits
<1>6. PICK table : table = [u \in Urls |-> IF u \in Npm!Stored(r) THEN [ver |-> a.graph[u], fetched |-> time, used |-> time] ELSE rows[u]]
  OBVIOUS
<1>7. table \in [Urls -> CacheRows] /\ rows' = Npm!evict(table)
  <2>1. \A u \in Urls : [ver |-> a.graph[u], fetched |-> time, used |-> time] \in CacheRows /\ rows[u] \in CacheRows
    BY <1>2, <1>3 DEF CacheRows
  <2>2. QED  BY <1>3, <1>6, <2>1 DEF Npm!putMany
<1>8. rows' \in [Urls -> CacheRows] /\ Npm!Weight({u \in Urls : rows'[u].ver # 0}) <= CacheMaxBytes
  <2>1. MaxTime \in Nat
    BY NpmNumbers
  <2>2. QED  BY <1>7, <2>1, EvictFits
<1>9. res' \in [Calls -> ResolutionStates] /\ \A c \in Calls : res'[c] = b \/ res'[c] = res[c]
  BY <1>1, <1>2, <1>3, <1>4
<1>10. cdn' \in [Urls -> Npm!Versions] /\ time' \in 0 .. MaxTime /\ memo' \in [Isolates -> [Urls -> 0 .. MaxVersion]]
  BY <1>1, <1>2
<1>11. QED  BY <1>5, <1>8, <1>9, <1>10, NpmKeeps

(* The shared cache is emptied. *)
LEMMA ClearStep == ASSUME Npm!NpmConstants, NpmInv, Npm!clear PROVE NpmInv'
<1>1. UNCHANGED <<cdn, memo, time, res>> /\ rows' = [u \in Urls |-> Npm!NoRow]
  BY DEF Npm!clear
<1>2. Npm!NoRow \in CacheRows /\ Npm!NoRow.ver = 0
  BY NpmNumbers DEF Npm!NoRow, CacheRows
<1>3. rows' \in [Urls -> CacheRows] /\ {u \in Urls : rows'[u].ver # 0} = {}
  BY <1>1, <1>2
<1>4. Npm!Weight({u \in Urls : rows'[u].ver # 0}) <= CacheMaxBytes
  <2>1. PICK none : none = {u \in Urls : rows'[u].ver # 0}
    OBVIOUS
  <2>2. Npm!Weight(none) <= CacheMaxBytes
    <3>1. none = {}
      BY <1>3, <2>1
    <3>2. Npm!Weight({}) <= CacheMaxBytes
      BY NothingWeighs, NpmNumbers
    <3>3. QED  BY <3>1, <3>2
  <2>3. QED  BY <2>1, <2>2
<1>5. cdn' \in [Urls -> Npm!Versions] /\ time' \in 0 .. MaxTime /\ memo' \in [Isolates -> [Urls -> 0 .. MaxVersion]]
  BY <1>1 DEF NpmInv, NpmTypes
<1>6. QED  BY <1>1, <1>3, <1>4, <1>5, RowsKeep

(* Time passes, or a URL gets another content. *)
LEMMA SurroundingsStep ==
    ASSUME Npm!NpmConstants, NpmInv, Npm!Tick \/ (\E u \in Urls : Npm!Release(u))
    PROVE  NpmInv'
<1>1. UNCHANGED <<memo, rows, res>>
  BY DEF Npm!Tick, Npm!Release
<1>2. /\ cdn \in [Urls -> Npm!Versions] /\ memo \in [Isolates -> [Urls -> 0 .. MaxVersion]] /\ time \in 0 .. MaxTime
      /\ rows \in [Urls -> CacheRows] /\ Npm!Weight({u \in Urls : rows[u].ver # 0}) <= CacheMaxBytes
  BY DEF NpmInv, NpmTypes, Npm!Cached
<1>3. cdn' \in [Urls -> Npm!Versions]
  <2>1. CASE Npm!Tick
    BY <1>2, <2>1 DEF Npm!Tick
  <2>2. CASE \E u \in Urls : Npm!Release(u)
    <3>1. PICK u \in Urls : cdn[u] < MaxVersion /\ cdn' = [cdn EXCEPT ![u] = cdn[u] + 1]
      BY <2>2 DEF Npm!Release
    <3>2. cdn[u] + 1 \in Npm!Versions
      BY <1>2, <3>1, NpmNumbers
    <3>3. QED  BY <1>2, <3>1, <3>2
  <2>3. QED  BY <2>1, <2>2
<1>4. time' \in 0 .. MaxTime
  BY <1>2, NpmNumbers DEF Npm!Tick, Npm!Release
<1>5. memo' \in [Isolates -> [Urls -> 0 .. MaxVersion]] /\ rows' \in [Urls -> CacheRows]
      /\ Npm!Weight({u \in Urls : rows'[u].ver # 0}) <= CacheMaxBytes
  BY <1>1, <1>2
<1>6. QED  BY <1>1, <1>3, <1>4, <1>5, RowsKeep

(* An isolate is stopped, and its resolutions with it. *)
LEMMA NpmRestartStep == ASSUME Npm!NpmConstants, NpmInv, NEW i \in Isolates, Npm!Restart(i) PROVE NpmInv'
<1>1. /\ UNCHANGED <<cdn, rows, time>> /\ memo' = [memo EXCEPT ![i] = Npm!NoGraph]
      /\ res' = [r \in Calls |-> IF res[r].isolate = i THEN Npm!Idle ELSE res[r]]
  BY DEF Npm!Restart
<1>2. /\ cdn \in [Urls -> Npm!Versions] /\ memo \in [Isolates -> [Urls -> 0 .. MaxVersion]] /\ time \in 0 .. MaxTime
      /\ rows \in [Urls -> CacheRows] /\ Npm!Weight({u \in Urls : rows[u].ver # 0}) <= CacheMaxBytes
      /\ res \in [Calls -> ResolutionStates]
  BY DEF NpmInv, NpmTypes, Npm!Cached
<1>3. 0 \in 0 .. MaxVersion
  BY NpmNumbers
<1>4. Npm!NoGraph \in [Urls -> 0 .. MaxVersion]
  BY <1>3 DEF Npm!NoGraph
<1>5. Npm!Idle \in ResolutionStates /\ ResolutionFits(Npm!Idle)
  BY <1>4 DEF Npm!Idle, ResolutionStates, ResolutionPcs, ResolutionFits
<1>6. res' \in [Calls -> ResolutionStates] /\ \A c \in Calls : res'[c] = Npm!Idle \/ res'[c] = res[c]
  BY <1>1, <1>2, <1>5
<1>7. memo' \in [Isolates -> [Urls -> 0 .. MaxVersion]]
  BY <1>1, <1>2, <1>4
<1>8. /\ cdn' \in [Urls -> Npm!Versions] /\ time' \in 0 .. MaxTime /\ rows' \in [Urls -> CacheRows]
      /\ Npm!Weight({u \in Urls : rows'[u].ver # 0}) <= CacheMaxBytes
  BY <1>1, <1>2
<1>9. QED  BY <1>5, <1>6, <1>7, <1>8, NpmKeeps

(* Every step of a resolution, of the shared cache and of what is around them keeps the invariant. *)
LEMMA NpmStep == ASSUME Npm!NpmConstants, NpmInv, [Npm!Next]_(Npm!vars) PROVE NpmInv'
<1>1. CASE UNCHANGED Npm!vars
  <2>1. UNCHANGED <<cdn, memo, rows, time, res>>
    BY <1>1 DEF Npm!vars
  <2>2. /\ cdn' \in [Urls -> Npm!Versions] /\ memo' \in [Isolates -> [Urls -> 0 .. MaxVersion]] /\ time' \in 0 .. MaxTime
        /\ rows' \in [Urls -> CacheRows] /\ Npm!Weight({u \in Urls : rows'[u].ver # 0}) <= CacheMaxBytes
    BY <2>1 DEF NpmInv, NpmTypes, Npm!Cached
  <2>3. QED  BY <2>1, <2>2, RowsKeep
<1>2. ASSUME NEW r \in Calls,
             \/ \E i \in Isolates, specs \in Specifiers : Npm!Begin(r, i, specs)
             \/ Npm!SkipSeen(r) \/ Npm!TooMany(r) \/ Npm!LoadMemo(r) \/ Npm!LoadElsewhere(r)
             \/ Npm!getMany(r) \/ Npm!fetchFromCdn(r) \/ Npm!FetchFails(r) \/ Npm!QueueEmpty(r) \/ Npm!putMany(r)
      PROVE  NpmInv'
  <2>1. CASE \E i \in Isolates, specs \in Specifiers : Npm!Begin(r, i, specs)
    BY <2>1, BeginStep
  <2>2. CASE Npm!SkipSeen(r) \/ Npm!TooMany(r) \/ Npm!FetchFails(r)
    BY <2>2, SkipSeenStep, FailStep
  <2>3. CASE Npm!LoadMemo(r) \/ Npm!LoadElsewhere(r) \/ Npm!QueueEmpty(r)
    BY <2>3, LoadMemoStep, LoadElsewhereStep, QueueEmptyStep
  <2>4. CASE Npm!getMany(r) \/ Npm!fetchFromCdn(r) \/ Npm!putMany(r)
    BY <2>4, GetManyStep, FetchStep, PutManyStep
  <2>5. QED  BY <1>2, <2>1, <2>2, <2>3, <2>4
<1>3. CASE Npm!clear
  BY <1>3, ClearStep
<1>4. CASE Npm!Tick \/ (\E u \in Urls : Npm!Release(u))
  BY <1>4, SurroundingsStep
<1>5. CASE \E i \in Isolates : Npm!Restart(i)
  BY <1>5, NpmRestartStep
<1>6. QED  BY <1>1, <1>2, <1>3, <1>4, <1>5 DEF Npm!Next

(* The invariant is all that is promised of resolutions. *)
LEMMA NpmServes == ASSUME Npm!NpmConstants, NpmInv PROVE ResolutionSound
<1>1. Npm!TypeOK
  <2>1. \A r \in Calls : /\ res[r].pc \in ResolutionPcs /\ res[r].queue \in Seq(Urls) /\ res[r].graph \in [Urls -> 0 .. MaxVersion]
                         /\ res[r].fetched \subseteq Urls /\ res[r].asked \subseteq Urls
    BY DEF NpmInv, NpmTypes, ResolutionStates
  <2>2. QED  BY <2>1 DEF NpmInv, NpmTypes, Npm!TypeOK, ResolutionPcs, CacheRows
<1>2. Npm!GraphClosed
  <2>1. SUFFICES ASSUME NEW r \in Calls, res[r].pc = "done"
                 PROVE  /\ res[r].asked \subseteq Npm!Held(res[r].graph)
                        /\ \A u \in Npm!Held(res[r].graph) : \A k \in DOMAIN Imports[u][res[r].graph[u]] :
                              Imports[u][res[r].graph[u]][k] \in Npm!Held(res[r].graph)
                        /\ Npm!Cardinality(Npm!Held(res[r].graph)) <= MaxModules
                        /\ Npm!Weight(Npm!Held(res[r].graph)) <= MaxTotalBytes
    BY DEF Npm!GraphClosed, Npm!Seen
  <2>2. PICK q \in ResolutionStates : q = res[r] /\ ResolutionFits(q) /\ q.queue = <<>> /\ q.graph \in [Urls -> 0 .. MaxVersion]
    BY <2>1, Found DEF ResolutionFits
  <2>3. Queued(q.queue) = {}
    BY <2>2, EmptySeq DEF Queued
  <2>4. /\ q.asked \subseteq Npm!Held(q.graph) /\ ImportsKnown(q.graph, Npm!Held(q.graph))
        /\ Cardinality(Npm!Held(q.graph)) <= MaxModules /\ Npm!Weight(Npm!Held(q.graph)) <= MaxTotalBytes
    BY <2>1, <2>2, <2>3 DEF ResolutionFits
  <2>5. ASSUME NEW u \in Npm!Held(q.graph)
        PROVE  \A k \in DOMAIN Imports[u][q.graph[u]] : Imports[u][q.graph[u]][k] \in Npm!Held(q.graph)
    <3>1. u \in Urls /\ q.graph[u] \in 1 .. MaxVersion
      BY <2>2, NpmNumbers DEF Npm!Held
    <3>2. PICK s \in Seq(Urls) : s = Imports[u][q.graph[u]]
      BY <3>1, NpmNumbers
    <3>3. \A k \in 1 .. Len(s) : s[k] \in Npm!Held(q.graph)
      BY <2>4, <2>5, <3>2 DEF ImportsKnown
    <3>4. DOMAIN s = 1 .. Len(s)
      OBVIOUS
    <3>5. QED  BY <3>2, <3>3, <3>4
  <2>6. Npm!Cardinality(Npm!Held(q.graph)) = Cardinality(Npm!Held(q.graph))
    BY SameCount
  <2>7. QED  BY <2>2, <2>4, <2>5, <2>6
<1>3. QED  BY <1>1, <1>2 DEF NpmInv, ResolutionSound, Npm!ResolutionSound, Npm!CacheWithinBytes

(***************************************************************************)
(* A resolution that is done has what was asked for and all that it        *)
(* imports, within its limits, and the shared cache keeps its size, in     *)
(* whatever order resolutions, releases and restarts come                  *)
(* (execute/npm-resolver.ts, npm-cache-cell.ts).                           *)
(***************************************************************************)
THEOREM ResolutionsSound == ASSUME Npm!NpmConstants PROVE Npm!Spec => []ResolutionSound
<1>1. Npm!Init => NpmInv
  BY NpmStart
<1>2. NpmInv /\ [Npm!Next]_(Npm!vars) => NpmInv'
  BY NpmStep
<1>3. NpmInv => ResolutionSound
  BY NpmServes
<1>4. QED  BY <1>1, <1>2, <1>3, PTL DEF Npm!Spec
=============================================================================
