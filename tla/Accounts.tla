------------------------------ MODULE Accounts ------------------------------
(***************************************************************************)
(* Accounts and browser sessions: the first account (/setup), passwords    *)
(* with the lockout, one-time links, sessions, and the hand-off of a       *)
(* session to the origin of package apps.  AccountStore keeps the tables   *)
(* in the registry cell; web/signin.ts, web/account.ts and apps/origin.ts  *)
(* call it.  A step is what happens between two awaits of the cell (it     *)
(* hashes) or between two calls of the cell by the Worker.                 *)
(***************************************************************************)
EXTENDS Integers, FiniteSets

CONSTANTS Emails,        \* addresses of accounts
          Passwords,     \* passwords users choose or type
          Calls,         \* HTTP requests under way
          None,
          MaxFailures,   \* signinMaxFailures
          MaxLinks,      \* bound: one-time links issued
          MaxSessions,   \* bound: sessions started
          MaxHandoffs    \* bound: hand-offs minted

VARIABLES users,        \* users: the addresses with an account
          password,     \* credentials: the password behind each hash
          weak,         \* addresses whose hash has an old work factor
          failures,     \* signin_attempts.failures
          locked,       \* signin_attempts.locked_until, in the future
          links,        \* signin_tokens
          lastLink,
          sessions,     \* sessions: the address of each, None when gone
          lastSession,
          handoffs,     \* the hand-off tokens minted
          lastHandoff,
          burned,       \* app_handoffs
          cookie,       \* the browser's kody_app_state: a hand-off may be bound to it
          apps,         \* the browser's kody_app_session cookies: their parent sessions
          calls,
          origin,       \* history: the link each session came from
          tally,        \* history: wrong passwords in a row for each address, from the last overlap on
          overlapped,   \* history: addresses of which two passwords were verified at once, until one is again alone
          uses,         \* history: app sessions each hand-off gave
          late          \* history: hand-offs used after they had expired

\* What a deployment may be: some wrong password locks, and the bounds are numbers.
AccountsConstants ==
    /\ MaxFailures \in Nat \ {0}
    /\ MaxLinks \in Nat /\ MaxSessions \in Nat /\ MaxHandoffs \in Nat

vars == <<users, password, weak, failures, locked, links, lastLink, sessions, lastSession,
          handoffs, lastHandoff, burned, cookie, apps, calls, origin, tally, overlapped, uses, late>>
secrets == <<password, weak>>
attempts == <<failures, locked, tally, overlapped>>
linkVars == <<links, lastLink>>
sessionVars == <<sessions, lastSession, origin>>
appVars == <<handoffs, lastHandoff, burned, cookie, apps, uses, late>>

Links == 1..MaxLinks
Sessions == 1..MaxSessions
Handoffs == 1..MaxHandoffs

Free == [pc |-> "idle", email |-> None, typed |-> None, chosen |-> None, seen |-> 0, hash |-> None, weak |-> FALSE,
         via |-> None, num |-> 0]
NoLink == [email |-> None, kind |-> "magic", state |-> "absent"]
NoHandoff == [session |-> 0, expired |-> FALSE]

Idle(r) == calls[r].pc = "idle"
Ends(r) == calls' = [calls EXCEPT ![r] = Free]
Goes(r, pc) == calls' = [calls EXCEPT ![r].pc = pc]
Hashing(e) == {r \in Calls : calls[r].pc = "hashing" /\ calls[r].email = e}

----------------------------------------------------------------------------
(* The first account *)

\* The page is open while there is no user; the form carries the admin token.
SetupBegin(r, e, p) ==
    /\ Idle(r) /\ users = {}
    /\ calls' = [calls EXCEPT ![r] = [Free EXCEPT !.pc = "setup", !.email = e, !.chosen = p, !.via = "setup"]]
    /\ UNCHANGED <<users, secrets, attempts, linkVars, sessionVars, appVars>>

SetupRecheck(r) ==
    /\ calls[r].pc = "setup"
    /\ IF users # {} THEN Ends(r) ELSE Goes(r, "creating")
    /\ UNCHANGED <<users, secrets, attempts, linkVars, sessionVars, appVars>>

\* createUser; the password is hashed and set next.
SetupCreate(r) ==
    /\ calls[r].pc = "creating"
    /\ users' = users \cup {calls[r].email}
    /\ Goes(r, "setting")
    /\ UNCHANGED <<secrets, attempts, linkVars, sessionVars, appVars>>

\* The operator creates an account or finds it.
ensureUser(e) ==
    /\ users # {} /\ e \notin users
    /\ users' = users \cup {e}
    /\ UNCHANGED <<secrets, attempts, linkVars, sessionVars, appVars, calls>>

----------------------------------------------------------------------------
(* Passwords *)

\* passwordVerify up to the hashing: the attempts and the hash are read.
Verify(r, e, p, c, via) ==
    /\ Idle(r) /\ ~locked[e]
    /\ calls' = [calls EXCEPT ![r] = [Free EXCEPT !.pc = "hashing", !.email = e, !.typed = p, !.chosen = c, !.via = via,
                    !.seen = failures[e], !.hash = password[e], !.weak = e \in weak]]
    /\ overlapped' = IF Hashing(e) # {} THEN overlapped \cup {e} ELSE overlapped \ {e}
    /\ tally' = IF e \in overlapped THEN [tally EXCEPT ![e] = 0] ELSE tally
    /\ UNCHANGED <<users, secrets, failures, locked, linkVars, sessionVars, appVars>>

PasswordSignin(r, e, p) == e \in users /\ Verify(r, e, p, None, "signin")

\* The account page: with a password set the current one is verified first.
PasswordChange(r, e, p, c) ==
    /\ \E s \in Sessions : sessions[s] = e
    /\ \/ password[e] # None /\ Verify(r, e, p, c, "change")
       \/ /\ password[e] = None /\ Idle(r)
          /\ calls' = [calls EXCEPT ![r] = [Free EXCEPT !.pc = "setting", !.email = e, !.chosen = c, !.via = "change"]]
          /\ UNCHANGED <<users, secrets, attempts, linkVars, sessionVars, appVars>>

Right(q) == q.hash # None /\ q.typed = q.hash

\* Mutant: one failure more before the lock.
LocksLate(n) == n > MaxFailures

Locks(n) == n >= MaxFailures

\* The count read before the hashing is raised.
PasswordWrong(r) ==
    LET q == calls[r]
        n == q.seen + 1
    IN  /\ q.pc = "hashing" /\ ~Right(q)
        /\ failures' = [failures EXCEPT ![q.email] = IF Locks(n) THEN 0 ELSE n]
        /\ locked' = [locked EXCEPT ![q.email] = Locks(n)]
        /\ tally' = [tally EXCEPT ![q.email] = IF @ < MaxFailures THEN @ + 1 ELSE @]
        /\ Ends(r)
        /\ UNCHANGED <<users, secrets, overlapped, linkVars, sessionVars, appVars>>

AfterVerify(q) == IF q.chosen = None THEN "starting" ELSE "setting"

PasswordRight(r) ==
    LET q == calls[r]
    IN  /\ q.pc = "hashing" /\ Right(q)
        /\ failures' = [failures EXCEPT ![q.email] = 0]
        /\ locked' = [locked EXCEPT ![q.email] = FALSE]
        /\ tally' = [tally EXCEPT ![q.email] = 0]
        /\ Goes(r, IF q.weak THEN "rehashing" ELSE AfterVerify(q))
        /\ UNCHANGED <<users, secrets, overlapped, linkVars, sessionVars, appVars>>

\* The hash had an old work factor: the password typed is stored again.
Rehash(r) ==
    LET q == calls[r]
    IN  /\ q.pc = "rehashing"
        /\ password' = [password EXCEPT ![q.email] = q.typed]
        /\ weak' = weak \ {q.email}
        /\ Goes(r, AfterVerify(q))
        /\ UNCHANGED <<users, attempts, linkVars, sessionVars, appVars>>

\* passwordSet: hashed, then written.
passwordSet(r) ==
    LET q == calls[r]
    IN  /\ q.pc = "setting"
        /\ password' = [password EXCEPT ![q.email] = q.chosen]
        /\ weak' = weak \ {q.email}
        /\ IF q.via = "change" THEN Ends(r) ELSE Goes(r, "starting")
        /\ UNCHANGED <<users, attempts, linkVars, sessionVars, appVars>>

LockEnds(e) ==
    /\ locked[e]
    /\ locked' = [locked EXCEPT ![e] = FALSE]
    /\ tally' = [tally EXCEPT ![e] = 0]
    /\ UNCHANGED <<users, secrets, failures, overlapped, linkVars, sessionVars, appVars, calls>>

----------------------------------------------------------------------------
(* One-time links *)

purgedLinks == [n \in Links |-> IF links[n].state = "expired" THEN NoLink ELSE links[n]]

\* A magic link is mailed, an invitation or a reset handed over by the operator.
issueSigninLink(e, kind) ==
    /\ e \in users /\ lastLink < MaxLinks
    /\ lastLink' = lastLink + 1
    /\ links' = [purgedLinks EXCEPT ![lastLink + 1] = [email |-> e, kind |-> kind, state |-> "live"]]
    /\ UNCHANGED <<users, secrets, attempts, sessionVars, appVars, calls>>

\* The page looks at the token; a reset comes with the new password.
LinkOpen(r, n, c) ==
    /\ Idle(r) /\ links[n].state = "live"
    /\ calls' = [calls EXCEPT ![r] = [Free EXCEPT !.pc = "peeking", !.num = n, !.email = links[n].email, !.via = links[n].kind,
                                      !.chosen = IF links[n].kind = "magic" THEN None ELSE c]]
    /\ UNCHANGED <<users, secrets, attempts, linkVars, sessionVars, appVars>>

\* signinTokenConsume peeks again, hashes, and deletes.
LinkPeek(r) ==
    /\ calls[r].pc = "peeking"
    /\ IF links[calls[r].num].state = "live" THEN Goes(r, "burning") ELSE Ends(r)
    /\ UNCHANGED <<users, secrets, attempts, linkVars, sessionVars, appVars>>

\* Mutant: it is not asked whether the row was still there.
LinkBurnUnasked(r) ==
    LET q == calls[r]
    IN  /\ q.pc = "burning"
        /\ links' = [links EXCEPT ![q.num] = NoLink]
        /\ Goes(r, AfterVerify(q))
        /\ UNCHANGED <<users, secrets, attempts, lastLink, sessionVars, appVars>>

LinkBurn(r) ==
    LET q == calls[r]
    IN  /\ q.pc = "burning"
        /\ links' = [links EXCEPT ![q.num] = NoLink]
        /\ IF links[q.num].state = "absent" THEN Ends(r) ELSE Goes(r, AfterVerify(q))
        /\ UNCHANGED <<users, secrets, attempts, lastLink, sessionVars, appVars>>

LinkExpires(n) ==
    /\ links[n].state = "live"
    /\ links' = [links EXCEPT ![n].state = "expired"]
    /\ UNCHANGED <<users, secrets, attempts, lastLink, sessionVars, appVars, calls>>

----------------------------------------------------------------------------
(* Sessions *)

\* finishSignin: sessionCreate, and the cookie.
finishSignin(r) ==
    LET q == calls[r]
    IN  /\ q.pc = "starting" /\ lastSession < MaxSessions
        /\ lastSession' = lastSession + 1
        /\ sessions' = [sessions EXCEPT ![lastSession + 1] = q.email]
        /\ origin' = [origin EXCEPT ![lastSession + 1] = q.num]
        /\ links' = purgedLinks
        /\ Ends(r)
        /\ UNCHANGED <<users, secrets, attempts, lastLink, appVars>>

\* Signed out, revoked on the account page or by the operator, or expired.
SessionsEnd(S) ==
    /\ S # {}
    /\ sessions' = [s \in Sessions |-> IF s \in S THEN None ELSE sessions[s]]
    /\ UNCHANGED <<users, secrets, attempts, linkVars, lastSession, origin, appVars, calls>>

handleSignout(s) == sessions[s] # None /\ SessionsEnd({s})
revokeSessions(e) == SessionsEnd({s \in Sessions : sessions[s] = e})

\* The others: those listed at one time are revoked one by one.
RevokeOthersList(r, s) ==
    /\ Idle(r) /\ sessions[s] # None
    /\ calls' = [calls EXCEPT ![r] = [Free EXCEPT !.pc = "revoking", !.email = sessions[s], !.num = s, !.seen = lastSession]]
    /\ UNCHANGED <<users, secrets, attempts, linkVars, sessionVars, appVars>>

RevokeOther(r) ==
    LET q == calls[r]
        left == {t \in 1..q.seen \ {q.num} : sessions[t] = q.email}
    IN  /\ q.pc = "revoking"
        /\ \/ left = {} /\ Ends(r) /\ UNCHANGED sessions
           \/ \E t \in left : sessions' = [sessions EXCEPT ![t] = None] /\ UNCHANGED calls
        /\ UNCHANGED <<users, secrets, attempts, linkVars, lastSession, origin, appVars>>

----------------------------------------------------------------------------
(* Package apps *)

\* A plain visit without a session there sets the state cookie and goes to /apps/open.
AppVisit ==
    /\ cookie = 0 /\ \A s \in apps : sessions[s] = None
    /\ lastHandoff < MaxHandoffs
    /\ cookie' = lastHandoff + 1
    /\ UNCHANGED <<users, secrets, attempts, linkVars, sessionVars, handoffs, lastHandoff, burned, apps, uses, late, calls>>

\* /apps/open mints a hand-off for the session, bound to the state.
handleAppsOpen(s) ==
    /\ sessions[s] # None /\ cookie = lastHandoff + 1
    /\ lastHandoff' = cookie
    /\ handoffs' = [handoffs EXCEPT ![cookie] = [session |-> s, expired |-> FALSE]]
    /\ UNCHANGED <<users, secrets, attempts, linkVars, sessionVars, burned, cookie, apps, uses, late, calls>>

\* The app origin gets the hand-off with the state cookie; the time is read here.
HandoffArrives(r, h) ==
    /\ Idle(r) /\ h = cookie /\ h <= lastHandoff /\ ~handoffs[h].expired
    /\ calls' = [calls EXCEPT ![r] = [Free EXCEPT !.pc = "burningHandoff", !.num = h]]
    /\ UNCHANGED <<users, secrets, attempts, linkVars, sessionVars, appVars>>

\* appHandoffBurn: rows past their time go, then the row must be new.
Burns(h) == h \notin burned \/ handoffs[h].expired

consumeHandoff(r) ==
    LET h == calls[r].num
        gone == {x \in burned : handoffs[x].expired}
    IN  /\ calls[r].pc = "burningHandoff"
        /\ burned' = (burned \ gone) \cup {h}
        /\ IF Burns(h)
           THEN /\ apps' = apps \cup {handoffs[h].session}
                /\ cookie' = 0
                /\ uses' = [uses EXCEPT ![h] = @ + 1]
                /\ late' = IF handoffs[h].expired THEN late \cup {h} ELSE late
           ELSE UNCHANGED <<apps, cookie, uses, late>>
        /\ Ends(r)
        /\ UNCHANGED <<users, secrets, attempts, linkVars, sessionVars, handoffs, lastHandoff>>

HandoffExpires(h) ==
    /\ h <= lastHandoff /\ ~handoffs[h].expired
    /\ handoffs' = [handoffs EXCEPT ![h].expired = TRUE]
    /\ UNCHANGED <<users, secrets, attempts, linkVars, sessionVars, lastHandoff, burned, cookie, apps, uses, late, calls>>

----------------------------------------------------------------------------
\* A new installation, or an account whose password an earlier version hashed.
Init ==
    /\ \/ users = {} /\ password = [e \in Emails |-> None] /\ weak = {}
       \/ \E e \in Emails, p \in Passwords :
             users = {e} /\ password = [f \in Emails |-> IF f = e THEN p ELSE None] /\ weak = {e}
    /\ failures = [e \in Emails |-> 0] /\ locked = [e \in Emails |-> FALSE]
    /\ links = [n \in Links |-> NoLink] /\ lastLink = 0
    /\ sessions = [s \in Sessions |-> None] /\ lastSession = 0
    /\ handoffs = [h \in Handoffs |-> NoHandoff] /\ lastHandoff = 0
    /\ burned = {} /\ cookie = 0 /\ apps = {}
    /\ calls = [r \in Calls |-> Free]
    /\ origin = [s \in Sessions |-> 0]
    /\ tally = [e \in Emails |-> 0] /\ overlapped = {}
    /\ uses = [h \in Handoffs |-> 0] /\ late = {}

Setup(r) == (\E e \in Emails, p \in Passwords : SetupBegin(r, e, p)) \/ SetupRecheck(r) \/ SetupCreate(r)

Password(r) ==
    \/ \E e \in Emails, p \in Passwords : PasswordSignin(r, e, p) \/ \E c \in Passwords : PasswordChange(r, e, p, c)
    \/ PasswordWrong(r) \/ PasswordRight(r) \/ Rehash(r) \/ passwordSet(r)

handleLink(r) ==
    (\E n \in Links, c \in Passwords : LinkOpen(r, n, c)) \/ LinkPeek(r) \/ LinkBurn(r)

Next ==
    \/ \E r \in Calls : Setup(r) \/ Password(r) \/ handleLink(r) \/ finishSignin(r) \/ consumeHandoff(r)
    \/ \E r \in Calls, h \in Handoffs : HandoffArrives(r, h)
    \/ \E e \in Emails : ensureUser(e) \/ LockEnds(e) \/ revokeSessions(e) \/ \E k \in {"magic", "reset"} : issueSigninLink(e, k)
    \/ \E n \in Links : LinkExpires(n)
    \/ \E r \in Calls : RevokeOther(r) \/ \E s \in Sessions : RevokeOthersList(r, s)
    \/ \E s \in Sessions : handleSignout(s) \/ handleAppsOpen(s)
    \/ AppVisit \/ \E h \in Handoffs : HandoffExpires(h)

Spec == Init /\ [][Next]_vars

----------------------------------------------------------------------------
(***************************************************************************)
(* web/signin.ts:166, "the link is single-use": two sessions never come    *)
(* from the same link, however many requests open it at once.              *)
(***************************************************************************)
LinkOnce == \A s, t \in Sessions : s # t /\ origin[s] # 0 => origin[s] # origin[t]

(***************************************************************************)
(* docs/operations.md:217, "5 failed passwords": after that many wrong     *)
(* passwords in a row, each verified alone, the address is locked.  Those  *)
(* verified at once do not count, as the code reads its count before the   *)
(* hashing and writes it after; but whatever count and lock an overlap     *)
(* left behind, wrong passwords one after another lock the address again.  *)
(***************************************************************************)
LockHolds == \A e \in Emails \ overlapped : tally[e] >= MaxFailures => locked[e]

(***************************************************************************)
(* apps/tokens.ts:2, "single-use token": a hand-off gives one app session, *)
(* unless its use was delayed past its expiry, when its row is purged.     *)
(***************************************************************************)
HandoffOnce == \A h \in Handoffs \ late : uses[h] <= 1

(***************************************************************************)
(* web/signin.ts:240, "two racing setups must not both succeed": /setup    *)
(* creates an account only while there is none.                            *)
(***************************************************************************)
OneSetup ==
    [][\A r \in Calls : calls[r].pc = "creating" /\ calls'[r].pc = "setting" => users \subseteq {calls[r].email}]_vars

(***************************************************************************)
(* Whatever a browser is given to use once is: a sign-in link, a hand-off  *)
(* to an app, however many requests present it at once                     *)
(* (auth/account-store.ts signinTokenConsume, appHandoffBurn).             *)
(***************************************************************************)
SingleUse == LinkOnce /\ HandoffOnce
=============================================================================
