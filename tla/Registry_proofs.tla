-------------------------- MODULE Registry_proofs --------------------------
(***************************************************************************)
(* Proofs about modules Accounts and Email, two parts of the registry      *)
(* cell that share no table, for any addresses, passwords, inboxes,        *)
(* messages and requests at once, and any bounds.                          *)
(***************************************************************************)
EXTENDS Registry, Sequences, FiniteSetTheorems, TLAPS

----------------------------------------------------------------------------
(* Accounts: types, and what a call knows at its stage *)

PCs == {"idle", "setup", "creating", "setting", "hashing", "rehashing", "starting", "peeking", "burning", "revoking",
        "burningHandoff"}
CallRows == [pc : PCs, email : Emails \cup {None}, typed : Passwords \cup {None}, chosen : Passwords \cup {None}, seen : Nat,
             hash : Passwords \cup {None}, weak : BOOLEAN, via : {None, "setup", "signin", "change", "magic", "reset"}, num : Nat]
LinkRows == [email : Emails \cup {None}, kind : {"magic", "reset"}, state : {"absent", "live", "expired"}]
HandoffRows == [session : 0..MaxSessions, expired : BOOLEAN]

AccountTypes ==
    /\ users \subseteq Emails
    /\ password \in [Emails -> Passwords \cup {None}] /\ weak \subseteq Emails
    /\ failures \in [Emails -> Nat] /\ locked \in [Emails -> BOOLEAN]
    /\ links \in [A!Links -> LinkRows] /\ lastLink \in 0..MaxLinks
    /\ sessions \in [A!Sessions -> Emails \cup {None}] /\ lastSession \in 0..MaxSessions
    /\ handoffs \in [A!Handoffs -> HandoffRows] /\ lastHandoff \in 0..MaxHandoffs
    /\ burned \subseteq A!Handoffs /\ cookie \in 0..MaxHandoffs /\ apps \subseteq 0..MaxSessions
    /\ calls \in [Calls -> CallRows]
    /\ origin \in [A!Sessions -> 0..MaxLinks]
    /\ tally \in [Emails -> Nat] /\ overlapped \subseteq Emails
    /\ uses \in [A!Handoffs -> Nat] /\ late \subseteq A!Handoffs

CallFits(q) ==
    /\ q.pc \in {"setup", "creating", "hashing"} => q.email \in Emails
    /\ q.pc \in {"setup", "creating", "hashing", "rehashing"} => q.num = 0
    /\ q.pc \in {"setting", "starting"} => q.num \in 0..lastLink
    /\ q.pc \in {"peeking", "burning"} => q.num \in 1..lastLink
    /\ q.pc = "burningHandoff" => q.num \in 1..lastHandoff

AccountInv ==
    /\ AccountTypes
    /\ \A r \in Calls : CallFits(calls[r])
    /\ \A n \in A!Links : n > lastLink => links[n].state = "absent"

(* A call that takes its next step is a call. *)
LEMMA CallRow ==
    ASSUME NEW q \in CallRows
    PROVE  /\ \A pc \in PCs : [q EXCEPT !.pc = pc] \in CallRows
           /\ A!Free \in CallRows
  BY DEF CallRows, A!Free, PCs

(* A link that expires is a link. *)
LEMMA LinkRow == A!NoLink \in LinkRows /\ \A l \in LinkRows : [l EXCEPT !.state = "expired"] \in LinkRows
  BY DEF A!NoLink, LinkRows

(* signinTokensPurge drops the expired links and no other. *)
LEMMA PurgedLinks ==
    ASSUME links \in [A!Links -> LinkRows]
    PROVE  /\ A!purgedLinks \in [A!Links -> LinkRows]
           /\ \A n \in A!Links : A!purgedLinks[n] = IF links[n].state = "expired" THEN A!NoLink ELSE links[n]
  BY LinkRow DEF A!purgedLinks

\* A step of one call leaves the others as they are.
LEMMA OneCall ==
    ASSUME calls \in [Calls -> CallRows], NEW r \in Calls, NEW q \in CallRows, calls' = [calls EXCEPT ![r] = q]
    PROVE  calls' \in [Calls -> CallRows] /\ calls'[r] = q /\ \A t \in Calls \ {r} : calls'[t] = calls[t]
  OBVIOUS

(* A call moves on and keeps what it knows. *)
LEMMA CallGoes ==
    ASSUME calls \in [Calls -> CallRows], NEW r \in Calls, NEW pc \in PCs, A!Goes(r, pc)
    PROVE  /\ calls' \in [Calls -> CallRows]
           /\ calls'[r].pc = pc /\ calls'[r].num = calls[r].num /\ calls'[r].email = calls[r].email /\ calls'[r].seen = calls[r].seen
           /\ \A t \in Calls \ {r} : calls'[t] = calls[t]
<1>1. calls[r] \in CallRows
  OBVIOUS
<1>2. calls' \in [Calls -> CallRows]
  BY <1>1, CallRow DEF A!Goes
<1>3. QED  BY <1>1, <1>2 DEF A!Goes, CallRows

(* A call that has ended knows nothing. *)
LEMMA CallEnds ==
    ASSUME calls \in [Calls -> CallRows], NEW r \in Calls, A!Ends(r)
    PROVE  calls' \in [Calls -> CallRows] /\ calls'[r] = A!Free /\ \A t \in Calls \ {r} : calls'[t] = calls[t]
<1>1. A!Free \in CallRows
  BY DEF CallRows, A!Free, PCs
<1>2. QED  BY <1>1 DEF A!Ends

(* The tables begin with their types. *)
LEMMA AccountInit == ASSUME A!AccountsConstants, A!Init PROVE AccountInv
  BY DEF A!AccountsConstants, A!Init, AccountInv, AccountTypes, CallRows, LinkRows, HandoffRows, PCs, CallFits, A!Free, A!NoLink, A!NoHandoff,
     A!Links, A!Sessions, A!Handoffs

(* Every handler of accounts and sessions keeps the types of the tables and what a call knows at its stage. *)
LEMMA AccountStep == ASSUME A!AccountsConstants, AccountInv, A!Next PROVE AccountInv'
<1> USE DEF A!AccountsConstants, AccountInv, CallFits, A!secrets, A!attempts, A!linkVars, A!sessionVars, A!appVars
<1>1. ASSUME NEW r \in Calls, A!Setup(r) PROVE AccountInv'
  <2>1. ASSUME NEW e \in Emails, NEW p \in Passwords, A!SetupBegin(r, e, p) PROVE AccountInv'
    <3> DEFINE q == [A!Free EXCEPT !.pc = "setup", !.email = e, !.chosen = p, !.via = "setup"]
    <3>1. q \in CallRows /\ q.pc = "setup" /\ q.email = e /\ q.num = 0
      BY <2>1 DEF A!Free, CallRows, PCs, AccountTypes, A!Links, LinkRows, A!Sessions, A!Handoffs
    <3> HIDE DEF q
    <3>2. calls' = [calls EXCEPT ![r] = q]
      BY <2>1 DEF A!SetupBegin, q
    <3>3. AccountTypes'
      BY <2>1, <3>1, <3>2, OneCall DEF A!SetupBegin, AccountTypes
    <3>4. QED  BY <2>1, <3>3, <3>1, <3>2, OneCall DEF A!SetupBegin, AccountTypes, A!Free
  <2>2. CASE A!SetupRecheck(r)
    <3>1. AccountTypes'
      BY <2>2, CallGoes, CallEnds DEF A!SetupRecheck, PCs, AccountTypes
    <3>2. QED  BY <2>2, <3>1, CallGoes, CallEnds DEF A!SetupRecheck, PCs, AccountTypes, A!Free
  <2>3. CASE A!SetupCreate(r)
    <3>1. AccountTypes'
      BY <2>3, CallGoes, CallEnds DEF A!SetupCreate, PCs, AccountTypes
    <3>2. QED  BY <2>3, <3>1, CallGoes, CallEnds DEF A!SetupCreate, PCs, AccountTypes, A!Free
  <2>4. QED  BY <1>1, <2>1, <2>2, <2>3 DEF A!Setup
<1>2. ASSUME NEW r \in Calls, A!Password(r) PROVE AccountInv'
  <2>1. ASSUME NEW e \in Emails, NEW p \in Passwords, NEW c \in Passwords \cup {None}, NEW via \in {"signin", "change"},
               A!Verify(r, e, p, c, via)
        PROVE  AccountInv'
    <3> DEFINE q == [A!Free EXCEPT !.pc = "hashing", !.email = e, !.typed = p, !.chosen = c, !.via = via,
                      !.seen = failures[e], !.hash = password[e], !.weak = e \in weak]
    <3>1. q \in CallRows /\ q.pc = "hashing" /\ q.num = 0 /\ q.email = e
      <4> DEFINE old == e \in weak
      <4>1. old \in BOOLEAN /\ failures[e] \in Nat /\ password[e] \in Passwords \cup {None}
        BY DEF AccountTypes
      <4> HIDE DEF old
      <4>2. [A!Free EXCEPT !.pc = "hashing", !.email = e, !.typed = p, !.chosen = c, !.via = via,
                      !.seen = failures[e], !.hash = password[e], !.weak = old] \in CallRows
        BY <4>1 DEF A!Free, CallRows, PCs
      <4>3. QED  BY <4>2 DEF old, A!Free
    <3> HIDE DEF q
    <3>2. calls' = [calls EXCEPT ![r] = q]
      BY <2>1 DEF A!Verify, q
    <3>3. AccountTypes'
      BY <2>1, <3>1, <3>2, OneCall DEF A!Verify, AccountTypes
    <3>4. QED  BY <2>1, <3>3, <3>1, <3>2, OneCall DEF A!Verify, AccountTypes, A!Free
  <2>2. ASSUME NEW e \in Emails, NEW c \in Passwords,
               calls' = [calls EXCEPT ![r] = [A!Free EXCEPT !.pc = "setting", !.email = e, !.chosen = c, !.via = "change"]],
               UNCHANGED <<users, A!secrets, A!attempts, A!linkVars, A!sessionVars, A!appVars>>
        PROVE  AccountInv'
    <3> DEFINE q == [A!Free EXCEPT !.pc = "setting", !.email = e, !.chosen = c, !.via = "change"]
    <3>1. q \in CallRows /\ q.pc = "setting" /\ q.num = 0
      BY <2>2 DEF A!Free, CallRows, PCs, AccountTypes, A!Links, LinkRows, A!Sessions, A!Handoffs
    <3> HIDE DEF q
    <3>2. calls' = [calls EXCEPT ![r] = q]
      BY <2>2 DEF A!Free, q
    <3>3. AccountTypes'
      BY <2>2, <3>1, <3>2, OneCall DEF A!Free, AccountTypes
    <3>4. QED  BY <2>2, <3>3, <3>1, <3>2, OneCall DEF A!Free, AccountTypes, A!Free
  <2>3. CASE A!PasswordWrong(r)
    <3>1. AccountTypes'
      <4>1. calls[r].seen \in Nat /\ calls[r].email \in Emails
        BY <2>3 DEF A!PasswordWrong, AccountTypes, CallRows
      <4>2. failures' \in [Emails -> Nat]
        BY <2>3, <4>1 DEF A!PasswordWrong, AccountTypes
      <4>3. locked' \in [Emails -> BOOLEAN]
        <5>1. \/ locked' = [locked EXCEPT ![calls[r].email] = TRUE]
              \/ locked' = [locked EXCEPT ![calls[r].email] = FALSE]
          <6> DEFINE full == A!Locks(calls[r].seen + 1)
          <6>1. locked' = [locked EXCEPT ![calls[r].email] = full]
            BY <2>3 DEF A!PasswordWrong
          <6>2. full \in BOOLEAN
            BY DEF A!Locks
          <6> HIDE DEF full
          <6>3. full = TRUE \/ full = FALSE
            BY <6>2
          <6>4. QED  BY <6>1, <6>3
        <5>2. QED  BY <5>1 DEF AccountTypes
      <4>4. tally' \in [Emails -> Nat]
        <5> DEFINE t == IF tally[calls[r].email] < MaxFailures THEN tally[calls[r].email] + 1 ELSE tally[calls[r].email]
        <5>1. t \in Nat
          BY <4>1 DEF AccountTypes
        <5>2. tally' = [tally EXCEPT ![calls[r].email] = t]
          BY <2>3 DEF A!PasswordWrong
        <5> HIDE DEF t
        <5>3. QED  BY <5>1, <5>2 DEF AccountTypes
      <4>5. QED  BY <2>3, <4>2, <4>3, <4>4, CallEnds DEF A!PasswordWrong, AccountTypes
    <3>2. QED  BY <2>3, <3>1, CallGoes, CallEnds DEF A!PasswordWrong, PCs, AccountTypes, A!Free
  <2>4. CASE A!PasswordRight(r)
    <3>1. AccountTypes'
      BY <2>4, CallGoes, CallEnds DEF A!PasswordRight, A!AfterVerify, PCs, AccountTypes
    <3>2. QED  BY <2>4, <3>1, CallGoes, CallEnds DEF A!PasswordRight, A!AfterVerify, PCs, AccountTypes, A!Free
  <2>5. CASE A!Rehash(r)
    <3>1. AccountTypes'
      BY <2>5, CallGoes, CallEnds DEF A!Rehash, A!AfterVerify, PCs, CallRows, AccountTypes
    <3>2. QED  BY <2>5, <3>1, CallGoes, CallEnds DEF A!Rehash, A!AfterVerify, PCs, CallRows, AccountTypes, A!Free
  <2>6. CASE A!passwordSet(r)
    <3>1. AccountTypes'
      BY <2>6, CallGoes, CallEnds DEF A!passwordSet, PCs, CallRows, AccountTypes
    <3>2. calls[r].pc = "setting" /\ UNCHANGED <<links, lastLink, lastHandoff>>
      BY <2>6 DEF A!passwordSet
    <3>3. CASE A!Ends(r)
      <4>1. calls'[r] = A!Free /\ \A t \in Calls \ {r} : calls'[t] = calls[t]
        BY <3>3, CallEnds DEF AccountTypes
      <4>2. QED  BY <3>1, <3>2, <4>1 DEF A!Free
    <3>4. CASE A!Goes(r, "starting")
      <4>1. calls'[r].pc = "starting" /\ calls'[r].num = calls[r].num /\ \A t \in Calls \ {r} : calls'[t] = calls[t]
        BY <3>4, CallGoes DEF AccountTypes, PCs
      <4>2. QED  BY <3>1, <3>2, <4>1
    <3>5. QED  BY <2>6, <3>3, <3>4 DEF A!passwordSet
  <2>7. QED  BY <1>2, <2>1, <2>2, <2>3, <2>4, <2>5, <2>6 DEF A!Password, A!PasswordSignin, A!PasswordChange
<1>3. ASSUME NEW r \in Calls, A!handleLink(r) PROVE AccountInv'
  <2>1. ASSUME NEW n \in A!Links, NEW c \in Passwords, A!LinkOpen(r, n, c) PROVE AccountInv'
    <3> DEFINE q == [A!Free EXCEPT !.pc = "peeking", !.num = n, !.email = links[n].email, !.via = links[n].kind,
                      !.chosen = IF links[n].kind = "magic" THEN None ELSE c]
    <3>1. q \in CallRows /\ q.pc = "peeking" /\ q.num = n
      <4>1. n \in Nat /\ links[n].email \in Emails \cup {None} /\ links[n].kind \in {"magic", "reset"}
        BY DEF A!Links, LinkRows, AccountTypes
      <4>2. QED  BY <4>1 DEF A!Free, CallRows, PCs
    <3> HIDE DEF q
    <3>2. calls' = [calls EXCEPT ![r] = q]
      BY <2>1 DEF A!LinkOpen, A!Links, q
    <3>3. AccountTypes'
      BY <2>1, <3>1, <3>2, OneCall DEF A!LinkOpen, A!Links, AccountTypes
    <3>4. n \in 1..lastLink
      <4>1. links[n].state = "live" /\ n \in 1..MaxLinks /\ lastLink \in Nat
        BY <2>1 DEF A!LinkOpen, A!Links, AccountTypes
      <4>2. QED  BY <4>1 DEF A!Links
    <3>5. QED  BY <2>1, <3>3, <3>4, <3>1, <3>2, OneCall DEF A!LinkOpen, AccountTypes
  <2>2. CASE A!LinkPeek(r)
    <3>1. AccountTypes'
      BY <2>2, CallGoes, CallEnds DEF A!LinkPeek, PCs, AccountTypes
    <3>2. QED  BY <2>2, <3>1, CallGoes, CallEnds DEF A!LinkPeek, PCs, AccountTypes, A!Free
  <2>3. CASE A!LinkBurn(r)
    <3>1. links' = [links EXCEPT ![calls[r].num] = A!NoLink] /\ links' \in [A!Links -> LinkRows]
      BY <2>3, LinkRow DEF A!LinkBurn, AccountTypes
    <3>2. A!Ends(r) \/ A!Goes(r, A!AfterVerify(calls[r]))
      BY <2>3 DEF A!LinkBurn
    <3>3. A!AfterVerify(calls[r]) \in {"starting", "setting"}
      BY DEF A!AfterVerify
    <3>4. AccountTypes'
      BY <2>3, <3>1, <3>2, <3>3, CallGoes, CallEnds DEF A!LinkBurn, PCs, AccountTypes
    <3>5. \A n \in A!Links : n > lastLink => links'[n].state = "absent"
      BY <3>1 DEF AccountTypes, A!NoLink
    <3>6. \A t \in Calls : CallFits(calls[t])'
      BY <2>3, <3>2, <3>3, CallGoes, CallEnds DEF A!LinkBurn, PCs, AccountTypes, A!Free
    <3>7. QED  BY <2>3, <3>4, <3>5, <3>6 DEF A!LinkBurn
  <2>4. QED  BY <1>3, <2>1, <2>2, <2>3 DEF A!handleLink
<1>4. ASSUME NEW r \in Calls, A!finishSignin(r) PROVE AccountInv'
  <2>1. calls[r].num \in 0..MaxLinks /\ calls[r].email \in Emails \cup {None}
    BY <1>4 DEF A!finishSignin, AccountTypes, CallRows
  <2>2. lastSession' \in 0..MaxSessions /\ lastSession + 1 \in A!Sessions
    BY <1>4 DEF A!finishSignin, AccountTypes, A!Sessions
  <2>3. AccountTypes'
    BY <1>4, <2>1, <2>2, PurgedLinks, CallEnds DEF A!finishSignin, AccountTypes
  <2>4. \A t \in Calls : CallFits(calls[t])'
    BY <1>4, CallEnds DEF A!finishSignin, AccountTypes, A!Free
  <2>5. \A n \in A!Links : n > lastLink => links'[n].state = "absent"
    BY <1>4, PurgedLinks DEF A!finishSignin, AccountTypes, A!NoLink
  <2>6. QED  BY <1>4, <2>3, <2>4, <2>5 DEF A!finishSignin
<1>5. ASSUME NEW r \in Calls, A!consumeHandoff(r) PROVE AccountInv'
  <2>1. calls[r].num \in A!Handoffs
    BY <1>5 DEF A!consumeHandoff, AccountTypes, A!Handoffs
  <2>2. handoffs[calls[r].num].session \in 0..MaxSessions /\ uses[calls[r].num] \in Nat
    BY <2>1 DEF AccountTypes, HandoffRows
  <2>3. /\ burned' \subseteq A!Handoffs /\ apps' \subseteq 0..MaxSessions /\ cookie' \in 0..MaxHandoffs
        /\ uses' \in [A!Handoffs -> Nat] /\ late' \subseteq A!Handoffs
    <3>1. burned' \subseteq A!Handoffs
      BY <1>5, <2>1 DEF A!consumeHandoff, AccountTypes
    <3>2. apps' \subseteq 0..MaxSessions /\ cookie' \in 0..MaxHandoffs
      <4>1. \/ apps' = apps \cup {handoffs[calls[r].num].session} /\ cookie' = 0
            \/ apps' = apps /\ cookie' = cookie
        BY <1>5 DEF A!consumeHandoff
      <4>2. apps \subseteq 0..MaxSessions /\ cookie \in 0..MaxHandoffs /\ 0 \in 0..MaxHandoffs
        BY DEF AccountTypes
      <4>3. cookie' \in 0..MaxHandoffs
        BY <4>1, <4>2
      <4>4. apps' \subseteq 0..MaxSessions
        BY <2>2, <4>1, <4>2
      <4>5. QED  BY <4>3, <4>4
    <3>3. uses' \in [A!Handoffs -> Nat]
      <4> DEFINE u == uses[calls[r].num] + 1
      <4>1. u \in Nat
        BY <2>2
      <4>2. uses' = [uses EXCEPT ![calls[r].num] = u] \/ uses' = uses
        BY <1>5 DEF A!consumeHandoff
      <4> HIDE DEF u
      <4>3. QED  BY <4>1, <4>2 DEF AccountTypes
    <3>4. late' \subseteq A!Handoffs
      BY <1>5, <2>1 DEF A!consumeHandoff, AccountTypes
    <3>5. QED  BY <3>1, <3>2, <3>3, <3>4
  <2>4. AccountTypes'
    BY <1>5, <2>3, CallEnds DEF A!consumeHandoff, AccountTypes
  <2>5. \A t \in Calls : CallFits(calls[t])'
    BY <1>5, CallEnds DEF A!consumeHandoff, AccountTypes, A!Free
  <2>6. QED  BY <1>5, <2>4, <2>5 DEF A!consumeHandoff
<1>6. ASSUME NEW r \in Calls, NEW h \in A!Handoffs, A!HandoffArrives(r, h) PROVE AccountInv'
  <2> DEFINE q == [A!Free EXCEPT !.pc = "burningHandoff", !.num = h]
  <2>1. q \in CallRows /\ q.pc = "burningHandoff" /\ q.num = h
    <3>1. h \in Nat
      BY DEF A!Handoffs
    <3>2. QED  BY <3>1 DEF A!Free, CallRows, PCs
  <2> HIDE DEF q
  <2>2. calls' = [calls EXCEPT ![r] = q]
    BY <1>6 DEF A!HandoffArrives, A!Handoffs, q
  <2>3. AccountTypes'
    BY <1>6, <2>1, <2>2, OneCall DEF A!HandoffArrives, A!Handoffs, AccountTypes
  <2>4. QED  BY <1>6, <2>3, <2>1, <2>2, OneCall, SMTT(30) DEF A!HandoffArrives, A!Handoffs, AccountTypes, A!Free
<1>7. ASSUME NEW e \in Emails, A!ensureUser(e) PROVE AccountInv'
  <2>1. AccountTypes'
    BY <1>7 DEF A!ensureUser, AccountTypes
  <2>2. QED  BY <1>7, <2>1 DEF A!ensureUser, AccountTypes, A!Free
<1>8. ASSUME NEW e \in Emails, A!LockEnds(e) PROVE AccountInv'
  <2>1. AccountTypes'
    BY <1>8 DEF A!LockEnds, AccountTypes
  <2>2. QED  BY <1>8, <2>1 DEF A!LockEnds, AccountTypes, A!Free
<1>9. ASSUME NEW e \in Emails, NEW k \in {"magic", "reset"}, A!issueSigninLink(e, k) PROVE AccountInv'
  <2>1. AccountTypes'
    BY <1>9 DEF A!issueSigninLink, A!purgedLinks, A!NoLink, A!Links, LinkRows, AccountTypes
  <2>2. QED  BY <1>9, <2>1 DEF A!issueSigninLink, A!purgedLinks, A!NoLink, A!Links, LinkRows, AccountTypes, A!Free
<1>10. ASSUME NEW n \in A!Links, A!LinkExpires(n) PROVE AccountInv'
  <2>1. AccountTypes'
    <3>1. links' = [links EXCEPT ![n] = [links[n] EXCEPT !.state = "expired"]]
      BY <1>10 DEF A!LinkExpires
    <3>2. [links[n] EXCEPT !.state = "expired"] \in LinkRows
      BY LinkRow DEF AccountTypes
    <3>3. links' \in [A!Links -> LinkRows]
      BY <3>1, <3>2 DEF AccountTypes
    <3>4. QED  BY <1>10, <3>3 DEF A!LinkExpires, AccountTypes
  <2>2. QED  BY <1>10, <2>1 DEF A!LinkExpires, A!Links, LinkRows, AccountTypes, A!Free
<1>11. ASSUME NEW S, A!SessionsEnd(S) PROVE AccountInv'
  <2>1. AccountTypes'
    BY <1>11 DEF A!SessionsEnd, AccountTypes
  <2>2. QED  BY <1>11, <2>1 DEF A!SessionsEnd, AccountTypes, A!Free
<1>12. ASSUME NEW r \in Calls, A!RevokeOther(r) PROVE AccountInv'
  <2>1. AccountTypes'
    BY <1>12, CallGoes, CallEnds DEF A!RevokeOther, A!Sessions, AccountTypes
  <2>2. A!Ends(r) \/ UNCHANGED calls
    BY <1>12 DEF A!RevokeOther
  <2>3. \A t \in Calls : CallFits(calls[t])'
    BY <1>12, <2>2, CallEnds DEF A!RevokeOther, AccountTypes, A!Free
  <2>4. QED  BY <1>12, <2>1, <2>3 DEF A!RevokeOther
<1>13. ASSUME NEW r \in Calls, NEW s \in A!Sessions, A!RevokeOthersList(r, s) PROVE AccountInv'
  <2> DEFINE q == [A!Free EXCEPT !.pc = "revoking", !.email = sessions[s], !.num = s, !.seen = lastSession]
  <2>1. q \in CallRows /\ q.pc = "revoking"
    <3>1. s \in Nat /\ lastSession \in Nat /\ sessions[s] \in Emails \cup {None}
      BY DEF A!Sessions, AccountTypes
    <3>2. QED  BY <3>1 DEF A!Free, CallRows, PCs
  <2> HIDE DEF q
  <2>2. calls' = [calls EXCEPT ![r] = q]
    BY <1>13 DEF A!RevokeOthersList, A!Sessions, q
  <2>3. AccountTypes'
    BY <1>13, <2>1, <2>2, OneCall DEF A!RevokeOthersList, A!Sessions, AccountTypes
  <2>4. QED  BY <1>13, <2>3, <2>1, <2>2, OneCall, SMTT(30) DEF A!RevokeOthersList, A!Sessions, AccountTypes, A!Free
<1>14. ASSUME NEW s \in A!Sessions, A!handleAppsOpen(s) PROVE AccountInv'
  <2>1. [session |-> s, expired |-> FALSE] \in HandoffRows
    BY DEF HandoffRows, A!Sessions
  <2>2. handoffs' \in [A!Handoffs -> HandoffRows] /\ lastHandoff' \in 0..MaxHandoffs
    BY <1>14, <2>1 DEF A!handleAppsOpen, AccountTypes
  <2>3. AccountTypes'
    BY <1>14, <2>2 DEF A!handleAppsOpen, AccountTypes
  <2>4. \A t \in Calls : CallFits(calls[t])'
    BY <1>14 DEF A!handleAppsOpen, AccountTypes
  <2>5. QED  BY <1>14, <2>3, <2>4 DEF A!handleAppsOpen
<1>15. CASE A!AppVisit
  <2>1. AccountTypes'
    BY <1>15 DEF A!AppVisit, AccountTypes
  <2>2. QED  BY <1>15, <2>1 DEF A!AppVisit, AccountTypes, A!Free
<1>16. ASSUME NEW h \in A!Handoffs, A!HandoffExpires(h) PROVE AccountInv'
  <2>1. AccountTypes'
    BY <1>16 DEF A!HandoffExpires, A!Handoffs, HandoffRows, AccountTypes
  <2>2. QED  BY <1>16, <2>1 DEF A!HandoffExpires, A!Handoffs, HandoffRows, AccountTypes, A!Free
<1>17. QED
  BY <1>1, <1>2, <1>3, <1>4, <1>5, <1>6, <1>7, <1>8, <1>9, <1>10, <1>11, <1>12, <1>13, <1>14, <1>15, <1>16
     DEF A!Next, A!revokeSessions, A!handleSignout

----------------------------------------------------------------------------
(* Accounts: links and hand-offs used once, and the lockout *)

Spending(r, n) == calls[r].pc \in {"setting", "starting"} /\ calls[r].num = n
LinkInv ==
    /\ \A s \in A!Sessions : origin[s] \in 0..lastLink
    /\ \A s \in A!Sessions : s > lastSession => origin[s] = 0
    /\ \A n \in A!Links, s \in A!Sessions : origin[s] = n => links[n].state = "absent"
    /\ \A n \in A!Links, r \in Calls : Spending(r, n) =>
          /\ links[n].state = "absent"
          /\ \A t \in Calls : Spending(t, n) => r = t
          /\ \A s \in A!Sessions : origin[s] # n
    /\ A!LinkOnce

HandoffInv ==
    /\ \A h \in A!Handoffs : uses[h] > 0 => h <= lastHandoff
    /\ \A h \in A!Handoffs \ late : uses[h] > 0 => h \in burned \/ handoffs[h].expired
    /\ A!HandoffOnce

AttemptInv ==
    /\ \A e \in Emails : failures[e] < MaxFailures
    /\ \A e \in Emails \ overlapped :
        /\ \A r, t \in A!Hashing(e) : r = t
        /\ \A r \in A!Hashing(e) : calls[r].seen = failures[e] /\ ~locked[e]
        /\ locked[e] \/ tally[e] <= failures[e]

LinksKept ==
    /\ UNCHANGED <<lastSession, origin>> /\ lastLink <= lastLink'
    /\ \A n \in 1..lastLink : links[n].state = "absent" => links'[n].state = "absent"
    /\ \A r \in Calls, n \in A!Links : Spending(r, n)' => Spending(r, n)
HandoffsKept ==
    /\ UNCHANGED <<lastHandoff, uses, burned, late>>
    /\ \A h \in A!Handoffs : handoffs[h].expired => handoffs'[h].expired
AttemptsKept ==
    /\ UNCHANGED A!attempts
    /\ \A r \in Calls : calls'[r].pc = "hashing" => calls[r].pc = "hashing" /\ calls'[r].email = calls[r].email /\ calls'[r].seen = calls[r].seen

(* Which steps leave links, hand-offs and attempts alone: a handler works on one of the three. *)
LEMMA KeptOrNot ==
    ASSUME A!AccountsConstants, AccountInv, A!Next
    PROVE  /\ LinksKept \/ \E r \in Calls : A!LinkBurn(r) \/ A!finishSignin(r)
           /\ HandoffsKept \/ (\E s \in A!Sessions : A!handleAppsOpen(s)) \/ \E r \in Calls : A!consumeHandoff(r)
           /\ \/ AttemptsKept
              \/ \E r \in Calls, e \in Emails, p \in Passwords, c \in Passwords \cup {None}, via \in {"signin", "change"} :
                    A!Verify(r, e, p, c, via)
              \/ \E r \in Calls : A!PasswordWrong(r) \/ A!PasswordRight(r)
              \/ \E e \in Emails : A!LockEnds(e)
<1> DEFINE Kept == LinksKept /\ HandoffsKept /\ AttemptsKept
<1> USE DEF A!AccountsConstants, AccountInv, AccountTypes, CallFits, A!secrets, A!attempts, A!linkVars, A!sessionVars, A!appVars,
            LinksKept, HandoffsKept, AttemptsKept, Spending
<1>1. ASSUME NEW r \in Calls, A!Setup(r) PROVE Kept
  <2>1. ASSUME NEW e \in Emails, NEW p \in Passwords, A!SetupBegin(r, e, p) PROVE Kept
    BY <2>1 DEF A!SetupBegin, A!Free
  <2>2. CASE A!SetupRecheck(r)
    BY <2>2, CallGoes, CallEnds DEF A!SetupRecheck, A!Free, PCs
  <2>3. CASE A!SetupCreate(r)
    <3>1. calls[r].num = 0 /\ A!Goes(r, "setting") /\ "setting" \in PCs
      BY <2>3 DEF A!SetupCreate, PCs
    <3>2. \A n \in A!Links : n # 0
      BY DEF A!Links
    <3>3. QED  BY <2>3, <3>1, <3>2, CallGoes DEF A!SetupCreate
  <2>4. QED  BY <1>1, <2>1, <2>2, <2>3 DEF A!Setup
<1>2. ASSUME NEW r \in Calls, A!Password(r)
      PROVE  /\ LinksKept /\ HandoffsKept
             /\ \/ AttemptsKept
                \/ \E e \in Emails, p \in Passwords, c \in Passwords \cup {None}, via \in {"signin", "change"} :
                      A!Verify(r, e, p, c, via)
                \/ A!PasswordWrong(r) \/ A!PasswordRight(r)
  <2>1. ASSUME NEW e \in Emails, NEW p \in Passwords, NEW c \in Passwords \cup {None}, NEW via \in {"signin", "change"},
               A!Verify(r, e, p, c, via)
        PROVE  LinksKept /\ HandoffsKept
    BY <2>1 DEF A!Verify, A!Free
  <2>2. ASSUME NEW e \in Emails, NEW c \in Passwords,
               calls' = [calls EXCEPT ![r] = [A!Free EXCEPT !.pc = "setting", !.email = e, !.chosen = c, !.via = "change"]],
               UNCHANGED <<users, A!secrets, A!attempts, A!linkVars, A!sessionVars, A!appVars>>
        PROVE  Kept
    BY <2>2 DEF A!Free, A!Links
  <2>3. CASE A!PasswordWrong(r)
    BY <2>3, CallEnds DEF A!PasswordWrong, A!Free
  <2>4. CASE A!PasswordRight(r)
    <3>1. calls[r].num = 0 /\ \E pc \in PCs : A!Goes(r, pc)
      BY <2>4 DEF A!PasswordRight, A!AfterVerify, PCs
    <3>2. \A n \in A!Links : n # 0
      BY DEF A!Links
    <3>3. QED  BY <2>4, <3>1, <3>2, CallGoes DEF A!PasswordRight
  <2>5. CASE A!Rehash(r)
    <3>1. calls[r].num = 0 /\ \E pc \in PCs \ {"hashing"} : A!Goes(r, pc)
      BY <2>5 DEF A!Rehash, A!AfterVerify, PCs
    <3>2. \A n \in A!Links : n # 0
      BY DEF A!Links
    <3>3. QED  BY <2>5, <3>1, <3>2, CallGoes DEF A!Rehash
  <2>6. CASE A!passwordSet(r)
    BY <2>6, CallGoes, CallEnds DEF A!passwordSet, PCs, A!Free
  <2> HIDE DEF AccountInv, AccountTypes, CallFits, LinksKept, HandoffsKept, AttemptsKept
  <2>7. QED  BY <1>2, <2>1, <2>2, <2>3, <2>4, <2>5, <2>6 DEF A!Password, A!PasswordSignin, A!PasswordChange
<1>3. ASSUME NEW r \in Calls, A!handleLink(r) PROVE Kept \/ (A!LinkBurn(r) /\ HandoffsKept /\ AttemptsKept)
  <2>1. ASSUME NEW n \in A!Links, NEW c \in Passwords, A!LinkOpen(r, n, c) PROVE Kept
    BY <2>1 DEF A!LinkOpen, A!Free
  <2>2. CASE A!LinkPeek(r)
    BY <2>2, CallGoes, CallEnds DEF A!LinkPeek, PCs, A!Free
  <2>3. CASE A!LinkBurn(r)
    BY <2>3, CallGoes, CallEnds DEF A!LinkBurn, A!AfterVerify, PCs, A!Free
  <2>4. QED  BY <1>3, <2>1, <2>2, <2>3 DEF A!handleLink
<1>4. ASSUME NEW r \in Calls, A!finishSignin(r) PROVE HandoffsKept /\ AttemptsKept
  BY <1>4, CallEnds DEF A!finishSignin, A!Free
<1>5. ASSUME NEW r \in Calls, A!consumeHandoff(r) PROVE LinksKept /\ AttemptsKept
  BY <1>5, CallEnds DEF A!consumeHandoff, A!Free
<1>6. ASSUME NEW r \in Calls, NEW h \in A!Handoffs, A!HandoffArrives(r, h) PROVE Kept
  BY <1>6 DEF A!HandoffArrives, A!Free
<1>7. ASSUME NEW e \in Emails, A!ensureUser(e) PROVE Kept
  BY <1>7 DEF A!ensureUser
<1>8. ASSUME NEW e \in Emails, A!LockEnds(e) PROVE LinksKept /\ HandoffsKept
  BY <1>8 DEF A!LockEnds
<1>9. ASSUME NEW e \in Emails, NEW k \in {"magic", "reset"}, A!issueSigninLink(e, k) PROVE Kept
  <2>1. \A n \in 1..lastLink : n \in A!Links /\ links'[n] = A!purgedLinks[n]
    BY <1>9, PurgedLinks DEF A!issueSigninLink, A!Links
  <2>2. QED  BY <1>9, <2>1, PurgedLinks DEF A!issueSigninLink, A!NoLink
<1>10. ASSUME NEW n \in A!Links, A!LinkExpires(n) PROVE Kept
  BY <1>10 DEF A!LinkExpires, A!Links
<1>11. ASSUME NEW S, A!SessionsEnd(S) PROVE Kept
  BY <1>11 DEF A!SessionsEnd
<1>12. ASSUME NEW r \in Calls, A!RevokeOther(r) PROVE Kept
  <2>1. A!Ends(r) \/ UNCHANGED calls
    BY <1>12 DEF A!RevokeOther
  <2>2. QED  BY <1>12, <2>1, CallEnds DEF A!RevokeOther, A!Free
<1>13. ASSUME NEW r \in Calls, NEW s \in A!Sessions, A!RevokeOthersList(r, s) PROVE Kept
  BY <1>13 DEF A!RevokeOthersList, A!Free
<1>14. ASSUME NEW s \in A!Sessions, A!handleAppsOpen(s) PROVE LinksKept /\ AttemptsKept
  BY <1>14 DEF A!handleAppsOpen
<1>15. CASE A!AppVisit
  BY <1>15 DEF A!AppVisit
<1>16. ASSUME NEW h \in A!Handoffs, A!HandoffExpires(h) PROVE Kept
  BY <1>16 DEF A!HandoffExpires, HandoffRows
<1> HIDE DEF AccountInv, AccountTypes, CallFits, LinksKept, HandoffsKept, AttemptsKept
<1>17. QED
  BY <1>1, <1>2, <1>3, <1>4, <1>5, <1>6, <1>7, <1>8, <1>9, <1>10, <1>11, <1>12, <1>13, <1>14, <1>15, <1>16
     DEF A!Next, A!revokeSessions, A!handleSignout

(* No session comes from a link yet. *)
LEMMA LinkInit == ASSUME A!AccountsConstants, A!Init PROVE LinkInv
  BY DEF A!AccountsConstants, A!Init, LinkInv, A!LinkOnce, Spending, A!Links, A!Sessions, A!Free, A!NoLink

(* A step that starts no session from a link and burns none keeps the account of links. *)
LEMMA LinkKept == ASSUME A!AccountsConstants, AccountInv, AccountInv', LinkInv, LinksKept PROVE LinkInv'
<1> USE DEF LinkInv, LinksKept, A!AccountsConstants
<1>1. lastLink \in Nat /\ lastLink' \in Nat /\ \A n \in A!Links : n <= lastLink <=> n \in 1..lastLink
  BY DEF AccountInv, AccountTypes, A!Links
<1>2. \A n \in A!Links, r \in Calls : Spending(r, n) => n \in 1..lastLink
  BY <1>1 DEF AccountInv, CallFits, Spending, A!Links
<1>3. \A n \in A!Links, s \in A!Sessions : origin[s] = n => n \in 1..lastLink
  BY <1>1 DEF A!Links
<1>4. \A s \in A!Sessions : origin'[s] = origin[s]
  OBVIOUS
<1>5. \A n \in A!Links, s \in A!Sessions : origin'[s] = n => links'[n].state = "absent"
  BY <1>3, <1>4
<1>6. ASSUME NEW n \in A!Links, NEW r \in Calls, Spending(r, n)'
      PROVE  /\ links'[n].state = "absent"
             /\ \A t \in Calls : Spending(t, n)' => r = t
             /\ \A s \in A!Sessions : origin'[s] # n
  BY <1>2, <1>4, <1>6
<1>7. A!LinkOnce'
  BY <1>4 DEF A!LinkOnce
<1>8. \A s \in A!Sessions : origin'[s] \in 0..lastLink' /\ (s > lastSession' => origin'[s] = 0)
  BY <1>1, <1>4
<1>9. QED  BY <1>5, <1>6, <1>7, <1>8

(* However requests that open one link interleave, only the one that burned it goes on (signinTokenConsume). *)
LEMMA LinkStep == ASSUME A!AccountsConstants, AccountInv, AccountInv', LinkInv, A!Next PROVE LinkInv'
<1>1. ASSUME NEW r \in Calls, A!LinkBurn(r) PROVE LinkInv'
  <2> DEFINE n == calls[r].num
  <2>1. n \in 1..lastLink /\ n \in A!Links /\ calls[r].pc = "burning" /\ calls \in [Calls -> CallRows] /\ links \in [A!Links -> LinkRows]
    BY <1>1 DEF A!LinkBurn, AccountInv, AccountTypes, CallFits, A!Links, A!AccountsConstants
  <2>2. /\ links'[n].state = "absent" /\ \A m \in A!Links \ {n} : links'[m] = links[m]
        /\ UNCHANGED <<lastLink, sessions, lastSession, origin>>
    BY <1>1, <2>1 DEF A!LinkBurn, A!NoLink, A!sessionVars
  <2>3. CASE links[n].state = "absent"
    <3>1. LinksKept
      <4>1. calls'[r] = A!Free /\ \A t \in Calls \ {r} : calls'[t] = calls[t]
        BY <1>1, <2>1, <2>3, CallEnds DEF A!LinkBurn
      <4>2. \A t \in Calls, m \in A!Links : Spending(t, m)' => Spending(t, m)
        BY <4>1 DEF Spending, A!Free
      <4>3. lastLink \in Nat /\ \A m \in 1..lastLink : m \in A!Links
        BY DEF AccountInv, AccountTypes, A!AccountsConstants, A!Links
      <4>4. QED  BY <2>2, <2>3, <4>2, <4>3 DEF LinksKept
    <3>2. QED  BY <3>1, LinkKept
  <2>4. CASE links[n].state # "absent"
    <3>1. \A t \in Calls : ~Spending(t, n)
      BY <2>1, <2>4 DEF LinkInv
    <3>2. \A s \in A!Sessions : origin[s] # n
      BY <2>1, <2>4 DEF LinkInv
    <3>3. A!Goes(r, A!AfterVerify(calls[r])) /\ A!AfterVerify(calls[r]) \in PCs
      BY <1>1, <2>4 DEF A!LinkBurn, A!AfterVerify, PCs
    <3>4. calls'[r].num = n /\ \A t \in Calls \ {r} : calls'[t] = calls[t]
      BY <2>1, <3>3, CallGoes
    <3>5. \A t \in Calls, m \in A!Links : Spending(t, m)' => (t = r /\ m = n) \/ (t # r /\ m # n /\ Spending(t, m))
      BY <3>1, <3>4 DEF Spending
    <3>6. \A t \in Calls, m \in A!Links : t # r /\ Spending(t, m) => links'[m].state = "absent"
      BY <3>1, <2>2 DEF LinkInv
    <3>7. \A m \in A!Links, s \in A!Sessions : origin'[s] = m => links'[m].state = "absent"
      BY <3>2, <2>2 DEF LinkInv
    <3>8. ASSUME NEW m \in A!Links, NEW t \in Calls, Spending(t, m)'
          PROVE  /\ links'[m].state = "absent"
                 /\ \A v \in Calls : Spending(v, m)' => t = v
                 /\ \A s \in A!Sessions : origin'[s] # m
      BY <2>2, <3>2, <3>5, <3>6, <3>8 DEF LinkInv
    <3>9. \A s \in A!Sessions : origin'[s] \in 0..lastLink' /\ (s > lastSession' => origin'[s] = 0)
      BY <2>2 DEF LinkInv
    <3>10. A!LinkOnce'
      BY <2>2 DEF LinkInv, A!LinkOnce
    <3>11. QED  BY <3>7, <3>8, <3>9, <3>10 DEF LinkInv
  <2>5. QED  BY <2>3, <2>4
<1>2. ASSUME NEW r \in Calls, A!finishSignin(r) PROVE LinkInv'
  <2> DEFINE n == calls[r].num
             s == lastSession + 1
  <2>1. n \in 0..lastLink /\ calls[r].pc = "starting" /\ calls \in [Calls -> CallRows] /\ links \in [A!Links -> LinkRows]
    BY <1>2 DEF A!finishSignin, AccountInv, AccountTypes, CallFits
  <2>2. s \in A!Sessions /\ lastSession \in Nat /\ lastSession' = s /\ lastLink' = lastLink
    BY <1>2 DEF A!finishSignin, AccountInv, AccountTypes, A!Sessions, A!AccountsConstants
  <2>3. origin[s] = 0 /\ origin'[s] = n /\ \A t \in A!Sessions \ {s} : origin'[t] = origin[t]
    BY <1>2, <2>2 DEF A!finishSignin, AccountInv, AccountTypes, LinkInv
  <2>4. \A m \in A!Links : links[m].state = "absent" => links'[m].state = "absent"
    BY <1>2, <2>1, PurgedLinks DEF A!finishSignin
  <2>5. \A t \in Calls, m \in A!Links : Spending(t, m)' => t # r /\ Spending(t, m)
    BY <1>2, <2>1, CallEnds DEF A!finishSignin, Spending, A!Free
  <2>6. n # 0 => n \in A!Links /\ Spending(r, n)
    BY <2>1 DEF Spending, A!Links, AccountInv, AccountTypes, A!AccountsConstants
  <2>7. 0 \notin A!Links
    BY DEF A!Links
  <2>8. \A m \in A!Links, t \in A!Sessions : origin'[t] = m => links'[m].state = "absent"
    BY <2>3, <2>4, <2>6, <2>7 DEF LinkInv
  <2>9. ASSUME NEW m \in A!Links, NEW t \in Calls, Spending(t, m)'
        PROVE  /\ links'[m].state = "absent"
               /\ \A v \in Calls : Spending(v, m)' => t = v
               /\ \A u \in A!Sessions : origin'[u] # m
    <3>1. Spending(t, m) /\ t # r
      BY <2>5, <2>9
    <3>2. n # m
      BY <3>1, <2>6, <2>7 DEF LinkInv
    <3>3. QED  BY <3>1, <3>2, <2>3, <2>4, <2>5 DEF LinkInv
  <2>10. \A u \in A!Sessions : origin'[u] \in 0..lastLink' /\ (u > lastSession' => origin'[u] = 0)
    BY <2>1, <2>2, <2>3 DEF LinkInv, A!Sessions
  <2>11. A!LinkOnce'
    <3>1. n # 0 => \A u \in A!Sessions : origin[u] # n
      BY <2>6 DEF LinkInv
    <3>2. QED  BY <2>3, <3>1 DEF LinkInv, A!LinkOnce
  <2>12. QED  BY <2>8, <2>9, <2>10, <2>11 DEF LinkInv
<1>3. QED  BY <1>1, <1>2, KeptOrNot, LinkKept

(* No hand-off was used yet. *)
LEMMA HandoffInit == ASSUME A!AccountsConstants, A!Init PROVE HandoffInv
  BY DEF A!Init, HandoffInv, A!HandoffOnce

(* A hand-off is burned where it is used (appHandoffBurn); its row goes only after it has expired. *)
LEMMA HandoffStep == ASSUME A!AccountsConstants, AccountInv, HandoffInv, A!Next PROVE HandoffInv'
<1>1. CASE HandoffsKept
  BY <1>1 DEF HandoffsKept, HandoffInv, A!HandoffOnce
<1>2. ASSUME NEW s \in A!Sessions, A!handleAppsOpen(s) PROVE HandoffInv'
  <2>1. cookie = lastHandoff + 1 /\ lastHandoff \in Nat /\ lastHandoff' = cookie /\ UNCHANGED <<burned, uses, late>>
    BY <1>2 DEF A!handleAppsOpen, AccountInv, AccountTypes
  <2>2. \A h \in A!Handoffs \ {cookie} : handoffs'[h] = handoffs[h]
    BY <1>2 DEF A!handleAppsOpen, AccountInv, AccountTypes
  <2>3. \A h \in A!Handoffs : uses[h] > 0 => h # cookie /\ h <= lastHandoff'
    BY <2>1 DEF HandoffInv, A!Handoffs
  <2>4. \A h \in A!Handoffs \ late' : uses'[h] > 0 => h \in burned' \/ handoffs'[h].expired
    BY <2>1, <2>2, <2>3 DEF HandoffInv
  <2>5. QED  BY <2>1, <2>3, <2>4 DEF HandoffInv, A!HandoffOnce
<1>3. ASSUME NEW r \in Calls, A!consumeHandoff(r) PROVE HandoffInv'
  <2> DEFINE h == calls[r].num
  <2>1. h \in 1..lastHandoff /\ h \in A!Handoffs /\ lastHandoff \in Nat /\ uses \in [A!Handoffs -> Nat]
    BY <1>3 DEF A!consumeHandoff, AccountInv, AccountTypes, CallFits, A!Handoffs, A!AccountsConstants
  <2>2. UNCHANGED <<handoffs, lastHandoff>>
    BY <1>3 DEF A!consumeHandoff
  <2>3. h \in burned' /\ \A x \in burned : handoffs[x].expired \/ x \in burned'
    BY <1>3 DEF A!consumeHandoff
  <2>4. CASE ~A!Burns(h)
    <3>1. UNCHANGED <<uses, late>>
      BY <1>3, <2>4 DEF A!consumeHandoff
    <3>2. QED  BY <2>2, <2>3, <3>1 DEF HandoffInv, A!HandoffOnce
  <2>5. CASE A!Burns(h) /\ handoffs[h].expired
    <3>1. uses' = [uses EXCEPT ![h] = @ + 1] /\ late' = late \cup {h}
      BY <1>3, <2>5 DEF A!consumeHandoff
    <3>2. \A x \in A!Handoffs \ late' : x # h /\ x \notin late /\ uses'[x] = uses[x]
      BY <2>1, <3>1
    <3>3. \A x \in A!Handoffs : uses'[x] > 0 => x <= lastHandoff
      BY <2>1, <3>1 DEF HandoffInv
    <3>4. QED  BY <2>2, <2>3, <3>2, <3>3 DEF HandoffInv, A!HandoffOnce
  <2>6. CASE A!Burns(h) /\ ~handoffs[h].expired
    <3>1. uses' = [uses EXCEPT ![h] = @ + 1] /\ late' = late /\ h \notin burned
      BY <1>3, <2>6 DEF A!consumeHandoff, A!Burns
    <3>2. h \notin late => uses[h] = 0
      BY <2>1, <2>6, <3>1 DEF HandoffInv
    <3>3. \A x \in A!Handoffs \ {h} : uses'[x] = uses[x]
      BY <2>1, <3>1
    <3>4. h \notin late' => uses'[h] = 1
      BY <2>1, <3>1, <3>2
    <3>5. \A x \in A!Handoffs : uses'[x] > 0 => x <= lastHandoff
      BY <2>1, <3>3 DEF HandoffInv
    <3>6. QED  BY <2>2, <2>3, <3>1, <3>3, <3>4, <3>5 DEF HandoffInv, A!HandoffOnce
  <2>7. QED  BY <2>4, <2>5, <2>6
<1>4. QED  BY <1>1, <1>2, <1>3, KeptOrNot

(* No password was typed yet. *)
LEMMA AttemptInit == ASSUME A!AccountsConstants, A!Init PROVE AttemptInv
  BY DEF A!AccountsConstants, A!Init, AttemptInv, A!Hashing, A!Free

(* Where passwords are verified one at a time, the stored count of failures is at least that of wrong passwords (passwordVerify). *)
LEMMA AttemptStep == ASSUME A!AccountsConstants, AccountInv, AccountInv', AttemptInv, A!Next PROVE AttemptInv'
<1>1. CASE AttemptsKept
  <2>1. \A e \in Emails : \A r \in A!Hashing(e)' : r \in A!Hashing(e) /\ calls'[r].seen = calls[r].seen
    BY <1>1 DEF AttemptsKept, A!Hashing
  <2>2. QED  BY <1>1, <2>1 DEF AttemptsKept, A!attempts, AttemptInv
<1>2. ASSUME NEW r \in Calls, NEW e \in Emails, NEW p \in Passwords, NEW c \in Passwords \cup {None}, NEW via \in {"signin", "change"},
             A!Verify(r, e, p, c, via)
      PROVE  AttemptInv'
  <2>1. /\ calls'[r].pc = "hashing" /\ calls'[r].email = e /\ calls'[r].seen = failures[e] /\ ~locked[e]
        /\ \A t \in Calls \ {r} : calls'[t] = calls[t]
        /\ calls[r].pc # "hashing"
    BY <1>2 DEF A!Verify, A!Idle, A!Free, AccountInv, AccountTypes
  <2>2. UNCHANGED <<failures, locked>> /\ (\A f \in Emails : failures[f] \in Nat) /\ tally \in [Emails -> Nat]
    BY <1>2 DEF A!Verify, AccountInv, AccountTypes
  <2>3. \A f \in Emails \ {e} : A!Hashing(f)' = A!Hashing(f)
    BY <2>1 DEF A!Hashing
  <2>4. A!Hashing(e)' = A!Hashing(e) \cup {r} /\ r \notin A!Hashing(e)
    BY <2>1 DEF A!Hashing
  <2>5. \A f \in Emails \ overlapped' : (f # e => f \notin overlapped) /\ (f = e => A!Hashing(e) = {})
    BY <1>2 DEF A!Verify
  <2>6. \A f \in Emails \ overlapped' : \A t, u \in A!Hashing(f)' : t = u
    BY <2>3, <2>4, <2>5 DEF AttemptInv
  <2>7. \A f \in Emails \ overlapped' : \A t \in A!Hashing(f)' : calls'[t].seen = failures'[f] /\ ~locked'[f]
    <3>1. \A f \in Emails \ {e} : \A t \in A!Hashing(f) : t # r /\ t \in Calls
      BY <2>1 DEF A!Hashing
    <3>2. QED  BY <2>1, <2>2, <2>3, <2>4, <2>5, <3>1 DEF AttemptInv
  <2>8. \A f \in Emails \ overlapped' : locked'[f] \/ tally'[f] <= failures'[f]
    <3>1. CASE e \in overlapped
      <4>1. tally'[e] = 0 /\ \A f \in Emails \ {e} : tally'[f] = tally[f]
        BY <1>2, <2>2, <3>1 DEF A!Verify
      <4>2. QED  BY <2>2, <2>5, <4>1 DEF AttemptInv
    <3>2. CASE e \notin overlapped
      <4>1. tally' = tally
        BY <1>2, <3>2 DEF A!Verify
      <4>2. QED  BY <2>2, <2>5, <3>2, <4>1 DEF AttemptInv
    <3>3. QED  BY <3>1, <3>2
  <2>9. QED  BY <2>2, <2>6, <2>7, <2>8 DEF AttemptInv
<1>3. ASSUME NEW r \in Calls, A!PasswordWrong(r) PROVE AttemptInv'
  <2>1. PICK e \in Emails : e = calls[r].email
    BY <1>3 DEF A!PasswordWrong, AccountInv, CallFits
  <2> DEFINE n == calls[r].seen + 1
  <2>2. /\ r \in A!Hashing(e) /\ calls[r].seen \in Nat /\ calls \in [Calls -> CallRows]
        /\ failures[e] \in Nat /\ tally[e] \in Nat
    BY <1>3, <2>1 DEF A!PasswordWrong, AccountInv, AccountTypes, CallRows, A!Hashing
  <2>3. calls'[r].pc = "idle" /\ \A t \in Calls \ {r} : calls'[t] = calls[t]
    BY <1>3, <2>2, CallEnds DEF A!PasswordWrong, A!Free
  <2>4. /\ failures'[e] = (IF A!Locks(n) THEN 0 ELSE n) /\ locked'[e] = A!Locks(n)
        /\ tally'[e] = IF tally[e] < MaxFailures THEN tally[e] + 1 ELSE tally[e]
        /\ \A f \in Emails \ {e} : failures'[f] = failures[f] /\ locked'[f] = locked[f] /\ tally'[f] = tally[f]
        /\ UNCHANGED overlapped
    BY <1>3, <2>1, <2>2 DEF A!PasswordWrong, AccountInv, AccountTypes
  <2>5. A!Hashing(e)' = A!Hashing(e) \ {r} /\ \A f \in Emails \ {e} : A!Hashing(f)' = A!Hashing(f)
    BY <2>2, <2>3 DEF A!Hashing
  <2>6. \A f \in Emails \ {e} : \A t \in A!Hashing(f) : calls'[t] = calls[t]
    BY <2>2, <2>3 DEF A!Hashing
  <2>7. ASSUME NEW f \in Emails \ overlapped, f # e
        PROVE  /\ \A t, u \in A!Hashing(f)' : t = u
               /\ \A t \in A!Hashing(f)' : calls'[t].seen = failures'[f] /\ ~locked'[f]
               /\ locked'[f] \/ tally'[f] <= failures'[f]
    BY <2>4, <2>5, <2>6, <2>7 DEF AttemptInv
  <2>8. ASSUME e \notin overlapped
        PROVE  A!Hashing(e)' = {} /\ (locked'[e] \/ tally'[e] <= failures'[e])
    <3>1. \A t \in A!Hashing(e) : t = r
      BY <2>2, <2>8 DEF AttemptInv
    <3>2. calls[r].seen = failures[e] /\ tally[e] <= failures[e]
      BY <2>2, <2>8 DEF AttemptInv
    <3>3. tally'[e] <= n
      BY <2>2, <2>4, <3>2 DEF A!AccountsConstants
    <3>4. A!Hashing(e)' = {}
      BY <2>5, <3>1
    <3>5. QED  BY <2>4, <3>3, <3>4
  <2>9. \A f \in Emails : failures'[f] < MaxFailures
    <3>1. failures'[e] < MaxFailures
      BY <2>2, <2>4 DEF A!Locks, A!AccountsConstants
    <3>2. QED  BY <2>4, <3>1 DEF AttemptInv
  <2>10. QED  BY <2>4, <2>7, <2>8, <2>9 DEF AttemptInv
<1>4. ASSUME NEW r \in Calls, A!PasswordRight(r) PROVE AttemptInv'
  <2>1. PICK e \in Emails : e = calls[r].email
    BY <1>4 DEF A!PasswordRight, AccountInv, CallFits
  <2>2. r \in A!Hashing(e) /\ calls \in [Calls -> CallRows]
    BY <1>4, <2>1 DEF A!PasswordRight, AccountInv, AccountTypes, A!Hashing
  <2>3. calls'[r].pc # "hashing" /\ \A t \in Calls \ {r} : calls'[t] = calls[t]
    <3>1. PICK pc \in PCs \ {"hashing"} : A!Goes(r, pc)
      BY <1>4 DEF A!PasswordRight, A!AfterVerify, PCs
    <3>2. QED  BY <2>2, <3>1, CallGoes
  <2>4. /\ failures'[e] = 0 /\ ~locked'[e] /\ tally'[e] = 0
        /\ \A f \in Emails \ {e} : failures'[f] = failures[f] /\ locked'[f] = locked[f] /\ tally'[f] = tally[f]
        /\ UNCHANGED overlapped
    BY <1>4, <2>1, <2>2 DEF A!PasswordRight, AccountInv, AccountTypes
  <2>5. A!Hashing(e)' = A!Hashing(e) \ {r} /\ \A f \in Emails \ {e} : A!Hashing(f)' = A!Hashing(f)
    BY <2>2, <2>3 DEF A!Hashing
  <2>6. \A f \in Emails \ {e} : \A t \in A!Hashing(f) : calls'[t] = calls[t]
    BY <2>2, <2>3 DEF A!Hashing
  <2>7. ASSUME NEW f \in Emails \ overlapped, f # e
        PROVE  /\ \A t, u \in A!Hashing(f)' : t = u
               /\ \A t \in A!Hashing(f)' : calls'[t].seen = failures'[f] /\ ~locked'[f]
               /\ locked'[f] \/ tally'[f] <= failures'[f]
    BY <2>4, <2>5, <2>6, <2>7 DEF AttemptInv
  <2>8. ASSUME e \notin overlapped
        PROVE  A!Hashing(e)' = {}
    <3>1. \A t \in A!Hashing(e) : t = r
      BY <2>2, <2>8 DEF AttemptInv
    <3>2. QED  BY <2>5, <3>1
  <2>9. \A f \in Emails : failures'[f] < MaxFailures
    BY <2>4 DEF AttemptInv, A!AccountsConstants
  <2>10. QED  BY <2>4, <2>7, <2>8, <2>9 DEF AttemptInv
<1>5. ASSUME NEW e \in Emails, A!LockEnds(e) PROVE AttemptInv'
  <2>1. \A f \in Emails : A!Hashing(f)' = A!Hashing(f)
    BY <1>5 DEF A!LockEnds, A!Hashing
  <2>2. /\ locked[e] /\ ~locked'[e] /\ tally'[e] = 0 /\ UNCHANGED <<failures, overlapped, calls>>
        /\ \A f \in Emails \ {e} : locked'[f] = locked[f] /\ tally'[f] = tally[f]
    BY <1>5 DEF A!LockEnds, AccountInv, AccountTypes
  <2>3. \A f \in Emails : failures[f] \in Nat
    BY DEF AccountInv, AccountTypes
  <2>4. QED  BY <2>1, <2>2, <2>3 DEF AttemptInv
<1>6. QED  BY <1>1, <1>2, <1>3, <1>4, <1>5, KeptOrNot

(* The tables of accounts and sessions keep their types, and a call under way holds what its stage needs
   (auth/account-store.ts). *)
THEOREM AccountsTyped == ASSUME A!AccountsConstants PROVE A!Spec => []AccountInv
<1>1. AccountInv /\ [A!Next]_A!vars => AccountInv'
  <2>1. CASE A!Next
    BY <2>1, AccountStep
  <2>2. CASE UNCHANGED A!vars
    BY <2>2 DEF A!vars, AccountInv, AccountTypes, CallFits
  <2>3. QED  BY <2>1, <2>2
<1>2. QED  BY AccountInit, <1>1, PTL DEF A!Spec

(* A sign-in link starts one session and a hand-off gives one app session, however many requests present them
   at once (auth/account-store.ts signinTokenConsume, appHandoffBurn). *)
THEOREM UsedOnce == ASSUME A!AccountsConstants PROVE A!Spec => []SingleUse
<1>1. AccountInv /\ AccountInv' /\ LinkInv /\ HandoffInv /\ [A!Next]_A!vars => LinkInv' /\ HandoffInv'
  <2>1. ASSUME AccountInv, AccountInv', LinkInv, HandoffInv, A!Next PROVE LinkInv' /\ HandoffInv'
    BY <2>1, LinkStep, HandoffStep
  <2>2. ASSUME LinkInv, HandoffInv, UNCHANGED A!vars PROVE LinkInv' /\ HandoffInv'
    BY <2>2 DEF A!vars, LinkInv, A!LinkOnce, Spending, HandoffInv, A!HandoffOnce
  <2>3. QED  BY <2>1, <2>2
<1>2. LinkInv /\ HandoffInv => SingleUse
  BY DEF LinkInv, HandoffInv, SingleUse, A!SingleUse
<1>3. QED  BY LinkInit, HandoffInit, AccountsTyped, <1>1, <1>2, PTL DEF A!Spec

(* Wrong passwords, each verified alone, lock the address, whatever attempts that overlapped left behind
   (auth/account-store.ts passwordVerify). *)
THEOREM LockedOut == ASSUME A!AccountsConstants PROVE A!Spec => []LockHolds
<1>1. AccountInv /\ AccountInv' /\ AttemptInv /\ [A!Next]_A!vars => AttemptInv'
  <2>1. ASSUME AccountInv, AccountInv', AttemptInv, A!Next PROVE AttemptInv'
    BY <2>1, AttemptStep
  <2>2. ASSUME AttemptInv, UNCHANGED A!vars PROVE AttemptInv'
    BY <2>2 DEF A!vars, AttemptInv, A!Hashing
  <2>3. QED  BY <2>1, <2>2
<1>2. AccountInv /\ AttemptInv => LockHolds
  BY DEF AccountInv, AccountTypes, AttemptInv, LockHolds, A!LockHolds, A!AccountsConstants
<1>3. QED  BY AttemptInit, AccountsTyped, <1>1, <1>2, PTL DEF A!Spec

----------------------------------------------------------------------------
(* Inbound mail: what a post and a message keep *)

Kinds == {"inbox", "quarantine"}
Reasons == {"no_inbox", "duplicate", "quota", "too_large", "store_failed"}
PostRows == [pc : {"idle", "resolve", "classify", "store"}, mail : Mails \cup {None}, todo : Seq(Locals), user : Users \cup {None},
             seen : SUBSET Users, class : Kinds, accepted : BOOLEAN, reasons : SUBSET Reasons, waiting : BOOLEAN]
InboundTypes ==
    /\ inbox \in [Locals -> Users \cup {None}]
    /\ rows \in [Users -> [Mails -> Nat]]
    /\ class \in [Users -> [Mails -> Kinds]]
    /\ received \in [Users -> Nat] /\ quarantines \subseteq Users
    /\ sender \in [Mails -> {"open", "accepted", "refused", "too_large"}] /\ tries \in [Mails -> Nat]
    /\ posts \in [Posts -> PostRows]
    /\ everStored \subseteq Mails /\ moved \subseteq Mails /\ faulted \subseteq Mails

Had(q) == q.accepted \/ "quota" \in q.reasons \/ "too_large" \in q.reasons \/ "duplicate" \in q.reasons
Listed(l, s) == \E n \in 1..Len(s) : s[n] = l
PostFits(p) ==
    LET q == posts[p]
    IN  /\ q.mail \in Mails /\ tries[q.mail] > 0
        /\ \A l \in Locals : Listed(l, q.todo) => l \in E!Named(q.mail)
        /\ q.accepted \/ "duplicate" \in q.reasons => q.mail \in everStored
        /\ "too_large" \in q.reasons => q.mail \in Large
        /\ q.pc \in {"classify", "store"} =>
              /\ q.todo # <<>> /\ q.user \in Users /\ q.user \in q.seen
              /\ q.mail \notin moved => inbox[Head(q.todo)] = q.user
        /\ q.pc = "resolve" /\ q.seen # {} /\ q.mail \notin faulted => Had(q)
        /\ q.seen = {} /\ q.mail \notin moved => \A l \in E!Named(q.mail) : Listed(l, q.todo) \/ inbox[l] = None
MailFits(m) ==
    /\ m \in everStored \/ sender[m] # "open" => tries[m] > 0
    /\ \A u \in Users : (m \notin Anonymous => rows[u][m] <= 1) /\ (rows[u][m] > 0 => m \in everStored)
    /\ (m \in Large => m \notin everStored) /\ (sender[m] = "too_large" => m \in Large)
    /\ sender[m] = "accepted" => m \in everStored
    /\ m \in everStored \ moved => \E l \in E!Named(m) : inbox[l] # None
    /\ sender[m] = "refused" /\ m \notin moved \cup faulted => \A l \in E!Named(m) : inbox[l] = None
InboundInv ==
    /\ InboundTypes
    /\ \A p \in Posts : posts[p].pc # "idle" => PostFits(p)
    /\ \A m \in Mails : MailFits(m)

(* The names still to serve are the one served now and the rest. *)
LEMMA ListedTail ==
    ASSUME NEW s \in Seq(Locals), s # <<>>
    PROVE  /\ Tail(s) \in Seq(Locals) /\ Head(s) \in Locals /\ Listed(Head(s), s)
           /\ \A l \in Locals : Listed(l, s) <=> l = Head(s) \/ Listed(l, Tail(s))
<1>1. Tail(s) \in Seq(Locals) /\ Head(s) = s[1] /\ Len(s) \in Nat \ {0} /\ Len(Tail(s)) = Len(s) - 1
  OBVIOUS
<1>2. \A n \in 1..Len(Tail(s)) : Tail(s)[n] = s[n + 1] /\ n + 1 \in 1..Len(s)
  BY <1>1
<1>3. Head(s) \in Locals /\ Listed(Head(s), s)
  BY <1>1 DEF Listed
<1>4. ASSUME NEW l \in Locals, Listed(l, s) PROVE l = Head(s) \/ Listed(l, Tail(s))
  <2>1. PICK n \in 1..Len(s) : s[n] = l
    BY <1>4 DEF Listed
  <2>2. CASE n = 1
    BY <1>1, <2>1, <2>2
  <2>3. CASE n # 1
    <3>1. n - 1 \in 1..Len(Tail(s)) /\ (n - 1) + 1 = n
      BY <1>1, <2>3
    <3>2. Tail(s)[n - 1] = l
      BY <1>2, <2>1, <3>1
    <3>3. QED  BY <3>1, <3>2 DEF Listed
  <2>4. QED  BY <2>2, <2>3
<1>5. ASSUME NEW l \in Locals, Listed(l, Tail(s)) PROVE Listed(l, s)
  BY <1>2, <1>5 DEF Listed
<1>6. QED  BY <1>1, <1>3, <1>4, <1>5

(* The names of a message are the ones in its list of recipients. *)
LEMMA NamedListed ==
    ASSUME E!EmailConstants, NEW m \in Mails
    PROVE  Recipients[m] \in Seq(Locals) /\ E!Named(m) \subseteq Locals /\ \A l \in Locals : l \in E!Named(m) <=> Listed(l, Recipients[m])
<1>1. Recipients[m] \in Seq(Locals)
  BY DEF E!EmailConstants
<1>2. QED  BY <1>1 DEF E!Named, Listed

(* A step of one post leaves the others as they are. *)
LEMMA OnePost ==
    ASSUME posts \in [Posts -> PostRows], NEW p \in Posts, NEW q \in PostRows, posts' = [posts EXCEPT ![p] = q]
    PROVE  posts' \in [Posts -> PostRows] /\ posts'[p] = q /\ \A o \in Posts \ {p} : posts'[o] = posts[o]
  OBVIOUS

(* A post that goes on to its next recipient. *)
LEMMA SkippedPost ==
    ASSUME NEW p \in Posts, posts[p] \in PostRows, posts[p].todo # <<>>, NEW R \in SUBSET Reasons
    PROVE  LET q == posts[p]
               t == E!Skipped(p, R)
           IN  /\ t \in PostRows /\ [t EXCEPT !.accepted = TRUE] \in PostRows
               /\ t.pc = "resolve" /\ t.mail = q.mail /\ t.todo = Tail(q.todo) /\ t.seen = q.seen /\ t.user = q.user
               /\ t.accepted = q.accepted /\ t.reasons = q.reasons \cup R
<1>1. Tail(posts[p].todo) \in Seq(Locals)
  BY ListedTail DEF PostRows
<1>2. QED  BY <1>1 DEF PostRows, E!Skipped

\* What only grows, and the owners of names that cannot have changed.
Growth ==
    /\ \A m \in Mails : tries[m] > 0 => tries'[m] > 0
    /\ everStored \subseteq everStored' /\ moved \subseteq moved' /\ faulted \subseteq faulted'
    /\ \A m \in Mails \ moved' : tries[m] > 0 => \A l \in E!Named(m) : inbox'[l] = inbox[l]

(* A post that does not move keeps what it knows while others move. *)
LEMMA FitsStill ==
    ASSUME E!EmailConstants, Growth, NEW p \in Posts, posts[p] \in PostRows, PostFits(p), posts'[p] = posts[p]
    PROVE  PostFits(p)'
<1> DEFINE q == posts[p]
<1>1. q.mail \in Mails /\ tries[q.mail] > 0 /\ tries'[q.mail] > 0
  BY DEF PostFits, Growth
<1>2. q.mail \notin moved' => q.mail \notin moved /\ \A l \in E!Named(q.mail) : inbox'[l] = inbox[l]
  BY <1>1 DEF Growth
<1>3. q.todo # <<>> => Head(q.todo) \in E!Named(q.mail)
  BY ListedTail DEF PostFits, PostRows
<1>4. q.mail \in everStored => q.mail \in everStored'
  BY DEF Growth
<1>5. q.mail \notin faulted' => q.mail \notin faulted
  BY DEF Growth
<1>6. QED  BY <1>1, <1>2, <1>3, <1>4, <1>5 DEF PostFits, Had

(* A message keeps its account while nothing of it is stored or answered. *)
LEMMA MailStill ==
    ASSUME E!EmailConstants, Growth, NEW m \in Mails, MailFits(m), InboundTypes,
           UNCHANGED <<sender, everStored>>, \A u \in Users : rows'[u][m] = rows[u][m]
    PROVE  MailFits(m)'
<1>1. m \in everStored \/ sender[m] # "open" => tries[m] > 0 /\ tries'[m] > 0
  BY DEF MailFits, Growth
<1>2. m \notin moved' /\ tries[m] > 0 => m \notin moved /\ \A l \in E!Named(m) : inbox'[l] = inbox[l]
  BY DEF Growth
<1>3. m \notin faulted' => m \notin faulted
  BY DEF Growth
<1>4. QED  BY <1>1, <1>2, <1>3 DEF MailFits

\* A step of one post that stores nothing and answers nobody.
LEMMA PostMoves ==
    ASSUME E!EmailConstants, InboundInv, NEW p \in Posts, NEW q \in PostRows, posts' = [posts EXCEPT ![p] = q],
           q.pc # "idle" => PostFits(p)',
           UNCHANGED <<inbox, quarantines, rows, class, received, sender, everStored, moved>>,
           tries' \in [Mails -> Nat], \A m \in Mails : tries[m] > 0 => tries'[m] > 0,
           faulted \subseteq faulted', faulted' \subseteq Mails
    PROVE  InboundInv'
<1>1. Growth
  BY DEF Growth
<1>2. posts' \in [Posts -> PostRows] /\ posts'[p] = q /\ \A o \in Posts \ {p} : posts'[o] = posts[o]
  BY OnePost DEF InboundInv, InboundTypes
<1>3. InboundTypes'
  BY <1>2 DEF InboundInv, InboundTypes
<1>4. ASSUME NEW o \in Posts, posts'[o].pc # "idle" PROVE PostFits(o)'
  <2>1. CASE o = p
    BY <1>2, <1>4, <2>1
  <2>2. CASE o # p
    BY <1>1, <1>2, <1>4, <2>2, FitsStill DEF InboundInv, InboundTypes
  <2>3. QED  BY <2>1, <2>2
<1>5. ASSUME NEW m \in Mails PROVE MailFits(m)'
  BY <1>1, MailStill DEF InboundInv
<1>6. QED  BY <1>3, <1>4, <1>5 DEF InboundInv

\* A capability changes no post.
LEMMA PostsStay ==
    ASSUME E!EmailConstants, InboundInv, InboundTypes', UNCHANGED <<sender, tries, posts, everStored, faulted>>,
           moved \subseteq moved', \A m \in Mails \ moved' : tries[m] > 0 => \A l \in E!Named(m) : inbox'[l] = inbox[l],
           \A u \in Users, m \in Mails : rows'[u][m] <= rows[u][m]
    PROVE  InboundInv'
<1>1. Growth
  BY DEF Growth
<1>2. ASSUME NEW o \in Posts, posts'[o].pc # "idle" PROVE PostFits(o)'
  BY <1>1, <1>2, FitsStill DEF InboundInv, InboundTypes
<1>3. ASSUME NEW m \in Mails PROVE MailFits(m)'
  <2>1. \A u \in Users : rows[u][m] \in Nat /\ rows'[u][m] \in Nat
    BY DEF InboundInv, InboundTypes
  <2>2. \A u \in Users : (m \notin Anonymous => rows'[u][m] <= 1) /\ (rows'[u][m] > 0 => m \in everStored)
    BY <2>1 DEF InboundInv, MailFits
  <2>3. m \in everStored \/ sender[m] # "open" => tries[m] > 0
    BY DEF InboundInv, MailFits
  <2>4. QED  BY <1>1, <2>2, <2>3 DEF Growth, InboundInv, MailFits
<1>4. QED  BY <1>2, <1>3 DEF InboundInv

(* No message was offered yet. *)
LEMMA InboundInit == ASSUME E!EmailConstants, E!Init PROVE InboundInv
<1>1. InboundTypes
  BY DEF E!EmailConstants, E!Init, InboundTypes, PostRows, E!NoPost, Kinds
<1>2. \A p \in Posts : posts[p].pc = "idle"
  BY DEF E!Init, E!NoPost
<1>3. \A m \in Mails : MailFits(m)
  BY DEF E!Init, MailFits
<1>4. QED  BY <1>1, <1>2, <1>3 DEF InboundInv

\* A copy is stored where there was none.
LEMMA RowStored ==
    ASSUME E!EmailConstants, InboundInv, NEW p \in Posts, posts[p].pc = "store", ~E!Duplicate(posts[p].user, posts[p].mail),
           posts[p].mail \notin Large, E!StoreRow(p),
           UNCHANGED <<inbox, quarantines, sender, tries, moved>>, faulted \subseteq faulted', faulted' \subseteq Mails,
           NEW q \in PostRows, posts' = [posts EXCEPT ![p] = q], PostFits(p)'
    PROVE  InboundInv'
<1> DEFINE m == posts[p].mail
           u == posts[p].user
<1> USE DEF E!StoreRow
<1>1. InboundTypes /\ posts[p] \in PostRows /\ PostFits(p)
  BY DEF InboundInv, InboundTypes
<1>2. m \in Mails /\ u \in Users /\ tries[m] > 0 /\ posts[p].class \in Kinds /\ posts[p].todo # <<>>
  BY <1>1 DEF PostFits, PostRows
<1>3. rows[u][m] \in Nat /\ (m \notin Anonymous => rows[u][m] = 0) /\ received[u] \in Nat
  BY <1>1, <1>2 DEF InboundTypes, E!Duplicate
<1>4. /\ rows' \in [Users -> [Mails -> Nat]] /\ rows'[u][m] = rows[u][m] + 1
      /\ \A v \in Users, n \in Mails : <<v, n>> # <<u, m>> => rows'[v][n] = rows[v][n]
  BY <1>1, <1>2, <1>3 DEF InboundTypes
<1>5. class' \in [Users -> [Mails -> Kinds]] /\ received' \in [Users -> Nat]
  BY <1>1, <1>2, <1>3 DEF InboundTypes
<1>6. posts' \in [Posts -> PostRows] /\ posts'[p] = q /\ \A o \in Posts \ {p} : posts'[o] = posts[o]
  BY <1>1, OnePost DEF InboundTypes
<1>7. InboundTypes'
  BY <1>1, <1>2, <1>4, <1>5, <1>6 DEF InboundTypes
<1>8. Growth
  BY DEF Growth
<1>9. ASSUME NEW o \in Posts, posts'[o].pc # "idle" PROVE PostFits(o)'
  <2>1. CASE o # p
    BY <1>6, <1>8, <1>9, <2>1, FitsStill DEF InboundInv, InboundTypes
  <2>2. QED  BY <2>1
<1>10. m \notin moved => \E l \in E!Named(m) : inbox[l] # None
  <2>1. Head(posts[p].todo) \in E!Named(m)
    BY <1>1, <1>2, ListedTail DEF PostFits, PostRows
  <2>2. QED  BY <1>1, <1>2, <2>1 DEF PostFits, E!EmailConstants
<1>11. \A n \in Mails : faulted' \subseteq Mails /\ (n \notin faulted' => n \notin faulted)
  OBVIOUS
<1>12. ASSUME NEW n \in Mails PROVE MailFits(n)'
  <2>1. MailFits(n)
    BY DEF InboundInv
  <2>2. \A v \in Users : (n \notin Anonymous => rows'[v][n] <= 1) /\ (rows'[v][n] > 0 => n \in everStored')
    BY <1>2, <1>3, <1>4, <2>1 DEF MailFits
  <2>3. n \in everStored' \/ sender'[n] # "open" => tries'[n] > 0
    BY <1>2, <2>1 DEF MailFits
  <2>4. n \in everStored' \ moved' => \E l \in E!Named(n) : inbox'[l] # None
    BY <1>10, <2>1 DEF MailFits
  <2>5. sender'[n] = "accepted" => n \in everStored'
    BY <2>1 DEF MailFits
  <2>6. sender'[n] = "refused" /\ n \notin moved' \cup faulted' => \A l \in E!Named(n) : inbox'[l] = None
    BY <2>1, <1>11 DEF MailFits
  <2>7. (n \in Large => n \notin everStored') /\ (sender'[n] = "too_large" => n \in Large)
    BY <2>1 DEF MailFits
  <2>8. QED  BY <2>2, <2>3, <2>4, <2>5, <2>6, <2>7 DEF MailFits
<1>13. QED  BY <1>7, <1>9, <1>12 DEF InboundInv

(* Every step of a post through handleEmailInbound keeps the account of inbound mail, also one that fails or overlaps another. *)
LEMMA DeliveryStep == ASSUME E!EmailConstants, InboundInv, E!Delivery PROVE InboundInv'
<1> USE DEF E!inVars
<1>1. InboundTypes /\ \A p \in Posts : posts[p] \in PostRows /\ (posts[p].pc # "idle" => PostFits(p))
  BY DEF InboundInv, InboundTypes
<1>2. CASE E!NextDay
  <2>1. InboundTypes'
    BY <1>1, <1>2 DEF E!NextDay, InboundTypes
  <2>2. \A u \in Users, m \in Mails : rows'[u][m] <= rows[u][m]
    BY <1>1, <1>2 DEF E!NextDay, InboundTypes
  <2>3. QED  BY <1>2, <2>1, <2>2, PostsStay DEF E!NextDay
<1>3. ASSUME NEW p \in Posts, NEW m \in Mails, E!Forward(p, m) PROVE InboundInv'
  <2> DEFINE q == [E!NoPost EXCEPT !.pc = "resolve", !.mail = m, !.todo = Recipients[m], !.waiting = TRUE]
  <2>1. q \in PostRows /\ q.pc = "resolve" /\ q.mail = m /\ q.todo = Recipients[m] /\ q.seen = {} /\ ~q.accepted /\ q.reasons = {}
    BY NamedListed DEF E!NoPost, PostRows, Kinds
  <2> HIDE DEF q
  <2>2. posts' = [posts EXCEPT ![p] = q]
    BY <1>3 DEF E!Forward, q
  <2>3. tries' \in [Mails -> Nat] /\ tries'[m] > 0 /\ \A n \in Mails : tries[n] > 0 => tries'[n] > 0
    BY <1>1, <1>3 DEF E!Forward, InboundTypes
  <2>4. posts'[p] = q
    BY <1>1, <2>1, <2>2, OnePost DEF InboundTypes
  <2>5. PostFits(p)'
    BY <2>1, <2>3, <2>4, NamedListed DEF PostFits
  <2>6. QED  BY <1>3, <2>1, <2>2, <2>3, <2>5, PostMoves DEF E!Forward, InboundInv, InboundTypes
<1>4. ASSUME NEW p \in Posts, E!ForwardTimesOut(p) PROVE InboundInv'
  <2> DEFINE q == [posts[p] EXCEPT !.waiting = FALSE]
  <2>1. /\ q \in PostRows /\ q.pc = posts[p].pc /\ q.mail = posts[p].mail /\ q.todo = posts[p].todo /\ q.seen = posts[p].seen
        /\ q.accepted = posts[p].accepted /\ q.reasons = posts[p].reasons /\ q.user = posts[p].user
    BY <1>1 DEF PostRows
  <2> HIDE DEF q
  <2>2. posts' = [posts EXCEPT ![p] = q]
    BY <1>4 DEF E!ForwardTimesOut, q
  <2>3. posts'[p] = q
    BY <1>1, <2>1, <2>2, OnePost DEF InboundTypes
  <2>4. UNCHANGED <<inbox, tries, everStored, moved, faulted>>
    BY <1>4 DEF E!ForwardTimesOut
  <2>5. q.pc # "idle" => PostFits(p)'
    BY <1>1, <2>1, <2>3, <2>4 DEF PostFits, Had
  <2>6. QED  BY <1>4, <2>1, <2>2, <2>5, PostMoves DEF E!ForwardTimesOut, InboundInv, InboundTypes
<1>5. E!NoPost \in PostRows /\ E!NoPost.pc = "idle"
  BY DEF E!NoPost, PostRows, Kinds
<1>6. ASSUME NEW p \in Posts, E!Crash(p) PROVE InboundInv'
  BY <1>5, <1>6, PostMoves DEF E!Crash, InboundInv, InboundTypes
<1>7. ASSUME NEW p \in Posts, E!inboxResolve(p) PROVE InboundInv'
  <2> DEFINE user == inbox[Head(posts[p].todo)]
  <2>1. /\ posts[p].pc = "resolve" /\ posts[p].todo # <<>> /\ PostFits(p)
        /\ UNCHANGED <<inbox, quarantines, rows, class, received, sender, tries, everStored, moved, faulted>>
    BY <1>1, <1>7 DEF E!inboxResolve, E!At
  <2>2. /\ Tail(posts[p].todo) \in Seq(Locals) /\ Head(posts[p].todo) \in Locals
        /\ \A l \in Locals : Listed(l, posts[p].todo) <=> l = Head(posts[p].todo) \/ Listed(l, Tail(posts[p].todo))
    BY <1>1, <2>1, ListedTail DEF PostRows
  <2>3. user \in Users \cup {None} /\ Head(posts[p].todo) \in E!Named(posts[p].mail) /\ E!Named(posts[p].mail) \subseteq Locals
    BY <1>1, <2>1, <2>2, NamedListed DEF InboundTypes, PostFits
  <2>4. CASE user = None
    <3>1. posts' = [posts EXCEPT ![p] = E!Skipped(p, {"no_inbox"})]
      BY <1>7, <2>4 DEF E!inboxResolve
    <3> DEFINE t == E!Skipped(p, {"no_inbox"})
    <3>2. t \in PostRows /\ t.pc = "resolve" /\ t.mail = posts[p].mail /\ t.todo = Tail(posts[p].todo)
          /\ t.seen = posts[p].seen /\ t.accepted = posts[p].accepted /\ t.reasons = posts[p].reasons \cup {"no_inbox"}
      <4>1. {"no_inbox"} \in SUBSET Reasons
        BY DEF Reasons
      <4>2. QED  BY <1>1, <2>1, <4>1, SkippedPost
    <3> HIDE DEF t
    <3>3. posts' = [posts EXCEPT ![p] = t]
      BY <3>1 DEF t
    <3>4. /\ posts'[p] = t /\ posts'[p] \in PostRows /\ posts'[p].pc = "resolve"
          /\ posts'[p].mail = posts[p].mail /\ posts'[p].todo = Tail(posts[p].todo) /\ posts'[p].seen = posts[p].seen
          /\ posts'[p].accepted = posts[p].accepted /\ posts'[p].reasons = posts[p].reasons \cup {"no_inbox"}
      BY <1>1, <3>2, <3>3, OnePost DEF InboundTypes
    <3>5. PostFits(p)'
      BY <2>1, <2>2, <2>3, <2>4, <3>4 DEF PostFits, Had
    <3>6. QED  BY <2>1, <3>2, <3>3, <3>5, PostMoves DEF InboundInv, InboundTypes
  <2>5. CASE user # None /\ user \in posts[p].seen
    <3>1. posts' = [posts EXCEPT ![p] = E!Skipped(p, {})]
      BY <1>7, <2>5 DEF E!inboxResolve
    <3> DEFINE t == E!Skipped(p, {})
    <3>2. t \in PostRows /\ t.pc = "resolve" /\ t.mail = posts[p].mail /\ t.todo = Tail(posts[p].todo)
          /\ t.seen = posts[p].seen /\ t.accepted = posts[p].accepted /\ t.reasons = posts[p].reasons \cup {}
      <4>1. {} \in SUBSET Reasons
        BY DEF Reasons
      <4>2. QED  BY <1>1, <2>1, <4>1, SkippedPost
    <3> HIDE DEF t
    <3>3. posts' = [posts EXCEPT ![p] = t]
      BY <3>1 DEF t
    <3>4. /\ posts'[p] = t /\ posts'[p] \in PostRows /\ posts'[p].pc = "resolve"
          /\ posts'[p].mail = posts[p].mail /\ posts'[p].todo = Tail(posts[p].todo) /\ posts'[p].seen = posts[p].seen
          /\ posts'[p].accepted = posts[p].accepted /\ posts'[p].reasons = posts[p].reasons \cup {}
      BY <1>1, <3>2, <3>3, OnePost DEF InboundTypes
    <3>5. PostFits(p)'
      BY <2>1, <2>2, <2>3, <2>5, <3>4 DEF PostFits, Had
    <3>6. QED  BY <1>1, <2>1, <3>4, <3>5, <3>3, PostMoves DEF InboundInv, InboundTypes
  <2>6. CASE user # None /\ user \notin posts[p].seen
    <3> DEFINE q == [posts[p] EXCEPT !.pc = "classify", !.user = user, !.seen = posts[p].seen \cup {user}]
    <3>1. /\ q \in PostRows /\ q.pc = "classify" /\ q.mail = posts[p].mail /\ q.todo = posts[p].todo
          /\ q.seen = posts[p].seen \cup {user} /\ q.user = user
          /\ q.accepted = posts[p].accepted /\ q.reasons = posts[p].reasons
      BY <1>1, <2>3, <2>6 DEF PostRows
    <3> HIDE DEF q
    <3>2. posts' = [posts EXCEPT ![p] = q]
      BY <1>7, <2>6 DEF E!inboxResolve, q
    <3>3. posts'[p] = q
      BY <1>1, <3>1, <3>2, OnePost DEF InboundTypes
    <3>4. PostFits(p)'
      BY <2>1, <2>3, <2>6, <3>1, <3>3 DEF PostFits, Had
    <3>5. QED  BY <2>1, <3>1, <3>2, <3>4, PostMoves DEF InboundInv, InboundTypes
  <2>7. QED  BY <2>4, <2>5, <2>6
<1>8. ASSUME NEW p \in Posts, E!emailClassify(p) PROVE InboundInv'
  <2> DEFINE k == IF posts[p].user \in quarantines THEN "quarantine" ELSE "inbox"
             q == [posts[p] EXCEPT !.pc = "store", !.class = k]
  <2>1. /\ q \in PostRows /\ q.pc = "store" /\ q.mail = posts[p].mail /\ q.todo = posts[p].todo /\ q.seen = posts[p].seen
        /\ q.accepted = posts[p].accepted /\ q.reasons = posts[p].reasons /\ q.user = posts[p].user
    BY <1>1 DEF PostRows, Kinds
  <2>2. posts' = [posts EXCEPT ![p] = q]
    BY <1>8 DEF E!emailClassify
  <2> HIDE DEF q
  <2>3. posts[p].pc = "classify" /\ UNCHANGED <<inbox, tries, everStored, moved, faulted>>
    BY <1>8 DEF E!emailClassify, E!At
  <2>4. posts'[p] = q
    BY <1>1, <2>1, <2>2, OnePost DEF InboundTypes
  <2>5. PostFits(p)'
    BY <1>1, <2>1, <2>3, <2>4 DEF PostFits, Had
  <2>6. QED  BY <1>8, <2>1, <2>2, <2>5, PostMoves DEF E!emailClassify, InboundInv, InboundTypes
<1>9. ASSUME NEW p \in Posts, posts[p].pc = "store"
      PROVE  /\ PostFits(p) /\ posts[p].todo # <<>> /\ posts[p].seen # {}
             /\ \A l \in Locals : Listed(l, Tail(posts[p].todo)) => Listed(l, posts[p].todo)
  <2>1. PostFits(p) /\ posts[p].todo # <<>> /\ posts[p].seen # {}
    BY <1>1, <1>9 DEF PostFits
  <2>2. QED  BY <1>1, <2>1, ListedTail DEF PostRows
<1>10. ASSUME NEW p \in Posts, E!emailMessageStore(p) PROVE InboundInv'
  <2> DEFINE m == posts[p].mail
             u == posts[p].user
  <2>1. posts[p].pc = "store" /\ UNCHANGED <<inbox, quarantines, sender, tries, moved, faulted>>
    BY <1>10 DEF E!emailMessageStore, E!At
  <2>2. ASSUME NEW R \in SUBSET Reasons, posts' = [posts EXCEPT ![p] = E!Skipped(p, R)], R \in {{"duplicate"}, {"quota"}, {"too_large"}},
               "duplicate" \in R => E!Duplicate(u, m), "too_large" \in R => m \in Large,
               UNCHANGED <<rows, class, received, everStored>>
        PROVE  InboundInv'
    <3> DEFINE t == E!Skipped(p, R)
    <3>1. /\ t \in PostRows /\ t.pc = "resolve" /\ t.mail = m /\ t.todo = Tail(posts[p].todo)
          /\ t.seen = posts[p].seen /\ t.accepted = posts[p].accepted /\ t.reasons = posts[p].reasons \cup R
      BY <1>1, <1>9, <2>1, SkippedPost
    <3> HIDE DEF t
    <3>2. posts' = [posts EXCEPT ![p] = t]
      BY <2>2 DEF t
    <3>3. posts'[p] = t
      BY <1>1, <3>1, <3>2, OnePost DEF InboundTypes
    <3>4. "duplicate" \in R => m \in everStored
      <4>1. m \in Mails /\ u \in Users
        BY <1>9, <2>1 DEF PostFits
      <4>2. QED  BY <2>2, <4>1 DEF E!Duplicate, InboundInv, MailFits
    <3>5. PostFits(p)'
      BY <1>9, <2>1, <2>2, <3>1, <3>3, <3>4 DEF PostFits, Had
    <3>6. QED  BY <1>1, <2>1, <2>2, <3>1, <3>2, <3>5, PostMoves DEF InboundTypes
  <2>3. PICK full \in BOOLEAN :
           LET fails == E!Refusal(u, m, full)
           IN  \/ fails # {} /\ posts' = [posts EXCEPT ![p] = E!Skipped(p, fails)] /\ UNCHANGED <<rows, class, received, everStored>>
               \/ fails = {} /\ posts' = [posts EXCEPT ![p] = [E!Skipped(p, {}) EXCEPT !.accepted = TRUE]] /\ E!StoreRow(p)
    BY <1>10 DEF E!emailMessageStore
  <2>4. CASE E!Refusal(u, m, full) # {}
    <3> DEFINE R == E!Refusal(u, m, full)
    <3>1. /\ R \in {{"duplicate"}, {"quota"}, {"too_large"}} /\ R \in SUBSET Reasons
          /\ ("duplicate" \in R => E!Duplicate(u, m)) /\ ("too_large" \in R => m \in Large)
      BY <2>4 DEF E!Refusal, Reasons
    <3>2. posts' = [posts EXCEPT ![p] = E!Skipped(p, R)] /\ UNCHANGED <<rows, class, received, everStored>>
      BY <2>3, <2>4
    <3> HIDE DEF R
    <3>3. QED  BY <2>2, <3>1, <3>2
  <2>5. CASE E!Refusal(u, m, full) = {}
    <3> DEFINE t == [E!Skipped(p, {}) EXCEPT !.accepted = TRUE]
    <3>1. /\ t \in PostRows /\ t.pc = "resolve" /\ t.mail = m /\ t.todo = Tail(posts[p].todo)
          /\ t.seen = posts[p].seen /\ t.accepted /\ t.reasons = posts[p].reasons
      <4>1. E!Skipped(p, {}) \in PostRows /\ t \in PostRows /\ E!Skipped(p, {}).pc = "resolve" /\ E!Skipped(p, {}).mail = m
            /\ E!Skipped(p, {}).todo = Tail(posts[p].todo) /\ E!Skipped(p, {}).seen = posts[p].seen
            /\ E!Skipped(p, {}).reasons = posts[p].reasons
        <5>1. {} \in SUBSET Reasons /\ posts[p].reasons \cup {} = posts[p].reasons
          OBVIOUS
        <5>2. QED  BY <1>1, <1>9, <2>1, <5>1, SkippedPost
      <4>2. QED  BY <4>1 DEF PostRows
    <3> HIDE DEF t
    <3>2. /\ posts' = [posts EXCEPT ![p] = t] /\ E!StoreRow(p) /\ everStored' = everStored \cup {m}
          /\ ~E!Duplicate(u, m) /\ m \notin Large
      BY <2>3, <2>5 DEF E!Refusal, E!StoreRow, t
    <3>3. posts'[p] = t
      BY <1>1, <3>1, <3>2, OnePost DEF InboundTypes
    <3>4. PostFits(p)'
      BY <1>9, <2>1, <3>1, <3>2, <3>3 DEF PostFits, Had
    <3>5. QED  BY <1>1, <2>1, <3>1, <3>2, <3>4, RowStored DEF InboundTypes
  <2>6. QED  BY <2>4, <2>5
<1>11. ASSUME NEW p \in Posts, E!StoreFails(p) PROVE InboundInv'
  <2> DEFINE m == posts[p].mail
             t == E!Skipped(p, {"store_failed"})
  <2>1. posts[p].pc = "store" /\ UNCHANGED <<inbox, quarantines, sender, tries, moved>> /\ faulted' = faulted \cup {m}
    BY <1>11 DEF E!StoreFails, E!At
  <2>2. /\ t \in PostRows /\ t.pc = "resolve" /\ t.mail = m /\ t.todo = Tail(posts[p].todo)
        /\ t.seen = posts[p].seen /\ t.accepted = posts[p].accepted /\ t.reasons = posts[p].reasons \cup {"store_failed"}
    <3>1. {"store_failed"} \in SUBSET Reasons
      BY DEF Reasons
    <3>2. QED  BY <1>1, <1>9, <2>1, <3>1, SkippedPost
  <2> HIDE DEF t
  <2>3. posts' = [posts EXCEPT ![p] = t]
    BY <1>11 DEF E!StoreFails, t
  <2>4. posts'[p] = t
    BY <1>1, <2>2, <2>3, OnePost DEF InboundTypes
  <2>5. everStored \subseteq everStored'
    BY <1>11 DEF E!StoreFails, E!StoreRow
  <2>6. PostFits(p)'
    BY <1>9, <2>1, <2>2, <2>4, <2>5 DEF PostFits, Had
  <2>7. faulted \subseteq faulted' /\ faulted' \subseteq Mails
    BY <1>1, <1>9, <2>1 DEF InboundTypes, PostFits
  <2>8. CASE UNCHANGED <<rows, class, received, everStored>>
    BY <1>1, <2>1, <2>2, <2>3, <2>6, <2>7, <2>8, PostMoves DEF InboundTypes
  <2>9. CASE E!Refusal(posts[p].user, m, FALSE) = {} /\ E!StoreRow(p)
    <3>1. ~E!Duplicate(posts[p].user, m) /\ m \notin Large
      BY <2>9 DEF E!Refusal
    <3>2. QED  BY <1>1, <2>1, <2>2, <2>3, <2>6, <2>7, <2>9, <3>1, RowStored DEF InboundTypes
  <2>10. QED  BY <1>11, <2>8, <2>9 DEF E!StoreFails
<1>12. ASSUME NEW p \in Posts, E!Answer(p) PROVE InboundInv'
  <2> DEFINE m == posts[p].mail
  <2>1. /\ posts[p].pc = "resolve" /\ posts[p].todo = <<>> /\ PostFits(p) /\ posts' = [posts EXCEPT ![p] = E!NoPost]
        /\ UNCHANGED <<inbox, quarantines, rows, class, received, tries, everStored, moved, faulted>>
        /\ \/ sender' = sender
           \/ sender' = [sender EXCEPT ![m] = E!Reply(posts[p])]
    BY <1>1, <1>12 DEF E!Answer, E!At
  <2>2. CASE sender' = sender
    BY <1>1, <1>5, <2>1, <2>2, PostMoves DEF InboundTypes
  <2>3. CASE sender' = [sender EXCEPT ![m] = E!Reply(posts[p])]
    <3>1. m \in Mails /\ E!Reply(posts[p]) \in {"open", "accepted", "refused", "too_large"}
      BY <2>1 DEF PostFits, E!Reply
    <3>2. posts' \in [Posts -> PostRows] /\ posts'[p] = E!NoPost /\ \A o \in Posts \ {p} : posts'[o] = posts[o]
      BY <1>1, <1>5, <2>1, OnePost DEF InboundTypes
    <3>3. InboundTypes'
      BY <1>1, <2>1, <2>3, <3>1, <3>2 DEF InboundTypes
    <3>4. Growth
      BY <2>1 DEF Growth
    <3>5. ASSUME NEW o \in Posts, posts'[o].pc # "idle" PROVE PostFits(o)'
      BY <1>1, <1>5, <3>2, <3>4, <3>5, FitsStill
    <3>6. (E!Reply(posts[p]) = "accepted" => m \in everStored) /\ (E!Reply(posts[p]) = "too_large" => m \in Large)
      BY <2>1 DEF E!Reply, PostFits
    <3>7. E!Reply(posts[p]) = "refused" /\ m \notin moved \cup faulted => \A l \in E!Named(m) : inbox[l] = None
      <4>1. \A l \in Locals : ~Listed(l, posts[p].todo)
        BY <2>1 DEF Listed
      <4>2. E!Named(m) \subseteq Locals
        BY <3>1, NamedListed
      <4>3. QED  BY <2>1, <4>1, <4>2 DEF E!Reply, PostFits, Had
    <3>8. tries[m] > 0
      BY <2>1 DEF PostFits
    <3>9. ASSUME NEW n \in Mails PROVE MailFits(n)'
      <4>1. CASE n = m
        BY <1>1, <2>1, <2>3, <3>1, <3>6, <3>7, <3>8, <4>1 DEF InboundInv, InboundTypes, MailFits
      <4>2. CASE n # m
        BY <1>1, <2>1, <2>3, <3>1, <4>2 DEF InboundInv, InboundTypes, MailFits
      <4>3. QED  BY <4>1, <4>2
    <3>10. QED  BY <3>3, <3>5, <3>9 DEF InboundInv
  <2>4. QED  BY <2>1, <2>2, <2>3
<1>13. QED  BY <1>2, <1>3, <1>4, <1>6, <1>7, <1>8, <1>10, <1>11, <1>12 DEF E!Delivery

(* The capabilities of the inbox keep it: a name that changes hands is on record for the messages already offered. *)
LEMMA InboxStep == ASSUME E!EmailConstants, InboundInv, E!Inbox PROVE InboundInv'
<1>1. InboundTypes
  BY DEF InboundInv
<1>2. \A u \in Users, m \in Mails : rows[u][m] \in Nat
  BY <1>1 DEF InboundTypes
<1>3. ASSUME NEW u \in Users, NEW l \in Locals, E!inboxClaim(u, l) \/ E!inboxRelease(u, l) PROVE InboundInv'
  <2>1. /\ inbox' = [inbox EXCEPT ![l] = u] \/ inbox' = [inbox EXCEPT ![l] = None]
        /\ moved' = moved \cup E!Offered(l)
        /\ UNCHANGED <<quarantines, rows, class, received, sender, tries, posts, everStored, faulted>>
    BY <1>3 DEF E!inboxClaim, E!inboxRelease
  <2>2. E!Offered(l) \subseteq Mails /\ \A m \in Mails \ moved' : tries[m] > 0 => l \notin E!Named(m)
    BY <2>1 DEF E!Offered
  <2>3. InboundTypes'
    BY <1>1, <2>1, <2>2 DEF InboundTypes
  <2>4. \A m \in Mails \ moved' : tries[m] > 0 => \A k \in E!Named(m) : inbox'[k] = inbox[k]
    <3>1. \A k \in Locals \ {l} : inbox'[k] = inbox[k]
      BY <1>1, <2>1 DEF InboundTypes
    <3>2. QED  BY <2>2, <3>1, NamedListed
  <2>5. QED  BY <1>2, <2>1, <2>3, <2>4, PostsStay
<1>4. ASSUME NEW u \in Users, NEW m \in Mails, E!emailMessageDelete(u, m) PROVE InboundInv'
  <2>1. /\ rows[u][m] > 0 /\ rows' = [rows EXCEPT ![u][m] = @ - 1]
        /\ UNCHANGED <<inbox, quarantines, class, received, sender, tries, posts, everStored, moved, faulted>>
    BY <1>4 DEF E!emailMessageDelete
  <2>2. rows' \in [Users -> [Mails -> Nat]] /\ \A v \in Users, n \in Mails : rows'[v][n] <= rows[v][n]
    BY <1>1, <1>2, <2>1 DEF InboundTypes
  <2>3. InboundTypes'
    BY <1>1, <2>1, <2>2 DEF InboundTypes
  <2>4. QED  BY <2>1, <2>2, <2>3, PostsStay
<1>5. ASSUME NEW u \in Users, NEW m \in Mails, E!emailMessageRelease(u, m) PROVE InboundInv'
  <2>1. /\ class' = [class EXCEPT ![u][m] = "inbox"]
        /\ UNCHANGED <<inbox, quarantines, rows, received, sender, tries, posts, everStored, moved, faulted>>
    BY <1>5 DEF E!emailMessageRelease
  <2>2. InboundTypes'
    BY <1>1, <2>1 DEF InboundTypes, Kinds
  <2>3. QED  BY <1>2, <2>1, <2>2, PostsStay
<1>6. ASSUME NEW u \in Users, E!emailSenderRuleSet(u) PROVE InboundInv'
  <2>1. /\ quarantines' \in {quarantines \cup {u}, quarantines \ {u}}
        /\ UNCHANGED <<inbox, rows, class, received, sender, tries, posts, everStored, moved, faulted>>
    BY <1>6 DEF E!emailSenderRuleSet
  <2>2. InboundTypes'
    BY <1>1, <2>1 DEF InboundTypes
  <2>3. QED  BY <1>2, <2>1, <2>2, PostsStay
<1>7. QED  BY <1>3, <1>4, <1>5, <1>6 DEF E!Inbox

(* Sending mail and destinations leave inbound mail alone. *)
LEMMA OutLeavesIn == E!Compose \/ E!Outgoing \/ E!Destinations => UNCHANGED E!inVars
<1>1. E!Compose => UNCHANGED E!inVars
  BY DEF E!Compose, E!emailSend, E!emailReply, E!SendCode
<1>2. E!Outgoing => UNCHANGED E!inVars
  BY DEF E!Outgoing, E!SendCheck, E!SendStore, E!sendOutbound, E!SendFails, E!outboundEmailIndexSet, E!SendEnds, E!SendCrashes,
         E!OutDelete, E!deliver, E!ReportLost, E!EventResolve, E!EventApply
<1>3. E!Destinations => UNCHANGED E!inVars
  BY DEF E!Destinations, E!ensureAccountDestination, E!emailDestinationBegin, E!emailDestinationVerify, E!CodeExpires,
         E!emailDestinationSetDefault, E!emailDestinationRemove, E!VerifyRead
<1>4. QED  BY <1>1, <1>2, <1>3

(* Every step keeps the account of inbound mail. *)
LEMMA InboundStep == ASSUME E!EmailConstants, InboundInv, [E!Next]_E!vars PROVE InboundInv'
<1>1. CASE E!Delivery
  BY <1>1, DeliveryStep
<1>2. CASE E!Inbox
  BY <1>2, InboxStep
<1>3. CASE UNCHANGED E!inVars
  <2>1. InboundTypes' /\ \A u \in Users, m \in Mails : rows'[u][m] <= rows[u][m]
    BY <1>3 DEF InboundInv, InboundTypes, E!inVars
  <2>2. QED  BY <1>3, <2>1, PostsStay DEF E!inVars
<1>4. UNCHANGED E!vars => UNCHANGED E!inVars
  BY DEF E!vars
<1>5. QED  BY <1>1, <1>2, <1>3, <1>4, OutLeavesIn DEF E!Next

(* Copies: what is stored of a message and what its posts can still store is no more than its attempts. *)

Owes(p, u, m) ==
    /\ posts[p].pc # "idle" /\ posts[p].mail = m
    /\ u \in posts[p].seen => posts[p].pc \in {"classify", "store"} /\ posts[p].user = u
Owing(u, m) == {p \in Posts : Owes(p, u, m)}
CopyInv == \A u \in Users, m \in Mails : rows[u][m] + Cardinality(Owing(u, m)) <= tries[m]

(* The posts at once are finitely many. *)
LEMMA PostsFinite == ASSUME E!EmailConstants PROVE IsFiniteSet(Posts)
  BY DEF E!EmailConstants, E!IsFiniteSet, IsFiniteSet

(* The posts that owe a copy are finitely many. *)
LEMMA OwingFinite == ASSUME E!EmailConstants, NEW u, NEW m PROVE IsFiniteSet(Owing(u, m)) /\ Cardinality(Owing(u, m)) \in Nat
<1>1. Owing(u, m) \subseteq Posts /\ IsFiniteSet(Posts)
  BY PostsFinite DEF Owing
<1>2. IsFiniteSet(Owing(u, m))
  BY <1>1, FS_Subset
<1>3. QED  BY <1>2, FS_CardinalityType

(* A set of posts with fewer members counts less. *)
LEMMA FewerPosts ==
    ASSUME E!EmailConstants, NEW S \in SUBSET Posts, NEW T \in SUBSET S
    PROVE  Cardinality(T) <= Cardinality(S) /\ Cardinality(S) \in Nat /\ Cardinality(T) \in Nat
<1>1. IsFiniteSet(S)
  BY PostsFinite, FS_Subset
<1>2. IsFiniteSet(T) /\ Cardinality(T) <= Cardinality(S)
  BY <1>1, FS_Subset
<1>3. QED  BY <1>1, <1>2, FS_CardinalityType

\* No copy is added and no post owes one that did not.
LEMMA CopiesStay ==
    ASSUME E!EmailConstants, InboundInv, InboundTypes', CopyInv, NEW u \in Users, NEW m \in Mails,
           rows'[u][m] <= rows[u][m], tries'[m] >= tries[m], Owing(u, m)' \subseteq Owing(u, m)
    PROVE  rows'[u][m] + Cardinality(Owing(u, m))' <= tries'[m]
<1> DEFINE S == Owing(u, m)
           T == Owing(u, m)'
<1>1. S \in SUBSET Posts /\ T \in SUBSET S
  BY DEF Owing
<1>2. Cardinality(T) <= Cardinality(S) /\ Cardinality(S) \in Nat /\ Cardinality(T) \in Nat
  BY <1>1, FewerPosts
<1>3. rows[u][m] \in Nat /\ rows'[u][m] \in Nat /\ tries[m] \in Nat /\ tries'[m] \in Nat
  BY DEF InboundInv, InboundTypes
<1>4. rows[u][m] + Cardinality(S) <= tries[m]
  BY DEF CopyInv
<1>5. Cardinality(Owing(u, m))' = Cardinality(T)
  OBVIOUS
<1> HIDE DEF S, T
<1>6. QED  BY <1>2, <1>3, <1>4, <1>5

\* One post moves; what it owes then it owed before, and no copy is added.
LEMMA CopiesPost ==
    ASSUME E!EmailConstants, InboundInv, InboundTypes', CopyInv, NEW p \in Posts, NEW q, posts' = [posts EXCEPT ![p] = q],
           \A u \in Users, m \in Mails : rows'[u][m] <= rows[u][m] /\ tries'[m] >= tries[m],
           q.pc # "idle" => posts[p].pc # "idle" /\ q.mail = posts[p].mail,
           \A u \in Users : q.pc # "idle" /\ (u \in q.seen => q.pc \in {"classify", "store"} /\ q.user = u)
                            => (u \in posts[p].seen => posts[p].pc \in {"classify", "store"} /\ posts[p].user = u)
    PROVE  CopyInv'
<1>1. posts'[p] = q /\ \A o \in Posts \ {p} : posts'[o] = posts[o]
  BY DEF InboundInv, InboundTypes
<1>2. ASSUME NEW u \in Users, NEW m \in Mails PROVE Owing(u, m)' \subseteq Owing(u, m)
  <2>1. ASSUME NEW o \in Posts, Owes(o, u, m)' PROVE Owes(o, u, m)
    <3>1. CASE o = p
      BY <1>1, <2>1, <3>1 DEF Owes
    <3>2. CASE o # p
      BY <1>1, <2>1, <3>2 DEF Owes
    <3>3. QED  BY <3>1, <3>2
  <2>2. QED  BY <2>1 DEF Owing
<1>3. QED  BY <1>2, CopiesStay DEF CopyInv

\* A copy is stored: its post owes it no more.
LEMMA CopyStored ==
    ASSUME E!EmailConstants, InboundInv, InboundTypes', CopyInv, NEW p \in Posts, posts[p].pc = "store", E!StoreRow(p), tries' = tries,
           NEW q, posts' = [posts EXCEPT ![p] = q], q.pc = "resolve", q.mail = posts[p].mail, q.seen = posts[p].seen
    PROVE  CopyInv'
<1>0. PICK m \in Mails, u \in Users : m = posts[p].mail /\ u = posts[p].user /\ u \in posts[p].seen
  BY DEF InboundInv, PostFits
<1>1. posts'[p] = q /\ (\A o \in Posts \ {p} : posts'[o] = posts[o])
  BY DEF InboundInv, InboundTypes
<1>2. /\ rows[u][m] \in Nat /\ rows'[u][m] = rows[u][m] + 1
      /\ \A v \in Users, n \in Mails : <<v, n>> # <<u, m>> => rows'[v][n] = rows[v][n]
      /\ \A v \in Users, n \in Mails : rows[v][n] \in Nat /\ tries[n] \in Nat
  BY <1>0 DEF E!StoreRow, InboundInv, InboundTypes
<1>3. ASSUME NEW v \in Users, NEW n \in Mails PROVE Owing(v, n)' \subseteq Owing(v, n)
  <2>1. ASSUME NEW o \in Posts, Owes(o, v, n)' PROVE Owes(o, v, n)
    <3>1. CASE o = p
      BY <1>0, <1>1, <2>1, <3>1 DEF Owes
    <3>2. CASE o # p
      BY <1>1, <2>1, <3>2 DEF Owes
    <3>3. QED  BY <3>1, <3>2
  <2>2. QED  BY <2>1 DEF Owing
<1>4. ASSUME NEW v \in Users, NEW n \in Mails, <<v, n>> # <<u, m>>
      PROVE  rows'[v][n] + Cardinality(Owing(v, n))' <= tries'[n]
  BY <1>2, <1>3, <1>4, CopiesStay
<1>5. p \in Owing(u, m) /\ p \notin Owing(u, m)'
  BY <1>0, <1>1 DEF Owing, Owes
<1>6. rows'[u][m] + Cardinality(Owing(u, m))' <= tries'[m]
  <2> DEFINE S == Owing(u, m)
             T == Owing(u, m)'
  <2>1. T \subseteq S \ {p} /\ p \in S /\ S \ {p} \in SUBSET Posts
    BY <1>3, <1>5 DEF Owing
  <2>2. IsFiniteSet(S) /\ Cardinality(S) \in Nat
    BY OwingFinite
  <2>3. Cardinality(S \ {p}) = Cardinality(S) - 1
    BY <2>1, <2>2, FS_RemoveElement
  <2>4. Cardinality(T) <= Cardinality(S \ {p}) /\ Cardinality(T) \in Nat
    <3>1. T \in SUBSET (S \ {p})
      BY <2>1
    <3>2. QED  BY <2>1, <3>1, FewerPosts
  <2>5. rows[u][m] + Cardinality(S) <= tries[m] /\ tries[m] \in Nat
    BY <1>2 DEF CopyInv
  <2>6. Cardinality(Owing(u, m))' = Cardinality(T) /\ tries'[m] = tries[m]
    OBVIOUS
  <2> HIDE DEF S, T
  <2>7. QED  BY <1>2, <2>2, <2>3, <2>4, <2>5, <2>6
<1>7. ASSUME NEW v \in Users, NEW n \in Mails PROVE rows'[v][n] + Cardinality(Owing(v, n))' <= tries'[n]
  BY <1>4, <1>6
<1>8. QED  BY <1>7 DEF CopyInv

\* An attempt begins: one post more owes its message to everybody.
LEMMA CopiesOffered ==
    ASSUME E!EmailConstants, InboundInv, InboundTypes', CopyInv, NEW p \in Posts, NEW m \in Mails, E!Forward(p, m)
    PROVE  CopyInv'
<1>1. posts[p].pc = "idle" /\ posts'[p].mail = m /\ (\A o \in Posts \ {p} : posts'[o] = posts[o]) /\ rows' = rows
      /\ tries'[m] = tries[m] + 1 /\ \A n \in Mails \ {m} : tries'[n] = tries[n]
  BY DEF E!Forward, E!At, InboundInv, InboundTypes, E!NoPost
<1>2. \A v \in Users, n \in Mails : rows[v][n] \in Nat /\ tries[n] \in Nat
  BY DEF InboundInv, InboundTypes
<1>3. ASSUME NEW v \in Users, NEW n \in Mails, NEW o \in Posts, o # p PROVE Owes(o, v, n)' <=> Owes(o, v, n)
  BY <1>1, <1>3 DEF Owes
<1>4. ASSUME NEW v \in Users, NEW n \in Mails PROVE rows'[v][n] + Cardinality(Owing(v, n))' <= tries'[n]
  <2>1. CASE n # m
    <3>1. Owing(v, n)' \subseteq Owing(v, n)
      BY <1>1, <1>3, <2>1 DEF Owing, Owes
    <3>2. QED  BY <1>1, <1>2, <2>1, <3>1, CopiesStay
  <2>2. CASE n = m
    <3> DEFINE S == Owing(v, m)
               T == Owing(v, m)'
    <3>1. T \subseteq S \cup {p} /\ p \notin S /\ S \cup {p} \in SUBSET Posts
      BY <1>1, <1>3 DEF Owing, Owes
    <3>2. IsFiniteSet(S) /\ Cardinality(S) \in Nat
      BY OwingFinite
    <3>3. Cardinality(S \cup {p}) = Cardinality(S) + 1
      BY <3>1, <3>2, FS_AddElement
    <3>4. Cardinality(T) <= Cardinality(S \cup {p}) /\ Cardinality(T) \in Nat
      <4>1. T \in SUBSET (S \cup {p})
        BY <3>1
      <4>2. QED  BY <3>1, <4>1, FewerPosts
    <3>5. rows[v][m] + Cardinality(S) <= tries[m]
      BY DEF CopyInv
    <3>6. Cardinality(Owing(v, m))' = Cardinality(T) /\ rows'[v][m] = rows[v][m] /\ tries'[m] = tries[m] + 1
      BY <1>1
    <3>7. rows[v][m] \in Nat /\ tries[m] \in Nat
      BY <1>2
    <3> HIDE DEF S, T
    <3>8. QED  BY <2>2, <3>2, <3>3, <3>4, <3>5, <3>6, <3>7
  <2>3. QED  BY <2>1, <2>2
<1>5. QED  BY <1>4 DEF CopyInv

(* Every step of a post keeps the count of copies: whatever ends or goes on owes no more than before. *)
LEMMA CopyDelivery == ASSUME E!EmailConstants, InboundInv, InboundTypes', CopyInv, E!Delivery PROVE CopyInv'
<1> USE DEF E!At
<1>1. /\ \A p \in Posts : posts[p] \in PostRows /\ (posts[p].pc # "idle" => PostFits(p))
      /\ \A u \in Users, m \in Mails : rows[u][m] \in Nat /\ tries[m] \in Nat
  BY DEF InboundInv, InboundTypes
<1>2. \A u \in Users, m \in Mails : rows[u][m] <= rows[u][m] /\ tries[m] >= tries[m]
  BY <1>1
<1>3. CASE E!NextDay
  <2>1. UNCHANGED <<rows, tries, posts>>
    BY <1>3 DEF E!NextDay
  <2>2. QED  BY <2>1 DEF CopyInv, Owing, Owes
<1>4. ASSUME NEW p \in Posts, NEW m \in Mails, E!Forward(p, m) PROVE CopyInv'
  BY <1>4, CopiesOffered
<1>5. ASSUME NEW p \in Posts, E!ForwardTimesOut(p) PROVE CopyInv'
  <2> DEFINE q == [posts[p] EXCEPT !.waiting = FALSE]
  <2>1. q.pc = posts[p].pc /\ q.mail = posts[p].mail /\ q.seen = posts[p].seen /\ q.user = posts[p].user
    BY <1>1 DEF PostRows
  <2>2. posts' = [posts EXCEPT ![p] = q] /\ UNCHANGED <<rows, tries>>
    BY <1>5 DEF E!ForwardTimesOut
  <2> HIDE DEF q
  <2>3. QED  BY <1>2, <2>1, <2>2, CopiesPost
<1>6. ASSUME NEW p \in Posts, E!Crash(p) \/ E!Answer(p) PROVE CopyInv'
  <2>1. posts' = [posts EXCEPT ![p] = E!NoPost] /\ UNCHANGED <<rows, tries>> /\ E!NoPost.pc = "idle"
    BY <1>6 DEF E!Crash, E!Answer, E!NoPost
  <2>2. QED  BY <1>2, <2>1, CopiesPost
<1>7. ASSUME NEW p \in Posts, NEW R \in SUBSET Reasons, posts[p].pc \in {"resolve", "store"}, posts[p].todo # <<>>,
             posts' = [posts EXCEPT ![p] = E!Skipped(p, R)], UNCHANGED <<rows, tries>>
      PROVE  CopyInv'
  <2> DEFINE t == E!Skipped(p, R)
  <2>1. t.pc = "resolve" /\ t.mail = posts[p].mail /\ t.seen = posts[p].seen
    BY <1>1, <1>7, SkippedPost
  <2>2. posts' = [posts EXCEPT ![p] = t]
    BY <1>7
  <2> HIDE DEF t
  <2>3. QED  BY <1>2, <1>7, <2>1, <2>2, CopiesPost
<1>8. ASSUME NEW p \in Posts, E!inboxResolve(p) PROVE CopyInv'
  <2> DEFINE user == inbox[Head(posts[p].todo)]
  <2>1. posts[p].pc = "resolve" /\ posts[p].todo # <<>> /\ UNCHANGED <<rows, tries>>
    BY <1>8 DEF E!inboxResolve
  <2>2. CASE user = None
    BY <1>7, <1>8, <2>1, <2>2 DEF E!inboxResolve, Reasons
  <2>3. CASE user # None /\ user \in posts[p].seen
    BY <1>7, <1>8, <2>1, <2>3 DEF E!inboxResolve, Reasons
  <2>4. CASE user # None /\ user \notin posts[p].seen
    <3> DEFINE q == [posts[p] EXCEPT !.pc = "classify", !.user = user, !.seen = posts[p].seen \cup {user}]
    <3>1. q.pc = "classify" /\ q.mail = posts[p].mail /\ q.seen = posts[p].seen \cup {user} /\ q.user = user
      BY <1>1 DEF PostRows
    <3>2. posts' = [posts EXCEPT ![p] = q]
      BY <1>8, <2>4 DEF E!inboxResolve
    <3> HIDE DEF q
    <3>3. \A u \in Users : (u \in q.seen => q.user = u) => u \notin posts[p].seen
      BY <2>4, <3>1
    <3>4. QED  BY <1>2, <2>1, <3>1, <3>2, <3>3, CopiesPost
  <2>5. QED  BY <2>2, <2>3, <2>4
<1>9. ASSUME NEW p \in Posts, E!emailClassify(p) PROVE CopyInv'
  <2> DEFINE k == IF posts[p].user \in quarantines THEN "quarantine" ELSE "inbox"
             q == [posts[p] EXCEPT !.pc = "store", !.class = k]
  <2>1. q.pc = "store" /\ q.mail = posts[p].mail /\ q.seen = posts[p].seen /\ q.user = posts[p].user
    BY <1>1 DEF PostRows
  <2>2. posts' = [posts EXCEPT ![p] = q] /\ UNCHANGED <<rows, tries>> /\ posts[p].pc = "classify"
    BY <1>9 DEF E!emailClassify
  <2> HIDE DEF k, q
  <2>3. q.pc # "idle" => posts[p].pc # "idle" /\ q.mail = posts[p].mail
    BY <2>1, <2>2
  <2>4. \A u \in Users : q.pc # "idle" /\ (u \in q.seen => q.pc \in {"classify", "store"} /\ q.user = u)
                         => (u \in posts[p].seen => posts[p].pc \in {"classify", "store"} /\ posts[p].user = u)
    BY <2>1, <2>2
  <2>5. \A u \in Users, m \in Mails : rows'[u][m] <= rows[u][m] /\ tries'[m] >= tries[m]
    BY <1>2, <2>2
  <2>6. QED  BY <2>2, <2>3, <2>4, <2>5, CopiesPost
<1>10. ASSUME NEW p \in Posts, posts[p].pc = "store", NEW q, NEW R \in SUBSET Reasons,
              q = E!Skipped(p, R) \/ q = [E!Skipped(p, R) EXCEPT !.accepted = TRUE],
              posts' = [posts EXCEPT ![p] = q], E!StoreRow(p), tries' = tries
       PROVE  CopyInv'
  <2>1. posts[p].todo # <<>>
    BY <1>1, <1>10 DEF PostFits
  <2>2. E!Skipped(p, R) \in PostRows /\ E!Skipped(p, R).pc = "resolve" /\ E!Skipped(p, R).mail = posts[p].mail /\ E!Skipped(p, R).seen = posts[p].seen
    BY <1>1, <2>1, SkippedPost
  <2>3. q.pc = "resolve" /\ q.mail = posts[p].mail /\ q.seen = posts[p].seen
    BY <1>10, <2>2 DEF PostRows
  <2>4. QED  BY <1>10, <2>3, CopyStored
<1>11. ASSUME NEW p \in Posts, E!emailMessageStore(p) PROVE CopyInv'
  <2>1. posts[p].pc = "store" /\ tries' = tries /\ posts[p].todo # <<>>
    BY <1>1, <1>11 DEF E!emailMessageStore, PostFits
  <2>2. PICK full \in BOOLEAN :
           LET fails == E!Refusal(posts[p].user, posts[p].mail, full)
           IN  \/ posts' = [posts EXCEPT ![p] = E!Skipped(p, fails)] /\ UNCHANGED <<rows, class, received, everStored>>
               \/ posts' = [posts EXCEPT ![p] = [E!Skipped(p, {}) EXCEPT !.accepted = TRUE]] /\ E!StoreRow(p)
    BY <1>11 DEF E!emailMessageStore
  <2>3. E!Refusal(posts[p].user, posts[p].mail, full) \in SUBSET Reasons
    BY DEF E!Refusal, Reasons
  <2>4. CASE posts' = [posts EXCEPT ![p] = E!Skipped(p, E!Refusal(posts[p].user, posts[p].mail, full))] /\ rows' = rows
    <3> DEFINE R == E!Refusal(posts[p].user, posts[p].mail, full)
    <3>1. R \in SUBSET Reasons /\ posts' = [posts EXCEPT ![p] = E!Skipped(p, R)]
      BY <2>3, <2>4
    <3> HIDE DEF R
    <3>2. QED  BY <1>7, <2>1, <2>4, <3>1
  <2>5. CASE posts' = [posts EXCEPT ![p] = [E!Skipped(p, {}) EXCEPT !.accepted = TRUE]] /\ E!StoreRow(p)
    <3> DEFINE q == [E!Skipped(p, {}) EXCEPT !.accepted = TRUE]
    <3>1. {} \in SUBSET Reasons /\ posts' = [posts EXCEPT ![p] = q] /\ q = [E!Skipped(p, {}) EXCEPT !.accepted = TRUE]
      BY <2>5
    <3> HIDE DEF q
    <3>2. QED  BY <1>10, <2>1, <2>5, <3>1
  <2>6. QED  BY <2>2, <2>4, <2>5
<1>12. ASSUME NEW p \in Posts, E!StoreFails(p) PROVE CopyInv'
  <2>1. /\ posts[p].pc = "store" /\ tries' = tries /\ posts[p].todo # <<>> /\ posts' = [posts EXCEPT ![p] = E!Skipped(p, {"store_failed"})]
        /\ rows' = rows \/ E!StoreRow(p)
    BY <1>1, <1>12 DEF E!StoreFails, PostFits
  <2>2. {"store_failed"} \in SUBSET Reasons
    BY DEF Reasons
  <2>3. QED  BY <1>7, <1>10, <2>1, <2>2
<1>13. QED  BY <1>3, <1>4, <1>5, <1>6, <1>8, <1>9, <1>11, <1>12 DEF E!Delivery

(* What moves no post and adds no copy keeps the count: the capabilities of the inbox, sending and destinations. *)
LEMMA CopyStep == ASSUME E!EmailConstants, InboundInv, CopyInv, [E!Next]_E!vars PROVE CopyInv'
<1>1. InboundTypes'
  BY InboundStep DEF InboundInv
<1>2. CASE E!Delivery
  BY <1>1, <1>2, CopyDelivery
<1>3. ASSUME UNCHANGED <<posts, tries>>, \A u \in Users, m \in Mails : rows'[u][m] <= rows[u][m] PROVE CopyInv'
  <2>1. ASSUME NEW u \in Users, NEW m \in Mails PROVE Owing(u, m)' = Owing(u, m) /\ tries[m] \in Nat
    BY <1>3 DEF Owing, Owes, InboundInv, InboundTypes
  <2>2. QED  BY <1>1, <1>3, <2>1, CopiesStay DEF CopyInv
<1>4. \A u \in Users, m \in Mails : rows[u][m] \in Nat
  BY DEF InboundInv, InboundTypes
<1>5. CASE E!Inbox
  <2>1. ASSUME NEW u \in Users, NEW m \in Mails, E!emailMessageDelete(u, m) PROVE CopyInv'
    <3>1. UNCHANGED <<posts, tries>> /\ \A v \in Users, n \in Mails : rows'[v][n] <= rows[v][n]
      BY <1>4, <2>1 DEF E!emailMessageDelete, InboundInv, InboundTypes
    <3>2. QED  BY <1>3, <3>1
  <2>2. ASSUME UNCHANGED <<posts, tries, rows>> PROVE CopyInv'
    BY <1>3, <1>4, <2>2
  <2>3. QED  BY <1>5, <2>1, <2>2 DEF E!Inbox, E!inboxClaim, E!inboxRelease, E!emailMessageRelease, E!emailSenderRuleSet
<1>6. ASSUME UNCHANGED E!inVars PROVE CopyInv'
  BY <1>3, <1>4, <1>6 DEF E!inVars
<1>7. E!Compose \/ E!Outgoing \/ E!Destinations \/ UNCHANGED E!vars => UNCHANGED E!inVars
  BY OutLeavesIn DEF E!vars
<1>8. QED  BY <1>2, <1>5, <1>6, <1>7 DEF E!Next

(* The invariant says what the sender is told. *)
LEMMA InboundFacts == ASSUME E!EmailConstants, InboundInv, CopyInv PROVE E!InboundExact
<1>1. \A m \in Mails : MailFits(m)
  BY DEF InboundInv
<1>2. ASSUME NEW u \in Users, NEW m \in Mails PROVE rows[u][m] <= IF m \in Anonymous THEN tries[m] ELSE 1
  <2>1. rows[u][m] \in Nat /\ tries[m] \in Nat /\ Cardinality(Owing(u, m)) \in Nat
    BY OwingFinite DEF InboundInv, InboundTypes
  <2>2. rows[u][m] + Cardinality(Owing(u, m)) <= tries[m]
    BY DEF CopyInv
  <2>3. m \notin Anonymous => rows[u][m] <= 1
    BY <1>1 DEF MailFits
  <2>4. QED  BY <2>1, <2>2, <2>3
<1>3. E!StoredOnce /\ E!AcceptedIsStored
  BY <1>1, <1>2 DEF MailFits, E!StoredOnce, E!AcceptedIsStored
<1>4. ASSUME NEW m \in Mails
      PROVE  /\ sender[m] = "refused" /\ m \notin moved \cup faulted => m \notin everStored /\ \A l \in E!Named(m) : inbox[l] = None
             /\ sender[m] = "too_large" => m \in Large \ everStored
  BY <1>1 DEF MailFits
<1>5. QED  BY <1>3, <1>4 DEF E!InboundExact, E!RefusedIsUnknown

(* A mailbox has one copy of a message that has an id, or one for each attempt of a message that has none; 250 is answered
   only for a stored one, "no such inbox" only for names nobody has, and 552 only for a message that is too large and
   stored nowhere (email/service.ts handleEmailInbound, cells/user-cell.ts emailMessageStore). *)
THEOREM RepliesExact == ASSUME E!EmailConstants PROVE E!Spec => []InboundExact
<1> DEFINE I == InboundInv /\ CopyInv
<1>1. E!Init => I
  <2>1. ASSUME E!Init, NEW u \in Users, NEW m \in Mails PROVE rows[u][m] + Cardinality(Owing(u, m)) <= tries[m]
    <3>1. Owing(u, m) = {} /\ rows[u][m] = 0 /\ tries[m] = 0
      BY <2>1 DEF E!Init, E!NoPost, Owing, Owes
    <3>2. QED  BY <3>1, FS_EmptySet
  <2>2. QED  BY <2>1, InboundInit DEF CopyInv
<1>2. I /\ [E!Next]_E!vars => I'
  BY InboundStep, CopyStep
<1>3. I => InboundExact
  BY InboundFacts DEF InboundExact
<1> HIDE DEF I
<1>4. QED  BY <1>1, <1>2, <1>3, PTL DEF E!Spec

----------------------------------------------------------------------------
(* Outbound mail and destinations *)

OutRows == [pc : {"none", "check", "store", "post", "index", "mark", "audit", "done", "fail", "failed", "gone"},
            user : Users \cup {None}, local : Locals \cup {None}, to : Addresses \cup Locals \cup {None},
            status : {"none", "sending", "queued", "sent", "failed", "deleted"}]
WireRows == [state : {"none", "delivering", "reporting", "lost", "applying", "unmatched", "applied"},
             outcome : {"none", "sent", "failed"}, early : BOOLEAN]

Handled(w) == w.state \in {"applied", "unmatched"}
OutFits(q, w, indexed) ==
    /\ q.pc \in {"mark", "audit", "done"} => indexed
    /\ q.pc \in {"none", "check", "store", "post"} => w.state = "none"
    /\ q.pc \in {"index", "mark", "audit", "done"} => w.state # "none"
    /\ q.pc \in {"index", "mark"} /\ Handled(w) => w.early
    /\ q.pc \in {"audit", "done"} => q.status \in {"queued", "sent", "failed", "deleted"}
    /\ w.state \in {"reporting", "applying"} => w.outcome # "none"
    /\ q.status = "sent" => w.state = "applied" /\ w.outcome = "sent"
    /\ q.status = "failed" => q.pc = "failed" \/ (w.state = "applied" /\ w.outcome = "failed")
    /\ q.status = "queued" => indexed /\ w.state # "none" /\ (Handled(w) => w.early)
OutboundInv ==
    /\ outs \in [Outs -> OutRows] /\ wire \in [Outs -> WireRows]
    /\ \A o \in Outs : OutFits(outs[o], wire[o], o \in index)

(* One message out and its report change. *)
LEMMA OutMoves ==
    ASSUME OutboundInv, NEW o \in Outs, NEW q \in OutRows, NEW w \in WireRows,
           outs' = [outs EXCEPT ![o] = q], wire' = [wire EXCEPT ![o] = w],
           index' = index \/ index' = index \cup {o}, OutFits(q, w, o \in index')
    PROVE  OutboundInv'
<1>1. outs' \in [Outs -> OutRows] /\ outs'[o] = q /\ \A x \in Outs \ {o} : outs'[x] = outs[x]
  BY DEF OutboundInv
<1>2. wire' \in [Outs -> WireRows] /\ wire'[o] = w /\ \A x \in Outs \ {o} : wire'[x] = wire[x]
  BY DEF OutboundInv
<1>3. \A x \in Outs \ {o} : x \in index' <=> x \in index
  OBVIOUS
<1>4. ASSUME NEW x \in Outs PROVE OutFits(outs'[x], wire'[x], x \in index')
  <2>1. CASE x = o
    BY <1>1, <1>2, <2>1
  <2>2. CASE x # o
    BY <1>1, <1>2, <1>3, <2>2 DEF OutboundInv, OutFits
  <2>3. QED  BY <2>1, <2>2
<1>5. QED  BY <1>1, <1>2, <1>4 DEF OutboundInv

(* No message was sent yet. *)
LEMMA OutInit == ASSUME E!Init PROVE OutboundInv
  BY DEF E!Init, OutboundInv, OutRows, WireRows, OutFits, E!NoOut, E!AtBridge

(* The row of a message out, its report and where they stand. *)
LEMMA OutFields ==
    ASSUME OutboundInv, NEW o \in Outs
    PROVE  /\ outs[o] \in OutRows /\ wire[o] \in WireRows /\ OutFits(outs[o], wire[o], o \in index)
           /\ outs = [outs EXCEPT ![o] = outs[o]] /\ wire = [wire EXCEPT ![o] = wire[o]] /\ E!NoOut \in OutRows
  BY DEF OutboundInv, OutRows, E!NoOut

\* A step of the call that sends a message, which the report about it does not wait for.
LEMMA OutGoes ==
    ASSUME OutboundInv, NEW o \in Outs, NEW q \in OutRows, outs' = [outs EXCEPT ![o] = q], wire' = wire,
           index' = index \/ index' = index \cup {o}, OutFits(q, wire[o], o \in index')
    PROVE  OutboundInv'
  BY OutFields, OutMoves

(* A capability that begins to send keeps the account of messages out. *)
LEMMA ComposeStep == ASSUME InboundTypes, OutboundInv, E!Compose PROVE OutboundInv'
<1>1. \A l \in Locals : inbox[l] = E!Mailer => E!Mailer \in Users \cup {None}
  BY DEF InboundTypes
<1>2. ASSUME NEW o \in Outs, NEW l \in Locals, NEW to \in Addresses \cup Locals, E!emailSend(o, l, to) PROVE OutboundInv'
  <2> DEFINE q == [E!NoOut EXCEPT !.pc = "check", !.user = E!Mailer, !.local = l, !.to = to]
  <2>1. q \in OutRows /\ q.pc = "check" /\ q.status = "none"
    BY <1>1, <1>2 DEF OutRows, E!NoOut, E!emailSend
  <2>2. outs' = [outs EXCEPT ![o] = q] /\ UNCHANGED <<index, wire>> /\ outs[o].pc = "none"
    BY <1>2 DEF E!emailSend, E!Sending
  <2> HIDE DEF q
  <2>3. OutFits(q, wire[o], o \in index')
    BY <2>1, <2>2, OutFields DEF OutFits, Handled
  <2>4. QED  BY <2>1, <2>2, <2>3, OutGoes
<1>3. ASSUME NEW o \in Outs, NEW l \in Locals, (\E m \in Mails : E!emailReply(o, m, l)) \/ E!SendCode(o, l) PROVE OutboundInv'
  <2> DEFINE q == [E!NoOut EXCEPT !.pc = "store", !.user = E!Mailer, !.local = l]
  <2>1. q \in OutRows /\ q.pc = "store" /\ q.status = "none"
    BY <1>1, <1>3 DEF OutRows, E!NoOut, E!emailReply, E!SendCode
  <2>2. outs' = [outs EXCEPT ![o] = q] /\ UNCHANGED <<index, wire>> /\ outs[o].pc = "none"
    BY <1>3 DEF E!emailReply, E!SendCode, E!Sending
  <2> HIDE DEF q
  <2>3. OutFits(q, wire[o], o \in index')
    BY <2>1, <2>2, OutFields DEF OutFits, Handled
  <2>4. QED  BY <2>1, <2>2, <2>3, OutGoes
<1>4. QED  BY <1>2, <1>3 DEF E!Compose

(* A send, its failures, and the report of the bridge in any order keep it: a message that is marked is at the bridge and in
   the index, and a report handled from then on decides. *)
LEMMA OutgoingStep == ASSUME OutboundInv, E!Outgoing PROVE OutboundInv'
<1> USE DEF E!Sending
<1>1. ASSUME NEW o \in Outs,
             E!SendCheck(o) \/ E!SendStore(o) \/ E!sendOutbound(o) \/ E!SendFails(o) \/ E!outboundEmailIndexSet(o) \/ E!SendCrashes(o)
      PROVE  OutboundInv'
  <2>1. outs[o] \in OutRows /\ wire[o] \in WireRows /\ OutFits(outs[o], wire[o], o \in index) /\ E!NoOut \in OutRows
        /\ E!NoOut.pc = "none" /\ E!NoOut.status = "none"
    BY OutFields DEF E!NoOut
  <2>2. ASSUME NEW pc \in {"store", "index", "mark", "fail", "gone"}
        PROVE  [outs[o] EXCEPT !.pc = pc] \in OutRows /\ [outs[o] EXCEPT !.pc = pc].pc = pc /\ [outs[o] EXCEPT !.pc = pc].status = outs[o].status
    BY <2>1 DEF OutRows
  <2>3. CASE E!SendCheck(o)
    <3>1. PICK q \in {[outs[o] EXCEPT !.pc = "store"], E!NoOut} : outs' = [outs EXCEPT ![o] = q]
      BY <2>3 DEF E!SendCheck
    <3>2. q \in OutRows /\ q.pc \in {"store", "none"} /\ q.status \in {outs[o].status, "none"} /\ outs[o].pc = "check" /\ UNCHANGED <<index, wire>>
      BY <2>1, <2>2, <2>3, <3>1 DEF E!SendCheck
    <3>3. OutFits(q, wire[o], o \in index')
      BY <2>1, <3>2 DEF OutFits, Handled
    <3>4. QED  BY <3>1, <3>2, <3>3, OutGoes
  <2>4. CASE E!SendStore(o)
    <3> DEFINE t == [outs[o] EXCEPT !.pc = "post", !.status = "sending"]
    <3>1. t \in OutRows /\ t.pc = "post" /\ t.status = "sending"
      BY <2>1 DEF OutRows
    <3>2. PICK q \in {t, E!NoOut} : outs' = [outs EXCEPT ![o] = q]
      BY <2>4 DEF E!SendStore
    <3> HIDE DEF t
    <3>3. q \in OutRows /\ q.pc \in {"post", "none"} /\ q.status \in {"sending", "none"} /\ outs[o].pc = "store" /\ UNCHANGED <<index, wire>>
      BY <2>1, <2>4, <3>1 DEF E!SendStore
    <3>4. OutFits(q, wire[o], o \in index')
      BY <2>1, <3>3 DEF OutFits, Handled
    <3>5. QED  BY <3>2, <3>3, <3>4, OutGoes
  <2>5. ASSUME NEW pc \in {"index", "fail"}, outs[o].pc = "post", outs' = [outs EXCEPT ![o] = [outs[o] EXCEPT !.pc = pc]],
               wire' = [wire EXCEPT ![o].state = "delivering"], index' = index
        PROVE  OutboundInv'
    <3> DEFINE w == [wire[o] EXCEPT !.state = "delivering"]
               q == [outs[o] EXCEPT !.pc = pc]
    <3>1. w \in WireRows /\ w.state = "delivering" /\ w.early = wire[o].early /\ w.outcome = wire[o].outcome /\ wire' = [wire EXCEPT ![o] = w]
      BY <2>1, <2>5 DEF WireRows
    <3>2. q \in OutRows /\ q.pc = pc /\ q.status = outs[o].status /\ outs' = [outs EXCEPT ![o] = q]
      BY <2>2, <2>5
    <3> HIDE DEF w, q
    <3>3. OutFits(q, w, o \in index')
      BY <2>1, <2>5, <3>1, <3>2 DEF OutFits, Handled
    <3>4. QED  BY <2>5, <3>1, <3>2, <3>3, OutMoves
  <2>6. ASSUME NEW pc \in {"fail", "gone"}, outs[o].pc \in {"post", "index", "mark", "audit", "fail"},
               outs' = [outs EXCEPT ![o] = [outs[o] EXCEPT !.pc = pc]], UNCHANGED <<index, wire>>
        PROVE  OutboundInv'
    <3> DEFINE q == [outs[o] EXCEPT !.pc = pc]
    <3>1. q \in OutRows /\ q.pc = pc /\ q.status = outs[o].status /\ outs' = [outs EXCEPT ![o] = q]
      BY <2>2, <2>6
    <3> HIDE DEF q
    <3>2. OutFits(q, wire[o], o \in index')
      BY <2>1, <2>6, <3>1 DEF OutFits, Handled
    <3>3. QED  BY <2>6, <3>1, <3>2, OutGoes
  <2>7. CASE E!sendOutbound(o)
    BY <2>5, <2>7 DEF E!sendOutbound
  <2>8. CASE E!SendFails(o)
    BY <2>5, <2>6, <2>8 DEF E!SendFails
  <2>9. CASE E!outboundEmailIndexSet(o)
    <3> DEFINE q == [outs[o] EXCEPT !.pc = "mark"]
    <3>1. q \in OutRows /\ q.pc = "mark" /\ q.status = outs[o].status
      BY <2>2
    <3>2. outs' = [outs EXCEPT ![o] = q] /\ wire' = wire /\ index' = index \cup {o} /\ outs[o].pc = "index"
      BY <2>9 DEF E!outboundEmailIndexSet
    <3> HIDE DEF q
    <3>3. OutFits(q, wire[o], o \in index')
      BY <2>1, <3>1, <3>2 DEF OutFits, Handled
    <3>4. QED  BY <3>1, <3>2, <3>3, OutGoes
  <2>10. CASE E!SendCrashes(o)
    BY <2>6, <2>10 DEF E!SendCrashes
  <2>11. QED  BY <1>1, <2>3, <2>4, <2>7, <2>8, <2>9, <2>10
<1>2. ASSUME NEW o \in Outs, E!SendEnds(o) PROVE OutboundInv'
  <2>1. outs[o] \in OutRows /\ wire[o] \in WireRows /\ OutFits(outs[o], wire[o], o \in index) /\ UNCHANGED <<index, wire>>
    BY <1>2, OutFields DEF E!SendEnds
  <2>2. CASE outs[o].pc = "mark" /\ outs' = [outs EXCEPT ![o].status = E!Marked(o, "queued"), ![o].pc = "audit"]
    <3> DEFINE t == [outs[o] EXCEPT !.status = E!Marked(o, "queued"), !.pc = "audit"]
    <3>1. t \in OutRows /\ t.pc = "audit" /\ t.status \in {"queued", "deleted"} /\ outs' = [outs EXCEPT ![o] = t]
      BY <2>1, <2>2 DEF OutRows, E!Marked
    <3> HIDE DEF t
    <3>2. OutFits(t, wire[o], o \in index')
      BY <2>1, <2>2, <3>1 DEF OutFits, Handled
    <3>3. QED  BY <2>1, <2>2, <3>1, <3>2, OutGoes
  <2>3. CASE outs[o].pc = "audit" /\ outs' = [outs EXCEPT ![o].pc = "done"]
    <3> DEFINE t == [outs[o] EXCEPT !.pc = "done"]
    <3>1. t \in OutRows /\ t.pc = "done" /\ t.status = outs[o].status /\ outs' = [outs EXCEPT ![o] = t]
      BY <2>1, <2>3 DEF OutRows
    <3> HIDE DEF t
    <3>2. OutFits(t, wire[o], o \in index')
      BY <2>1, <2>3, <3>1 DEF OutFits, Handled
    <3>3. QED  BY <2>1, <2>3, <3>1, <3>2, OutGoes
  <2>4. CASE outs[o].pc = "fail" /\ outs' = [outs EXCEPT ![o].status = E!Marked(o, "failed"), ![o].pc = "failed"]
    <3> DEFINE t == [outs[o] EXCEPT !.status = E!Marked(o, "failed"), !.pc = "failed"]
    <3>1. t \in OutRows /\ t.pc = "failed" /\ t.status \in {"failed", "deleted"} /\ outs' = [outs EXCEPT ![o] = t]
      BY <2>1, <2>4 DEF OutRows, E!Marked
    <3> HIDE DEF t
    <3>2. OutFits(t, wire[o], o \in index')
      BY <2>1, <2>4, <3>1 DEF OutFits, Handled
    <3>3. QED  BY <2>1, <2>4, <3>1, <3>2, OutGoes
  <2>5. QED  BY <1>2, <2>2, <2>3, <2>4 DEF E!SendEnds
<1>3. ASSUME NEW o \in Outs, E!OutDelete(o) PROVE OutboundInv'
  <2> DEFINE t == [outs[o] EXCEPT !.status = "deleted"]
  <2>1. t \in OutRows /\ t.pc = outs[o].pc /\ t.status = "deleted" /\ outs' = [outs EXCEPT ![o] = t] /\ UNCHANGED <<index, wire>>
    BY <1>3, OutFields DEF OutRows, E!OutDelete
  <2> HIDE DEF t
  <2>2. OutFits(t, wire[o], o \in index)
    BY <2>1, OutFields DEF OutFits, Handled
  <2>3. QED  BY <2>1, <2>2, OutFields, OutMoves
<1>4. ASSUME NEW o \in Outs, E!deliver(o) \/ E!ReportLost(o) PROVE OutboundInv'
  <2>1. wire[o] \in WireRows /\ OutFits(outs[o], wire[o], o \in index) /\ wire[o].state \in {"delivering", "reporting"}
    BY <1>4, OutFields DEF E!deliver, E!ReportLost
  <2>2. PICK outcome \in {"none", "sent", "failed"}, s \in {"reporting", "lost"} :
           /\ wire' = [wire EXCEPT ![o] = [wire[o] EXCEPT !.state = s, !.outcome = outcome]]
           /\ s = "reporting" => outcome # "none"
    <3>1. CASE E!deliver(o)
      BY <3>1 DEF E!deliver
    <3>2. CASE E!ReportLost(o)
      <4>1. wire' = [wire EXCEPT ![o] = [wire[o] EXCEPT !.state = "lost", !.outcome = wire[o].outcome]]
        BY <2>1, <3>2 DEF E!ReportLost, WireRows
      <4>2. wire[o].outcome \in {"none", "sent", "failed"}
        BY <2>1 DEF WireRows
      <4>3. QED  BY <4>1, <4>2
    <3>3. QED  BY <1>4, <3>1, <3>2
  <2> DEFINE w == [wire[o] EXCEPT !.state = s, !.outcome = outcome]
  <2>3. /\ w \in WireRows /\ w.state = s /\ w.outcome = outcome /\ w.early = wire[o].early
        /\ wire' = [wire EXCEPT ![o] = w] /\ UNCHANGED <<index, outs>>
    BY <1>4, <2>1, <2>2 DEF WireRows, E!deliver, E!ReportLost
  <2> HIDE DEF w
  <2>4. OutFits(outs[o], w, o \in index)
    BY <2>1, <2>2, <2>3 DEF OutFits, Handled
  <2>5. QED  BY <2>3, <2>4, OutFields, OutMoves
<1>5. ASSUME NEW o \in Outs, E!EventResolve(o) PROVE OutboundInv'
  <2> DEFINE s == IF o \in index THEN "applying" ELSE "unmatched"
             b == E!Unmarked(o)
             w == [wire[o] EXCEPT !.state = s, !.early = b]
  <2>1. s \in {"applying", "unmatched"} /\ b \in BOOLEAN /\ (b <=> outs[o].pc \in {"post", "index", "mark"}) /\ (o \in index => s = "applying")
    BY DEF E!Unmarked
  <2>2. wire' = [wire EXCEPT ![o] = w] /\ UNCHANGED <<index, outs>> /\ wire[o].state = "reporting"
    BY <1>5 DEF E!EventResolve
  <2> HIDE DEF s, b
  <2>3. w \in WireRows /\ w.state = s /\ w.early = b /\ w.outcome = wire[o].outcome
    BY <2>1, OutFields DEF WireRows
  <2> HIDE DEF w
  <2>4. OutFits(outs[o], w, o \in index)
    BY <2>1, <2>2, <2>3, OutFields DEF OutFits, Handled
  <2>5. QED  BY <2>2, <2>3, <2>4, OutFields, OutMoves
<1>6. ASSUME NEW o \in Outs, E!EventApply(o) PROVE OutboundInv'
  <2> DEFINE b == E!Unmarked(o)
             w == [wire[o] EXCEPT !.state = "applied", !.early = b]
             t == [outs[o] EXCEPT !.status = E!Marked(o, wire[o].outcome)]
  <2>1. b \in BOOLEAN /\ (b <=> outs[o].pc \in {"post", "index", "mark"})
    BY DEF E!Unmarked
  <2>2. wire' = [wire EXCEPT ![o] = w] /\ outs' = [outs EXCEPT ![o] = t] /\ UNCHANGED index /\ wire[o].state = "applying"
    BY <1>6 DEF E!EventApply
  <2> HIDE DEF b
  <2>3. w \in WireRows /\ w.state = "applied" /\ w.early = b /\ w.outcome = wire[o].outcome
    BY <2>1, OutFields DEF WireRows
  <2>4. w.outcome \in {"sent", "failed"}
    BY <2>2, <2>3, OutFields DEF OutFits, WireRows
  <2>5. t \in OutRows /\ t.pc = outs[o].pc /\ t.status \in {w.outcome, "deleted"}
    BY <2>3, <2>4, OutFields DEF OutRows, WireRows, E!Marked
  <2> HIDE DEF w, t
  <2>6. OutFits(t, w, o \in index)
    BY <2>1, <2>2, <2>3, <2>4, <2>5, OutFields DEF OutFits, Handled
  <2>7. QED  BY <2>2, <2>3, <2>5, <2>6, OutMoves
<1>7. QED  BY <1>1, <1>2, <1>3, <1>4, <1>5, <1>6 DEF E!Outgoing

DestRows == [known : BOOLEAN, verified : BOOLEAN, default : BOOLEAN, code : Nat]
DestFits(d) == (d.default => d.verified) /\ (d.verified => d.known)
DestInv ==
    /\ dests \in [Addresses -> DestRows] /\ lastDestCode \in Nat
    /\ \A a \in Addresses : DestFits(dests[a])
    /\ \A a, b \in Addresses : dests[a].default /\ dests[b].default => a = b

\* One row changes, and only where no other is the default it becomes one.
LEMMA DestMoves ==
    ASSUME DestInv, NEW a \in Addresses, NEW d \in DestRows, dests' = [dests EXCEPT ![a] = d], lastDestCode' \in Nat,
           DestFits(d), d.default => dests[a].default \/ \A b \in Addresses : ~dests[b].default
    PROVE  DestInv'
<1>1. dests' \in [Addresses -> DestRows] /\ dests'[a] = d /\ \A b \in Addresses \ {a} : dests'[b] = dests[b]
  BY DEF DestInv
<1>2. \A b \in Addresses : DestFits(dests'[b])
  BY <1>1 DEF DestInv
<1>3. ASSUME NEW b \in Addresses, NEW c \in Addresses, dests'[b].default, dests'[c].default PROVE b = c
  BY <1>1, <1>3 DEF DestInv
<1>4. QED  BY <1>1, <1>2, <1>3 DEF DestInv

\* Only a row of an address is written.
LEMMA DestOther ==
    ASSUME DestInv, NEW a, NEW d, dests' = [dests EXCEPT ![a] = d], a \notin Addresses, lastDestCode' \in Nat
    PROVE  DestInv'
<1>1. dests' \in [Addresses -> DestRows] /\ \A b \in Addresses : dests'[b] = dests[b]
  BY DEF DestInv
<1>2. QED  BY <1>1 DEF DestInv

(* Every capability for destinations keeps at most one default (emailDestinationVerify, emailDestinationSetDefault). *)
LEMMA DestinationsStep == ASSUME DestInv, E!Destinations PROVE DestInv'
<1>1. \A a \in Addresses : dests[a] \in DestRows /\ DestFits(dests[a])
  BY DEF DestInv
<1>2. E!NoDest \in DestRows /\ ~E!NoDest.default /\ ~E!NoDest.verified
  BY DEF E!NoDest, DestRows
<1>3. CASE E!ensureAccountDestination
  <2> DEFINE a == E!Account
             b == IF dests[a].known THEN dests[a].default ELSE \A c \in Addresses : ~dests[c].known
             d == [known |-> TRUE, verified |-> TRUE, code |-> 0, default |-> b]
  <2>1. dests' = [dests EXCEPT ![a] = d] /\ UNCHANGED lastDestCode
    BY <1>3 DEF E!ensureAccountDestination
  <2>2. CASE a \notin Addresses
    <3> HIDE DEF a, d
    <3>1. QED  BY <2>1, <2>2, DestOther DEF DestInv
  <2>3. CASE a \in Addresses
    <3>1. b \in BOOLEAN
      BY <1>1, <2>3 DEF DestRows
    <3>2. b => dests[a].default \/ \A c \in Addresses : ~dests[c].default
      BY <1>1, <2>3 DEF DestFits
    <3> HIDE DEF b
    <3>3. d \in DestRows /\ DestFits(d) /\ d.default = b
      BY <3>1 DEF DestRows, DestFits
    <3> HIDE DEF d, a
    <3>4. QED  BY <2>1, <2>3, <3>2, <3>3, DestMoves DEF DestInv
  <2>4. QED  BY <2>2, <2>3
<1>4. ASSUME NEW a \in Addresses, E!emailDestinationBegin(a) PROVE DestInv'
  <2> DEFINE yes == TRUE
             d == [dests[a] EXCEPT !.known = yes, !.code = lastDestCode + 1]
  <2>1. dests' = [dests EXCEPT ![a] = d] /\ lastDestCode' = lastDestCode + 1 /\ lastDestCode \in Nat
    BY <1>4 DEF E!emailDestinationBegin, DestInv
  <2>2. yes \in BOOLEAN /\ yes /\ lastDestCode' \in Nat /\ lastDestCode + 1 \in Nat
    BY <2>1
  <2> HIDE DEF yes
  <2>3. d \in DestRows /\ d.known = yes /\ d.default = dests[a].default /\ d.verified = dests[a].verified
    BY <1>1, <2>2 DEF DestRows
  <2>4. DestFits(d)
    BY <1>1, <2>2, <2>3 DEF DestFits
  <2> HIDE DEF d
  <2>5. QED  BY <2>1, <2>2, <2>3, <2>4, DestMoves
<1>5. ASSUME NEW a \in Addresses, E!emailDestinationVerify(a) PROVE DestInv'
  <2> DEFINE b == E!BecomesDefault(a)
             v == [known |-> TRUE, verified |-> TRUE, code |-> 0, default |-> b]
             d == IF ~dests[a].known THEN dests[a] ELSE v
  <2>1. dests' = [dests EXCEPT ![a] = d] /\ UNCHANGED lastDestCode
    BY <1>5 DEF E!emailDestinationVerify
  <2>2. b \in BOOLEAN /\ (b => \A c \in Addresses : ~dests[c].default)
    BY DEF E!BecomesDefault
  <2> HIDE DEF b
  <2>3. v \in DestRows /\ DestFits(v) /\ v.default = b
    BY <2>2 DEF DestRows, DestFits
  <2> HIDE DEF v
  <2>4. d \in DestRows /\ DestFits(d) /\ (d.default => dests[a].default \/ \A c \in Addresses : ~dests[c].default)
    BY <1>1, <2>2, <2>3
  <2> HIDE DEF d
  <2>5. QED  BY <2>1, <2>4, DestMoves DEF DestInv
<1>6. ASSUME NEW a \in Addresses, E!CodeExpires(a) PROVE DestInv'
  <2> DEFINE d == [dests[a] EXCEPT !.code = 0]
  <2>1. dests' = [dests EXCEPT ![a] = d] /\ UNCHANGED lastDestCode
    BY <1>6 DEF E!CodeExpires
  <2>2. d \in DestRows /\ d.known = dests[a].known /\ d.default = dests[a].default /\ d.verified = dests[a].verified
    BY <1>1 DEF DestRows
  <2>3. DestFits(d)
    BY <1>1, <2>2 DEF DestFits
  <2> HIDE DEF d
  <2>4. QED  BY <2>1, <2>2, <2>3, DestMoves DEF DestInv
<1>7. ASSUME NEW a \in Addresses, E!emailDestinationSetDefault(a) PROVE DestInv'
  <2>1. dests[a].verified /\ dests' = [b \in Addresses |-> [dests[b] EXCEPT !.default = (b = a)]] /\ UNCHANGED lastDestCode
    BY <1>7 DEF E!emailDestinationSetDefault
  <2>2. ASSUME NEW b \in Addresses
        PROVE  /\ dests'[b] \in DestRows /\ (dests'[b].default <=> b = a)
               /\ dests'[b].verified = dests[b].verified /\ dests'[b].known = dests[b].known
    <3> DEFINE t == (b = a)
               d == [dests[b] EXCEPT !.default = t]
    <3>1. dests'[b] = d /\ t \in BOOLEAN
      BY <2>1
    <3>2. t <=> b = a
      OBVIOUS
    <3> HIDE DEF t
    <3>3. d \in DestRows /\ d.default = t /\ d.verified = dests[b].verified /\ d.known = dests[b].known
      BY <1>1, <3>1 DEF DestRows
    <3> HIDE DEF d
    <3>4. QED  BY <3>1, <3>2, <3>3
  <2>3. \A b \in Addresses : DestFits(dests'[b])
    BY <1>1, <2>1, <2>2 DEF DestFits
  <2>4. dests' \in [Addresses -> DestRows]
    BY <2>1, <2>2
  <2>5. QED  BY <2>1, <2>2, <2>3, <2>4 DEF DestInv
<1>8. ASSUME NEW a \in Addresses, E!emailDestinationRemove(a) PROVE DestInv'
  BY <1>2, <1>8, DestMoves DEF E!emailDestinationRemove, DestFits, DestInv
<1>9. ASSUME NEW a \in Addresses, NEW code \in 1..lastDestCode, E!VerifyRead(a, code) PROVE DestInv'
  BY <1>9 DEF E!VerifyRead, DestInv
<1>10. QED  BY <1>3, <1>4, <1>5, <1>6, <1>7, <1>8, <1>9 DEF E!Destinations

(* What leaves the tables of messages out alone keeps their account. *)
LEMMA OutStay == ASSUME OutboundInv, UNCHANGED E!outVars PROVE OutboundInv'
  BY DEF OutboundInv, E!outVars

(* What leaves the table of destinations alone keeps its account. *)
LEMMA DestStay == ASSUME DestInv, UNCHANGED E!destVars PROVE DestInv'
  BY DEF DestInv, E!destVars

(* Addresses mail goes to: a verified one was proven, and so was one whose code is being checked. *)

Allowed(a) == a \notin Addresses \ (proven \cup {E!Account})
ProvenInv ==
    /\ verifying \subseteq proven
    /\ \A a \in Addresses : dests[a].verified => Allowed(a)
    /\ \A o \in Outs : outs[o].pc \notin {"none", "check"} => Allowed(outs[o].to)

\* A message that is sent on keeps its recipient.
LEMMA SentOn ==
    ASSUME OutboundInv, ProvenInv, NEW o \in Outs, NEW q \in OutRows, outs' = [outs EXCEPT ![o] = q], UNCHANGED E!destVars,
           q.pc \in {"none", "check"} \/ (q.to = outs[o].to /\ outs[o].pc \notin {"none", "check"}) \/ Allowed(q.to)
    PROVE  ProvenInv'
<1>1. outs'[o] = q /\ \A x \in Outs \ {o} : outs'[x] = outs[x]
  BY DEF OutboundInv
<1>2. \A a : Allowed(a)' <=> Allowed(a)
  BY DEF Allowed, E!destVars
<1>3. ASSUME NEW x \in Outs, outs'[x].pc \notin {"none", "check"} PROVE Allowed(outs'[x].to)
  <2>1. CASE x = o
    BY <1>1, <1>3, <2>1 DEF ProvenInv
  <2>2. CASE x # o
    BY <1>1, <1>3, <2>2 DEF ProvenInv
  <2>3. QED  BY <2>1, <2>2
<1>4. QED  BY <1>2, <1>3 DEF ProvenInv, E!destVars

(* Sending keeps it: a recipient that is not checked is not an address outside the domain. *)
LEMMA SentStep == ASSUME E!EmailConstants, InboundTypes, OutboundInv, ProvenInv, E!Compose \/ E!Outgoing PROVE ProvenInv'
<1> USE DEF E!Sending
<1>1. UNCHANGED E!destVars
  BY DEF E!Compose, E!emailSend, E!emailReply, E!SendCode, E!Outgoing, E!SendCheck, E!SendStore, E!sendOutbound, E!SendFails,
         E!outboundEmailIndexSet, E!SendEnds, E!SendCrashes, E!OutDelete, E!deliver, E!ReportLost, E!EventResolve, E!EventApply
<1>2. Allowed(None) /\ \A l \in Locals : inbox[l] = E!Mailer => E!Mailer \in Users \cup {None}
  BY DEF Allowed, E!EmailConstants, InboundTypes
<1>3. ASSUME NEW o \in Outs, NEW l \in Locals, NEW to \in Addresses \cup Locals, E!emailSend(o, l, to) PROVE ProvenInv'
  <2> DEFINE q == [E!NoOut EXCEPT !.pc = "check", !.user = E!Mailer, !.local = l, !.to = to]
  <2>1. q \in OutRows /\ q.pc = "check" /\ outs' = [outs EXCEPT ![o] = q]
    BY <1>2, <1>3 DEF OutRows, E!NoOut, E!emailSend
  <2> HIDE DEF q
  <2>2. QED  BY <1>1, <2>1, SentOn
<1>4. ASSUME NEW o \in Outs, NEW l \in Locals, (\E m \in Mails : E!emailReply(o, m, l)) \/ E!SendCode(o, l) PROVE ProvenInv'
  <2> DEFINE q == [E!NoOut EXCEPT !.pc = "store", !.user = E!Mailer, !.local = l]
  <2>1. q \in OutRows /\ q.to = None /\ outs' = [outs EXCEPT ![o] = q]
    BY <1>2, <1>4 DEF OutRows, E!NoOut, E!emailReply, E!SendCode
  <2> HIDE DEF q
  <2>2. QED  BY <1>1, <1>2, <2>1, SentOn
<1>5. ASSUME NEW o \in Outs, NEW pc \in {"store", "post", "index", "mark", "audit", "done", "fail", "failed", "gone"},
             NEW s \in {"none", "sending", "queued", "sent", "failed", "deleted"},
             outs' = [outs EXCEPT ![o] = [outs[o] EXCEPT !.pc = pc, !.status = s]],
             outs[o].pc \notin {"none", "check"} \/ Allowed(outs[o].to)
      PROVE  ProvenInv'
  <2> DEFINE q == [outs[o] EXCEPT !.pc = pc, !.status = s]
  <2>1. q \in OutRows /\ q.to = outs[o].to
    BY OutFields DEF OutRows
  <2> HIDE DEF q
  <2>2. QED  BY <1>1, <1>5, <2>1, SentOn DEF q
<1>6. ASSUME NEW o \in Outs, outs' = [outs EXCEPT ![o] = E!NoOut] PROVE ProvenInv'
  <2>1. E!NoOut.pc = "none"
    BY DEF E!NoOut
  <2>2. QED  BY <1>1, <1>6, <2>1, OutFields, SentOn
<1>7. ASSUME NEW o \in Outs
      PROVE  outs[o].status \in {"none", "sending", "queued", "sent", "failed", "deleted"}
  BY OutFields DEF OutRows
<1>8. ASSUME NEW o \in Outs, NEW pc \in {"store", "post", "index", "mark", "audit", "done", "fail", "failed", "gone"},
             outs' = [outs EXCEPT ![o] = [outs[o] EXCEPT !.pc = pc]], outs[o].pc \notin {"none", "check"} \/ Allowed(outs[o].to)
      PROVE  ProvenInv'
  <2> DEFINE q == [outs[o] EXCEPT !.pc = pc]
  <2>1. q \in OutRows /\ q.to = outs[o].to
    BY OutFields DEF OutRows
  <2> HIDE DEF q
  <2>2. QED  BY <1>1, <1>8, <2>1, SentOn DEF q
<1>9. ASSUME NEW o \in Outs, E!SendCheck(o) PROVE ProvenInv'
  <2>1. CASE outs' = [outs EXCEPT ![o] = E!NoOut]
    BY <1>6, <2>1
  <2>2. CASE outs' # [outs EXCEPT ![o] = E!NoOut]
    <3>1. outs' = [outs EXCEPT ![o] = [outs[o] EXCEPT !.pc = "store"]]
          /\ (outs[o].to = E!Account \/ outs[o].to \in Locals \/ dests[outs[o].to].verified)
      BY <1>9, <2>2 DEF E!SendCheck
    <3>2. Allowed(outs[o].to)
      BY <3>1 DEF Allowed, ProvenInv, E!EmailConstants
    <3>3. QED  BY <1>8, <3>1, <3>2
  <2>3. QED  BY <2>1, <2>2
<1>10. ASSUME NEW o \in Outs, E!SendStore(o) PROVE ProvenInv'
  <2>1. outs[o].pc = "store" /\ (\/ outs' = [outs EXCEPT ![o] = [outs[o] EXCEPT !.pc = "post", !.status = "sending"]]
                                \/ outs' = [outs EXCEPT ![o] = E!NoOut])
    BY <1>10 DEF E!SendStore
  <2>2. QED  BY <1>5, <1>6, <2>1
<1>11. ASSUME NEW o \in Outs, E!sendOutbound(o) \/ E!SendFails(o) \/ E!outboundEmailIndexSet(o) \/ E!SendCrashes(o) PROVE ProvenInv'
  BY <1>8, <1>11 DEF E!sendOutbound, E!SendFails, E!outboundEmailIndexSet, E!SendCrashes
<1>12. ASSUME NEW o \in Outs, E!SendEnds(o) PROVE ProvenInv'
  <2>1. CASE outs[o].pc = "audit" /\ outs' = [outs EXCEPT ![o] = [outs[o] EXCEPT !.pc = "done"]]
    BY <1>8, <2>1
  <2>2. ASSUME NEW s \in {"queued", "failed"}, NEW pc \in {"audit", "failed"}, outs[o].pc \in {"mark", "fail"},
               outs' = [outs EXCEPT ![o] = [outs[o] EXCEPT !.pc = pc, !.status = E!Marked(o, s)]]
        PROVE  ProvenInv'
    <3>1. E!Marked(o, s) \in {"queued", "failed", "deleted"}
      BY <2>2 DEF E!Marked
    <3> DEFINE n == E!Marked(o, s)
    <3>2. n \in {"queued", "failed", "deleted"} /\ outs' = [outs EXCEPT ![o] = [outs[o] EXCEPT !.pc = pc, !.status = n]]
      BY <2>2, <3>1
    <3> HIDE DEF n
    <3>3. QED  BY <1>5, <2>2, <3>2
  <2>3. \/ outs[o].pc = "audit" /\ outs' = [outs EXCEPT ![o] = [outs[o] EXCEPT !.pc = "done"]]
        \/ outs[o].pc = "mark" /\ outs' = [outs EXCEPT ![o] = [outs[o] EXCEPT !.status = E!Marked(o, "queued"), !.pc = "audit"]]
        \/ outs[o].pc = "fail" /\ outs' = [outs EXCEPT ![o] = [outs[o] EXCEPT !.status = E!Marked(o, "failed"), !.pc = "failed"]]
    BY <1>12 DEF E!SendEnds
  <2>4. \A x, y : [outs[o] EXCEPT !.status = x, !.pc = y] = [outs[o] EXCEPT !.pc = y, !.status = x]
    BY OutFields DEF OutRows
  <2>5. QED  BY <2>1, <2>2, <2>3, <2>4
<1>13. ASSUME NEW o \in Outs, NEW s \in {"none", "sending", "queued", "sent", "failed", "deleted"}, outs' = [outs EXCEPT ![o].status = s] PROVE ProvenInv'
  <2> DEFINE q == [outs[o] EXCEPT !.status = s]
  <2>1. q \in OutRows /\ q.to = outs[o].to /\ q.pc = outs[o].pc
    BY OutFields DEF OutRows
  <2>2. outs' = [outs EXCEPT ![o] = q]
    BY <1>13
  <2> HIDE DEF q
  <2>3. QED  BY <1>1, <2>1, <2>2, SentOn
<1>14. ASSUME NEW o \in Outs, E!OutDelete(o) \/ E!EventApply(o) PROVE ProvenInv'
  <2>1. E!Marked(o, wire[o].outcome) \in {"none", "sent", "failed", "deleted"}
    BY OutFields DEF E!Marked, WireRows
  <2>2. QED  BY <1>13, <1>14, <2>1 DEF E!OutDelete, E!EventApply
<1>15. ASSUME UNCHANGED outs PROVE ProvenInv'
  BY <1>1, <1>15 DEF ProvenInv, Allowed, E!destVars
<1>16. ASSUME NEW o \in Outs, E!deliver(o) \/ E!ReportLost(o) \/ E!EventResolve(o) PROVE ProvenInv'
  BY <1>15, <1>16 DEF E!deliver, E!ReportLost, E!EventResolve
<1>17. QED  BY <1>3, <1>4, <1>9, <1>10, <1>11, <1>12, <1>14, <1>16 DEF E!Compose, E!Outgoing

(* Destinations keep it: an address becomes verified by its code, or as the account's. *)
LEMMA ProvenStep == ASSUME DestInv, ProvenInv, E!Destinations PROVE ProvenInv'
<1>1. UNCHANGED outs
  BY DEF E!Destinations, E!ensureAccountDestination, E!emailDestinationBegin, E!emailDestinationVerify, E!CodeExpires,
         E!emailDestinationSetDefault, E!emailDestinationRemove, E!VerifyRead, E!outVars
<1>2. ASSUME proven \subseteq proven', verifying' \subseteq proven',
             \A b \in Addresses : dests'[b].verified => dests[b].verified \/ b = E!Account \/ b \in proven'
      PROVE  ProvenInv'
  <2>1. \A a : Allowed(a) => Allowed(a)'
    BY <1>2 DEF Allowed
  <2>2. \A a \in Addresses : a = E!Account \/ a \in proven' => Allowed(a)'
    BY DEF Allowed
  <2>3. QED  BY <1>1, <1>2, <2>1, <2>2 DEF ProvenInv
<1>3. ASSUME NEW a, NEW d, dests' = [dests EXCEPT ![a] = d],
             a \in Addresses => (d.verified => dests[a].verified \/ a = E!Account \/ a \in proven')
      PROVE  \A b \in Addresses : dests'[b].verified => dests[b].verified \/ b = E!Account \/ b \in proven'
  BY <1>3 DEF DestInv
<1>4. CASE E!ensureAccountDestination
  <2>1. /\ UNCHANGED <<proven, verifying>>
        /\ dests' = [dests EXCEPT ![E!Account] = [known |-> TRUE, verified |-> TRUE, code |-> 0,
               default |-> IF dests[E!Account].known THEN dests[E!Account].default ELSE \A c \in Addresses : ~dests[c].known]]
    BY <1>4 DEF E!ensureAccountDestination
  <2>2. QED  BY <1>2, <1>3, <2>1 DEF ProvenInv
<1>5. ASSUME NEW a \in Addresses, E!emailDestinationBegin(a) \/ E!CodeExpires(a) PROVE ProvenInv'
  <2>1. PICK known \in BOOLEAN, code \in Nat : dests' = [dests EXCEPT ![a] = [dests[a] EXCEPT !.known = known, !.code = code]]
    <3>1. CASE E!emailDestinationBegin(a)
      <4> DEFINE yes == TRUE
      <4>1. yes \in BOOLEAN /\ lastDestCode + 1 \in Nat
        BY DEF DestInv
      <4>2. dests' = [dests EXCEPT ![a] = [dests[a] EXCEPT !.known = yes, !.code = lastDestCode + 1]]
        BY <3>1 DEF E!emailDestinationBegin
      <4> HIDE DEF yes
      <4>3. QED  BY <4>1, <4>2
    <3>2. CASE E!CodeExpires(a)
      <4>1. dests[a] \in DestRows
        BY DEF DestInv
      <4>2. dests' = [dests EXCEPT ![a] = [dests[a] EXCEPT !.known = dests[a].known, !.code = 0]] /\ dests[a].known \in BOOLEAN
        BY <3>2, <4>1 DEF E!CodeExpires, DestRows
      <4>3. QED  BY <4>2
    <3>3. QED  BY <1>5, <3>1, <3>2
  <2> DEFINE d == [dests[a] EXCEPT !.known = known, !.code = code]
  <2>2. d.verified = dests[a].verified
    BY DEF DestInv, DestRows
  <2> HIDE DEF d
  <2>3. UNCHANGED <<proven, verifying>>
    BY <1>5 DEF E!emailDestinationBegin, E!CodeExpires
  <2>4. QED  BY <1>2, <1>3, <2>1, <2>2, <2>3 DEF ProvenInv, d
<1>6. ASSUME NEW a \in Addresses, E!emailDestinationVerify(a) PROVE ProvenInv'
  <2>1. PICK d : dests' = [dests EXCEPT ![a] = d]
    BY <1>6 DEF E!emailDestinationVerify
  <2>2. UNCHANGED proven /\ verifying' \subseteq proven /\ a \in proven
    BY <1>6 DEF E!emailDestinationVerify, ProvenInv
  <2>3. QED  BY <1>2, <1>3, <2>1, <2>2
<1>7. ASSUME NEW a \in Addresses, E!emailDestinationSetDefault(a) PROVE ProvenInv'
  <2>1. dests' = [b \in Addresses |-> [dests[b] EXCEPT !.default = (b = a)]] /\ UNCHANGED <<proven, verifying>>
    BY <1>7 DEF E!emailDestinationSetDefault
  <2>2. \A b \in Addresses : dests'[b].verified = dests[b].verified
    <3>1. ASSUME NEW b \in Addresses, NEW t PROVE [dests[b] EXCEPT !.default = t].verified = dests[b].verified
      BY DEF DestInv, DestRows
    <3>2. QED  BY <2>1, <3>1
  <2>3. QED  BY <1>2, <2>1, <2>2 DEF ProvenInv
<1>8. ASSUME NEW a \in Addresses, E!emailDestinationRemove(a) PROVE ProvenInv'
  <2>1. dests' = [dests EXCEPT ![a] = E!NoDest] /\ UNCHANGED <<proven, verifying>> /\ ~E!NoDest.verified
    BY <1>8 DEF E!emailDestinationRemove, E!NoDest
  <2>2. QED  BY <1>2, <1>3, <2>1 DEF ProvenInv
<1>9. ASSUME NEW a \in Addresses, NEW code \in 1..lastDestCode, E!VerifyRead(a, code) PROVE ProvenInv'
  BY <1>2, <1>9 DEF E!VerifyRead, ProvenInv
<1>10. QED  BY <1>4, <1>5, <1>6, <1>7, <1>8, <1>9 DEF E!Destinations

OutgoingInv == InboundInv /\ OutboundInv /\ DestInv /\ ProvenInv

(* Every step of Email keeps the accounts of inbound mail, messages out and destinations. *)
LEMMA SendingStep == ASSUME E!EmailConstants, OutgoingInv, [E!Next]_E!vars PROVE OutgoingInv'
<1>1. InboundInv'
  BY InboundStep DEF OutgoingInv
<1>2. E!Delivery \/ E!Inbox => UNCHANGED E!outVars /\ UNCHANGED E!destVars
  BY DEF E!Delivery, E!NextDay, E!Forward, E!ForwardTimesOut, E!Crash, E!inboxResolve, E!emailClassify, E!emailMessageStore,
         E!StoreFails, E!Answer, E!Inbox, E!inboxClaim, E!inboxRelease, E!emailMessageDelete, E!emailMessageRelease, E!emailSenderRuleSet
<1>3. E!Compose \/ E!Outgoing => UNCHANGED E!destVars
  BY DEF E!Compose, E!emailSend, E!emailReply, E!SendCode, E!Outgoing, E!SendCheck, E!SendStore, E!sendOutbound, E!SendFails,
         E!outboundEmailIndexSet, E!SendEnds, E!SendCrashes, E!OutDelete, E!deliver, E!ReportLost, E!EventResolve, E!EventApply
<1>4. E!Destinations => UNCHANGED E!outVars
  BY DEF E!Destinations, E!ensureAccountDestination, E!emailDestinationBegin, E!emailDestinationVerify, E!CodeExpires,
         E!emailDestinationSetDefault, E!emailDestinationRemove, E!VerifyRead
<1>5. UNCHANGED E!vars => UNCHANGED E!outVars /\ UNCHANGED E!destVars
  BY DEF E!vars
<1>6. OutboundInv'
  BY <1>2, <1>4, <1>5, ComposeStep, OutgoingStep, OutStay DEF OutgoingInv, InboundInv, E!Next
<1>7. DestInv'
  BY <1>2, <1>3, <1>5, DestinationsStep, DestStay DEF OutgoingInv, E!Next
<1>8. ProvenInv'
  <2>1. ASSUME UNCHANGED E!outVars, UNCHANGED E!destVars PROVE ProvenInv'
    BY <2>1 DEF OutgoingInv, ProvenInv, Allowed, E!outVars, E!destVars
  <2>2. QED  BY <1>2, <1>5, <2>1, SentStep, ProvenStep DEF OutgoingInv, InboundInv, E!Next
<1>9. QED  BY <1>1, <1>6, <1>7, <1>8 DEF OutgoingInv

(* They hold at first. *)
LEMMA SendingInit == ASSUME E!EmailConstants, E!Init PROVE OutgoingInv
<1>1. DestInv
  BY DEF E!Init, DestInv, DestRows, DestFits, E!NoDest
<1>2. ProvenInv
  BY DEF E!Init, ProvenInv, Allowed, E!NoDest, E!NoOut
<1>3. QED  BY <1>1, <1>2, InboundInit, OutInit DEF OutgoingInv

(* The invariant of destinations says there is one default at most. *)
LEMMA DefaultIsOne == ASSUME DestInv PROVE E!OneDefault
  BY DEF DestInv, DestFits, E!OneDefault

(* In every order of the send and of the report about it, what a message says of itself is true, and no report handled once
   the message was marked is lost; mail leaves the domain only for the account's address, for replies and codes, and for
   addresses that were proven; one verified destination at most is the default (email/service.ts sendUserEmail,
   applyDeliveryEvents, cells/user-cell.ts emailDestinationVerify). *)
THEOREM ReportsDecide == ASSUME E!EmailConstants PROVE E!Spec => []OutboundSound
<1>1. E!Init => OutgoingInv
  BY SendingInit
<1>2. OutgoingInv /\ [E!Next]_E!vars => OutgoingInv'
  BY SendingStep
<1>3. OutgoingInv => OutboundSound
  <2>1. OutgoingInv => E!StatusTrue
    BY DEF OutgoingInv, OutboundInv, OutFits, Handled, E!StatusTrue, E!Sending
  <2>2. OutgoingInv => E!SentIsProven
    BY DEF OutgoingInv, ProvenInv, Allowed, E!SentIsProven
  <2>3. QED  BY <2>1, <2>2, DefaultIsOne DEF OutgoingInv, OutboundSound, E!OutboundSound
<1>4. QED  BY <1>1, <1>2, <1>3, PTL DEF E!Spec
=============================================================================
