-------------------------- MODULE OAuthServer_proofs --------------------------
(***************************************************************************)
(* Proofs about module OAuthServer, for any clients, any number of token   *)
(* requests at once, and any numbers of codes, grants and token pairs.     *)
(***************************************************************************)
EXTENDS OAuthServer, TLAPS
----------------------------------------------------------------------------
(* The inductive invariant *)

Rows == [state : {"absent", "live", "replaced"}, grant : 0..MaxGrants, family : 0..MaxPairs,
         expired : BOOLEAN, replay : 0..MaxPairs, grace : BOOLEAN]
AccessRows == [state : {"absent", "live"}, grant : 0..MaxGrants, family : 0..MaxPairs]
Stages == {"idle", "consuming", "ensuring", "issuing", "reading", "minting", "minted", "sealing", "answered"}
Reqs == [pc : Stages, client : Clients \cup {None}, code : 0..MaxCodes, using : 0..MaxPairs,
         grant : 0..MaxGrants, family : 0..MaxPairs, pair : 0..MaxPairs]

Absent(p) == refresh[p].state = "absent"

\* Shapes, and only numbers that were given out are in use.
Types ==
    /\ TypeOK
    /\ reqs \in [Requests -> Reqs]
    /\ born \in [Pairs -> 0..MaxCodes]
    /\ careless \subseteq Clients /\ crowded \subseteq Pairs /\ ended \subseteq 1..lastPair

Counted ==
    /\ \A k \in Codes : codes[k] # None => k <= lastCode
    /\ \A p \in Pairs : born[p] <= lastCode
    /\ \A g \in Grants : grants[g] # None => g <= lastGrant
    /\ \A p \in Pairs : IF Absent(p) THEN refresh[p] = NoRefresh
                        ELSE refresh[p].grant \in 1..lastGrant /\ refresh[p].family \in 1..lastPair
    /\ \A p \in Pairs : refresh[p].replay <= lastPair
    /\ \A p \in Pairs : IF access[p].state = "absent" THEN access[p] = NoAccess
                        ELSE access[p].grant \in 1..lastGrant /\ access[p].family \in 1..lastPair

Unminted(r) == reqs[r].pc \in {"minting", "minted"}

\* What a request knows at its stage.
Stage(r) ==
    LET q == reqs[r]
    IN  /\ ~Idle(r) => q.client \in Clients
        /\ q.using <= lastPair
        /\ q.pc \in {"consuming", "ensuring", "issuing"} => q.code \in 1..lastCode /\ q.using = 0
        /\ q.pc = "issuing" => q.grant \in 1..lastGrant /\ grants[q.grant] \in {q.client, None}
        /\ q.pc = "reading" => q.using # 0
        /\ q.pc = "answered" => q.pair \in 1..lastPair
        /\ q.pc = "sealing" => q.using # 0
        /\ Unminted(r) => Absent(q.pair)
        /\ Minting(r) => /\ q.grant \in 1..lastGrant /\ q.family \in 1..lastPair /\ q.pair \in 1..lastPair
                         /\ q.using < q.pair
                         /\ grants[q.grant] \in {q.client, None}
                         /\ q.using # 0 => Absent(q.using) \/ (refresh[q.using].grant = q.grant /\ refresh[q.using].family = q.family)

\* Two requests never mint the same pair, and none is used before it is minted.
Apart ==
    /\ \A r, s \in Requests : r # s /\ Minting(r) /\ Minting(s) => reqs[r].pair # reqs[s].pair
    /\ \A r, s \in Requests : Unminted(r) /\ Minting(s) => reqs[s].using # reqs[r].pair

TInv == Types /\ Counted /\ (\A r \in Requests : Stage(r)) /\ Apart

Holding(r) == reqs[r].pc \in {"ensuring", "issuing"}
Bought(k) == \E p \in Pairs : born[p] = k

\* A code that a request took, and one that is still there, bought nothing yet.
CodeInv ==
    /\ \A r \in Requests : Holding(r) => codes[reqs[r].code] = None /\ ~Bought(reqs[r].code)
    /\ \A r, s \in Requests : r # s /\ Holding(r) /\ Holding(s) => reqs[r].code # reqs[s].code
    /\ \A k \in Codes : codes[k] # None => ~Bought(k)
    /\ CodeOnce

\* Family f is, or is about to be, used under grant g.
Claim(f, g) ==
    \/ \E p \in Pairs : ~Absent(p) /\ refresh[p].family = f /\ refresh[p].grant = g
    \/ \E p \in Pairs : access[p].state # "absent" /\ access[p].family = f /\ access[p].grant = g
    \/ \E r \in Requests : Minting(r) /\ reqs[r].family = f /\ reqs[r].grant = g

FamilyInv ==
    /\ \A f \in Pairs, g, h \in Grants : Claim(f, g) /\ Claim(f, h) => g = h
    /\ \A f \in ended \ crowded, g \in Grants : Claim(f, g) => grants[g] = None

Live(p) == refresh[p].state = "live"

\* The live tokens of a family that is being refreshed are the one used and the one minted.
LiveInv ==
    /\ \A r, s \in Requests : r # s /\ Minting(r) /\ Minting(s) /\ reqs[r].family = reqs[s].family => reqs[r].family \in crowded
    /\ \A r \in Requests, p \in Pairs :
          Minting(r) /\ Live(p) /\ refresh[p].family = reqs[r].family /\ reqs[r].family \notin crowded =>
              p = reqs[r].using \/ (reqs[r].pc = "sealing" /\ p = reqs[r].pair)
    /\ \A p, q \in Pairs : p # q /\ Live(p) /\ Live(q) /\ refresh[p].family = refresh[q].family =>
          refresh[p].family \in crowded \/ \E r \in Requests : Minting(r) /\ reqs[r].family = refresh[p].family

Active(r, c) == ~Idle(r) /\ reqs[r].client = c
Uses(c, t) == \E r \in Requests : Active(r, c) /\ reqs[r].using = t
\* Client c can rotate token t; it can have the answer that replaced t repeated; and that answer holds
\* a good token that no request of c has used.
Fresh(c, t) == t \in Pairs /\ Live(t) /\ grants[refresh[t].grant] = c
Repeatable(c, t) ==
    /\ t \in Pairs /\ refresh[t].state = "replaced" /\ grants[refresh[t].grant] = c
    /\ refresh[t].grace /\ refresh[t].replay \in Pairs
Repeats(c, t) == Repeatable(c, t) /\ Fresh(c, refresh[t].replay) /\ ~Uses(c, refresh[t].replay)

\* A client that keeps the protocol holds a good token, or one whose answer can be repeated.
RetryOf(c) ==
    /\ \A p \in Pairs : ~Absent(p) /\ grants[refresh[p].grant] = c => ~refresh[p].expired
    /\ \A r \in Requests : Active(r, c) /\ (Minting(r) \/ reqs[r].pc = "issuing") => grants[reqs[r].grant] = c
    /\ \A r, s \in Requests : Active(r, c) /\ Active(s, c) /\ reqs[r].using # 0 /\ reqs[s].using # 0 => reqs[r].using = reqs[s].using
    /\ \A r \in Requests : Active(r, c) /\ reqs[r].using # 0 =>
          /\ Fresh(c, reqs[r].using) \/ Repeats(c, reqs[r].using)
          /\ reqs[r].using = held[c] \/ Fresh(c, held[c])
    /\ held[c] # 0 => Fresh(c, held[c]) \/ Repeats(c, held[c])
    /\ \A r \in Requests : Active(r, c) /\ reqs[r].pc \in {"sealing", "answered"} => Fresh(c, reqs[r].pair) /\ ~Uses(c, reqs[r].pair)

RetryInv == \A c \in Clients : c \notin careless => RetryOf(c)

IInv == TInv /\ CodeInv /\ FamilyInv /\ LiveInv /\ RetryInv

USE OAuthAssumption

-----------------------------------------------------------------------------
(* What a step may do to the tables *)

\* Outside P rows only go, or are marked, purged or expired.
Thins(P) ==
    \A p \in Pairs \ P : refresh'[p] = NoRefresh \/
        /\ ~Absent(p) /\ refresh'[p].state \in {refresh[p].state, "replaced"}
        /\ refresh'[p].grant = refresh[p].grant /\ refresh'[p].family = refresh[p].family
        /\ refresh'[p].replay <= lastPair

Fades(P) == \A p \in Pairs \ P : access'[p] \in {access[p], NoAccess}

LEMMA Numbers == 0 \in 0..MaxCodes /\ 0 \in 0..MaxGrants /\ 0 \in 0..MaxPairs
BY DEF Codes

LEMMA Empty == NoRefresh \in Rows /\ NoAccess \in AccessRows /\ NoReq \in Reqs
BY Numbers DEF NoRefresh, NoAccess, NoReq, Rows, AccessRows, Reqs, Stages

\* The ways rows are edited.
LEMMA RowEdits ==
    ASSUME NEW row \in Rows, NEW n \in 0..MaxPairs
    PROVE  /\ [row EXCEPT !.replay = 0] \in Rows
           /\ [row EXCEPT !.grace = FALSE] \in Rows
           /\ [row EXCEPT !.expired = TRUE] \in Rows
           /\ [row EXCEPT !.state = "replaced", !.replay = n, !.grace = TRUE] \in Rows
<1>1. 0 \in 0..MaxPairs
  BY Numbers
<1>2. [row EXCEPT !.replay = 0] \in Rows
  BY <1>1, ZenonT(60) DEF Rows
<1>3. [row EXCEPT !.grace = FALSE] \in Rows /\ [row EXCEPT !.expired = TRUE] \in Rows
  BY ZenonT(60) DEF Rows
<1>4. [row EXCEPT !.state = "replaced", !.replay = n, !.grace = TRUE] \in Rows
  <2>1. "replaced" \in {"absent", "live", "replaced"} /\ TRUE \in BOOLEAN
    OBVIOUS
  <2> QED BY <2>1, ZenonT(60) DEF Rows
<1> QED BY <1>2, <1>3, <1>4

LEMMA NewRow ==
    ASSUME NEW g \in 0..MaxGrants, NEW f \in 0..MaxPairs
    PROVE  /\ [state |-> "live", grant |-> g, family |-> f, expired |-> FALSE, replay |-> 0, grace |-> FALSE] \in Rows
           /\ [state |-> "live", grant |-> g, family |-> f] \in AccessRows
BY Numbers DEF Rows, AccessRows

\* The ways requests are edited.
LEMMA ReqEdits ==
    ASSUME NEW q \in Reqs, NEW c \in Clients, NEW k \in 0..MaxCodes, NEW t \in 0..MaxPairs, NEW f \in 0..MaxPairs,
           NEW g \in 0..MaxGrants, NEW pc \in Stages
    PROVE  /\ [q EXCEPT !.pc = pc] \in Reqs
           /\ [q EXCEPT !.pc = pc, !.grant = g] \in Reqs
           /\ [q EXCEPT !.pc = pc, !.pair = t] \in Reqs
           /\ [q EXCEPT !.pc = pc, !.pair = t, !.family = f] \in Reqs
           /\ [q EXCEPT !.pc = pc, !.pair = t, !.grant = g, !.family = f] \in Reqs
           /\ [NoReq EXCEPT !.pc = pc, !.client = c, !.code = k] \in Reqs
           /\ [NoReq EXCEPT !.pc = pc, !.client = c, !.using = t] \in Reqs
<1>1. /\ [q EXCEPT !.pc = pc] \in Reqs
      /\ [q EXCEPT !.pc = pc, !.grant = g] \in Reqs
      /\ [q EXCEPT !.pc = pc, !.pair = t] \in Reqs
  BY ZenonT(60) DEF Reqs
<1>2. /\ [q EXCEPT !.pc = pc, !.pair = t, !.family = f] \in Reqs
      /\ [q EXCEPT !.pc = pc, !.pair = t, !.grant = g, !.family = f] \in Reqs
  BY ZenonT(60) DEF Reqs
<1>3. c \in Clients \cup {None}
  OBVIOUS
<1>4. NoReq \in Reqs
  BY Empty
<1>5. \A e \in Reqs : [e EXCEPT !.pc = pc, !.client = c, !.code = k] \in Reqs /\ [e EXCEPT !.pc = pc, !.client = c, !.using = t] \in Reqs
  BY <1>3, ZenonT(60) DEF Reqs
<1> QED BY <1>1, <1>2, <1>4, <1>5

LEMMA PurgeThins ==
    ASSUME Types, Counted, purge
    PROVE  /\ refresh' \in [Pairs -> Rows] /\ Thins({}) /\ Fades({})
           /\ codes' = codes /\ access' = access
           /\ \A p \in Pairs : \/ refresh'[p] = NoRefresh /\ (Absent(p) \/ refresh[p].expired)
                               \/ /\ ~Absent(p) /\ ~refresh[p].expired
                                  /\ refresh'[p].state = refresh[p].state /\ refresh'[p].expired = refresh[p].expired
                                  /\ refresh'[p].grant = refresh[p].grant /\ refresh'[p].family = refresh[p].family
                                  /\ refresh'[p].grace = refresh[p].grace
                                  /\ refresh'[p].replay \in {0, refresh[p].replay}
                                  /\ refresh[p].grace => refresh'[p].replay = refresh[p].replay
<1>1. refresh \in [Pairs -> Rows] /\ refresh' = purgeRefresh /\ codes' = codes /\ access' = access
  BY DEF Types, TypeOK, Rows, purge
<1>2. ASSUME NEW p \in Pairs
      PROVE  /\ refresh'[p] \in Rows
             /\ \/ refresh'[p] = NoRefresh /\ (Absent(p) \/ refresh[p].expired)
                \/ /\ ~Absent(p) /\ ~refresh[p].expired
                   /\ refresh'[p].state = refresh[p].state /\ refresh'[p].expired = refresh[p].expired
                   /\ refresh'[p].grant = refresh[p].grant /\ refresh'[p].family = refresh[p].family
                   /\ refresh'[p].grace = refresh[p].grace
                   /\ refresh'[p].replay \in {0, refresh[p].replay}
                   /\ refresh[p].grace => refresh'[p].replay = refresh[p].replay
  <2>1. refresh[p] \in Rows /\ NoRefresh \in Rows /\ [refresh[p] EXCEPT !.replay = 0] \in Rows
    BY <1>1, Empty, RowEdits, Numbers
  <2>2. refresh'[p] = IF refresh[p].expired THEN NoRefresh
                      ELSE IF ~refresh[p].grace THEN [refresh[p] EXCEPT !.replay = 0] ELSE refresh[p]
    BY <1>1 DEF purgeRefresh
  <2>3. [refresh[p] EXCEPT !.replay = 0].state = refresh[p].state /\ [refresh[p] EXCEPT !.replay = 0].grant = refresh[p].grant
        /\ [refresh[p] EXCEPT !.replay = 0].family = refresh[p].family /\ [refresh[p] EXCEPT !.replay = 0].expired = refresh[p].expired
        /\ [refresh[p] EXCEPT !.replay = 0].grace = refresh[p].grace /\ [refresh[p] EXCEPT !.replay = 0].replay = 0
    BY <2>1 DEF Rows
  <2>4. Absent(p) => refresh[p] = NoRefresh /\ [refresh[p] EXCEPT !.replay = 0] = NoRefresh
    BY DEF Counted, NoRefresh
  <2> QED BY <2>1, <2>2, <2>3, <2>4 DEF Absent
<1>3. refresh' \in [Pairs -> Rows]
  BY <1>1, <1>2 DEF purgeRefresh
<1>4. \A p \in Pairs : refresh[p].replay <= lastPair /\ 0 <= lastPair
  BY DEF Counted, Types, TypeOK
<1> QED BY <1>1, <1>2, <1>3, <1>4 DEF Thins, Fades

-----------------------------------------------------------------------------
(* Shapes: what steps have in common *)

Larger ==
    /\ lastCode' \in 0..MaxCodes /\ lastCode <= lastCode'
    /\ lastGrant' \in 0..MaxGrants /\ lastGrant <= lastGrant'
    /\ lastPair' \in 0..MaxPairs /\ lastPair <= lastPair'

GrantsStay == \A g \in 1..lastGrant : grants'[g] \in {grants[g], None}

Framed ==
    /\ clients' \in [Clients -> {"absent", "fresh", "old", "used"}]
    /\ codes' \in [Codes -> Clients \cup {None}] /\ \A k \in Codes : codes'[k] # None => k <= lastCode'
    /\ grants' \in [Grants -> Clients \cup {None}] /\ \A g \in Grants : grants'[g] # None => g <= lastGrant'
    /\ born' \in [Pairs -> 0..MaxCodes]
    /\ \A p \in Pairs : born'[p] <= lastCode' /\ (p > lastPair' => born'[p] = 0)
    /\ held' \in [Clients -> 0..lastPair']
    /\ careless' \subseteq Clients /\ crowded' \subseteq Pairs /\ ended' \subseteq 1..lastPair'

\* The requests outside R stay; those in R are as their stage wants, and mint a pair of their own.
ReqsMove(R) ==
    /\ reqs' \in [Requests -> Reqs]
    /\ \A s \in Requests \ R : reqs'[s] = reqs[s]
    /\ \A r, s \in R : r = s
    /\ \A r \in R : Stage(r)'
    /\ \A r \in R : Minting(r)' =>
          \/ /\ Minting(r) /\ reqs'[r].pair = reqs[r].pair /\ reqs'[r].using = reqs[r].using
             /\ Unminted(r)' => Unminted(r)
          \/ /\ reqs'[r].pair > lastPair
             /\ \A s \in Requests : Unminted(s) => reqs[s].pair # reqs'[r].using

LEMMA NumbersGrow == ASSUME TInv, UNCHANGED counters PROVE Larger
BY DEF Larger, TInv, Types, TypeOK, counters

LEMMA StageKept ==
    ASSUME TInv, NEW s \in Requests, reqs'[s] = reqs[s], Larger, GrantsStay,
           \A p \in Pairs : Minting(s) => \/ refresh'[p] = NoRefresh
                                          \/ /\ ~Absent(p) /\ refresh'[p].grant = refresh[p].grant
                                             /\ refresh'[p].family = refresh[p].family
                                          \/ p # reqs[s].pair /\ p # reqs[s].using
    PROVE  Stage(s)'
<1>1. Stage(s) /\ reqs[s] \in Reqs /\ lastCode \in Nat /\ lastGrant \in Nat /\ lastPair \in 0..MaxPairs
  BY DEF TInv, Types, TypeOK
<1>2. NoRefresh.state = "absent"
  BY DEF NoRefresh
<1>3. Idle(s)' = Idle(s) /\ Minting(s)' = Minting(s) /\ Unminted(s)' = Unminted(s)
  BY DEF Idle, Minting, Unminted
<1>4. Minting(s) => reqs[s].pair \in Pairs /\ (reqs[s].using # 0 => reqs[s].using \in Pairs)
  BY <1>1 DEF Stage, Reqs, Pairs
<1>5. Unminted(s) => Absent(reqs[s].pair) /\ Minting(s)
  BY <1>1 DEF Stage, Unminted, Minting
<1>6. Unminted(s) => refresh'[reqs[s].pair].state = "absent"
  BY <1>2, <1>4, <1>5 DEF Absent
<1>7. \A p \in Pairs : Minting(s) /\ reqs[s].using # 0 /\ p = reqs[s].using =>
          Absent(p)' \/ (refresh'[p].grant = reqs[s].grant /\ refresh'[p].family = reqs[s].family)
  <2> SUFFICES ASSUME NEW p \in Pairs, Minting(s), reqs[s].using # 0, p = reqs[s].using
               PROVE  Absent(p)' \/ (refresh'[p].grant = reqs[s].grant /\ refresh'[p].family = reqs[s].family)
    OBVIOUS
  <2>1. Absent(p) \/ (refresh[p].grant = reqs[s].grant /\ refresh[p].family = reqs[s].family)
    BY <1>1 DEF Stage
  <2>2. \/ refresh'[p] = NoRefresh
        \/ ~Absent(p) /\ refresh'[p].grant = refresh[p].grant /\ refresh'[p].family = refresh[p].family
    OBVIOUS
  <2> QED BY <1>2, <2>1, <2>2 DEF Absent
<1>8. \A g \in 1..lastGrant : grants[g] \in {reqs[s].client, None} => grants'[g] \in {reqs[s].client, None}
  BY DEF GrantsStay
<1>9. Minting(s) /\ reqs[s].using # 0 =>
          \/ refresh'[reqs[s].using].state = "absent"
          \/ refresh'[reqs[s].using].grant = reqs[s].grant /\ refresh'[reqs[s].using].family = reqs[s].family
  BY <1>4, <1>7 DEF Absent
<1> QED BY <1>1, <1>3, <1>6, <1>8, <1>9 DEF Stage, Larger, Reqs, Absent

\* A step that mints nothing.
LEMMA Steady ==
    ASSUME TInv, Larger, GrantsStay, Framed, Thins({}), Fades({}),
           refresh' \in [Pairs -> Rows], access' \in [Pairs -> AccessRows],
           NEW R \in SUBSET Requests, ReqsMove(R)
    PROVE  TInv'
<1>1. Types /\ TypeOK /\ Counted /\ Apart /\ (\A r \in Requests : Stage(r))
  BY DEF TInv, Types
<1>2. \A p \in Pairs : p > lastPair' => refresh'[p] = NoRefresh /\ access'[p] = NoAccess
  <2> SUFFICES ASSUME NEW p \in Pairs, p > lastPair' PROVE refresh'[p] = NoRefresh /\ access'[p] = NoAccess
    OBVIOUS
  <2>1. p > lastPair
    BY <1>1 DEF Larger, TypeOK, Pairs
  <2>2. access[p] = NoAccess /\ Absent(p)
    BY <1>1, <2>1 DEF TypeOK, Absent, NoRefresh
  <2> QED BY <2>2 DEF Thins, Fades
<1>3. Types'
  BY <1>1, <1>2 DEF Types, TypeOK, Framed, ReqsMove, Larger, Rows, AccessRows
<1>4. \A p \in Pairs : IF Absent(p)' THEN refresh'[p] = NoRefresh
                       ELSE refresh'[p].grant \in 1..lastGrant' /\ refresh'[p].family \in 1..lastPair'
  <2> SUFFICES ASSUME NEW p \in Pairs
               PROVE  IF Absent(p)' THEN refresh'[p] = NoRefresh
                      ELSE refresh'[p].grant \in 1..lastGrant' /\ refresh'[p].family \in 1..lastPair'
    OBVIOUS
  <2>1. IF Absent(p) THEN refresh[p] = NoRefresh ELSE refresh[p].grant \in 1..lastGrant /\ refresh[p].family \in 1..lastPair
    BY <1>1 DEF Counted
  <2>2. lastGrant \in Nat /\ lastPair \in Nat
    BY <1>1 DEF TypeOK
  <2> QED BY <2>1, <2>2 DEF Thins, Larger, Absent, NoRefresh
<1>5. \A p \in Pairs : IF access'[p].state = "absent" THEN access'[p] = NoAccess
                       ELSE access'[p].grant \in 1..lastGrant' /\ access'[p].family \in 1..lastPair'
  BY <1>1 DEF Counted, Fades, Larger, TypeOK, NoAccess
<1>6. \A p \in Pairs : refresh'[p].replay <= lastPair'
  <2>1. lastPair \in Nat /\ lastPair' \in Nat /\ lastPair <= lastPair'
    BY <1>1 DEF TypeOK, Larger
  <2>2. \A p \in Pairs : refresh'[p].replay \in Nat
    BY DEF Rows
  <2> QED BY <2>1, <2>2 DEF Thins, NoRefresh
<1>7. Counted'
  BY <1>4, <1>5, <1>6 DEF Counted, Framed, Absent
<1>8. ASSUME NEW s \in Requests PROVE Stage(s)'
  <2>1. CASE s \in R
    BY <2>1 DEF ReqsMove
  <2>2. CASE s \notin R
    <3>1. reqs'[s] = reqs[s]
      BY <2>2 DEF ReqsMove
    <3> QED BY <3>1, StageKept DEF Thins
  <2> QED BY <2>1, <2>2
<1>9. Apart'
  <2>1. ASSUME NEW s \in Requests, Minting(s)'
        PROVE  \/ /\ Minting(s) /\ reqs'[s].pair = reqs[s].pair /\ reqs'[s].using = reqs[s].using
                  /\ Unminted(s)' => Unminted(s)
               \/ /\ s \in R /\ reqs'[s].pair > lastPair
                  /\ \A u \in Requests : Unminted(u) => reqs[u].pair # reqs'[s].using
    BY <2>1 DEF ReqsMove, Minting, Unminted
  <2>2. \A s \in Requests : Minting(s) => reqs[s].pair <= lastPair /\ reqs[s].using <= lastPair /\ reqs[s].using < reqs[s].pair
    BY <1>1 DEF Stage
  <2>3. \A s \in Requests : Unminted(s) => Minting(s)
    BY DEF Unminted, Minting
  <2>4. \A s \in Requests : Unminted(s)' => Minting(s)'
    BY DEF Unminted, Minting
  <2>5. \A s \in Requests : Minting(s)' => reqs'[s].using < reqs'[s].pair
    BY <1>8 DEF Stage
  <2>6. \A r, s \in R : r = s
    BY DEF ReqsMove
  <2>7. lastPair \in Nat /\ \A s \in Requests : reqs[s].pair \in Nat /\ reqs[s].using \in Nat
    BY <1>1 DEF Types, TypeOK, Reqs
  <2>8. \A s \in Requests : reqs'[s].pair \in Nat /\ reqs'[s].using \in Nat
    BY DEF ReqsMove, Reqs
  <2>9. ASSUME NEW r \in Requests, NEW s \in Requests, r # s, Minting(r)', Minting(s)'
        PROVE  reqs'[r].pair # reqs'[s].pair
    BY <1>1, <2>1, <2>2, <2>6, <2>7, <2>8, <2>9 DEF Apart
  <2>10. ASSUME NEW r \in Requests, NEW s \in Requests, Unminted(r)', Minting(s)'
         PROVE  reqs'[s].using # reqs'[r].pair
    <3>1. Minting(r)'
      BY <2>4, <2>10
    <3>2. CASE Minting(s) /\ reqs'[s].pair = reqs[s].pair /\ reqs'[s].using = reqs[s].using
      BY <1>1, <2>1, <2>2, <2>7, <2>8, <2>10, <3>1, <3>2 DEF Apart
    <3>3. CASE s \in R /\ reqs'[s].pair > lastPair /\ \A u \in Requests : Unminted(u) => reqs[u].pair # reqs'[s].using
      BY <2>1, <2>5, <2>6, <2>7, <2>8, <2>10, <3>1, <3>3
    <3> QED BY <2>1, <2>10, <3>2, <3>3
  <2> QED BY <2>9, <2>10 DEF Apart
<1> QED BY <1>3, <1>7, <1>8, <1>9 DEF TInv

-----------------------------------------------------------------------------
(* Shapes: every step *)

LEMMA TInit == Init => TInv
<1> SUFFICES ASSUME Init PROVE TInv
  OBVIOUS
<1>1. Types
  <2>1. NoRefresh \in Rows /\ NoAccess \in AccessRows /\ NoReq \in Reqs
    BY Empty
  <2>2. TypeOK
    BY <2>1, Numbers DEF Init, TypeOK, Rows, AccessRows
  <2> QED BY <2>1, <2>2, Numbers DEF Init, Types
<1>2. Counted
  BY DEF Init, Counted, Absent, NoRefresh, NoAccess
<1>3. (\A r \in Requests : Stage(r)) /\ Apart
  BY DEF Init, Stage, Apart, Idle, Minting, Unminted, NoReq
<1> QED BY <1>1, <1>2, <1>3 DEF TInv

LEMMA Unpacked ==
    ASSUME TInv
    PROVE  /\ Types /\ TypeOK /\ Counted /\ Apart
           /\ refresh \in [Pairs -> Rows] /\ access \in [Pairs -> AccessRows] /\ reqs \in [Requests -> Reqs]
           /\ grants \in [Grants -> Clients \cup {None}]
           /\ lastCode \in 0..MaxCodes /\ lastGrant \in 0..MaxGrants /\ lastPair \in 0..MaxPairs
           /\ born \in [Pairs -> 0..MaxCodes] /\ held \in [Clients -> 0..lastPair]
           /\ \A r \in Requests : Stage(r) /\ reqs[r] \in Reqs
BY DEF TInv, Types, TypeOK, Rows, AccessRows

\* Nothing but the clients and the rows that purge removes.
LEMMA TablesKept ==
    ASSUME TInv, clients' \in [Clients -> {"absent", "fresh", "old", "used"}],
           UNCHANGED <<grants, counters, born>>, codes' \in [Codes -> Clients \cup {None}],
           \A k \in Codes : codes'[k] \in {codes[k], None},
           held' \in [Clients -> 0..lastPair], careless' \subseteq Clients, crowded' \subseteq Pairs, ended' \subseteq 1..lastPair
    PROVE  Larger /\ GrantsStay /\ Framed
<1>1. Larger
  BY NumbersGrow DEF counters
<1>2. GrantsStay
  BY DEF GrantsStay
<1>3. Framed
  BY Unpacked DEF Framed, Types, TypeOK, Counted, counters
<1> QED BY <1>1, <1>2, <1>3

\* The usual case: no history but what is named moves.
LEMMA TablesSame ==
    ASSUME TInv, UNCHANGED <<clients, codes, grants, counters, born, held>>,
           careless' \subseteq Clients, crowded' \subseteq Pairs, ended' \subseteq 1..lastPair
    PROVE  Larger /\ GrantsStay /\ Framed
<1>1. /\ clients' \in [Clients -> {"absent", "fresh", "old", "used"}] /\ codes' \in [Codes -> Clients \cup {None}]
      /\ held' \in [Clients -> 0..lastPair]
  BY Unpacked DEF TypeOK
<1> QED BY <1>1, TablesKept

\* One request moves on.
LEMMA OneMoves ==
    ASSUME TInv, NEW r \in Requests, NEW q \in Reqs, reqs' = [reqs EXCEPT ![r] = q], Stage(r)',
           q.pc \in {"minting", "minted", "sealing"} =>
              \/ /\ Minting(r) /\ q.pair = reqs[r].pair /\ q.using = reqs[r].using
                 /\ q.pc # "sealing" => Unminted(r)
              \/ /\ q.pair > lastPair
                 /\ \A s \in Requests : Unminted(s) => reqs[s].pair # q.using
    PROVE  ReqsMove({r})
<1>1. reqs' \in [Requests -> Reqs] /\ reqs'[r] = q /\ \A s \in Requests \ {r} : reqs'[s] = reqs[s]
  BY Unpacked
<1>2. Minting(r)' <=> q.pc \in {"minting", "minted", "sealing"}
  BY <1>1 DEF Minting
<1>3. Unminted(r)' <=> q.pc \in {"minting", "minted"}
  BY <1>1 DEF Unminted
<1> QED BY <1>1, <1>2, <1>3 DEF ReqsMove

LEMMA NobodyMoves == ASSUME TInv, reqs' = reqs PROVE ReqsMove({})
BY Unpacked DEF ReqsMove

LEMMA RowsSame ==
    ASSUME TInv
    PROVE  /\ refresh' = refresh => refresh' \in [Pairs -> Rows] /\ Thins({})
           /\ access' = access => access' \in [Pairs -> AccessRows] /\ Fades({})
BY Unpacked DEF Thins, Fades, Counted, Absent

\* A request ends, or goes from one stage to the next without minting.
LEMMA RequestEnds ==
    ASSUME TInv, Larger, NEW r \in Requests, reqs' = [reqs EXCEPT ![r] = NoReq]
    PROVE  ReqsMove({r})
<1>1. reqs'[r] = NoReq /\ NoReq \in Reqs
  BY Unpacked, Empty
<1>2. Stage(r)'
  BY <1>1 DEF Larger, Stage, Idle, Minting, Unminted, NoReq
<1> QED BY <1>1, <1>2, OneMoves DEF NoReq

LEMMA PurgedClients == ASSUME TInv PROVE purgeClients(clients) \in [Clients -> {"absent", "fresh", "old", "used"}]
BY Unpacked DEF purgeClients, TypeOK

\* A step that at most purges, and moves at most one request, keeps the shapes.
LEMMA SteadyOne ==
    ASSUME TInv, Larger, GrantsStay, Framed, NEW r \in Requests, ReqsMove({r}),
           purge \/ UNCHANGED tokens
    PROVE  TInv'
<1>1. refresh' \in [Pairs -> Rows] /\ Thins({}) /\ access' \in [Pairs -> AccessRows] /\ Fades({})
  BY Unpacked, PurgeThins, RowsSame DEF tokens
<1> QED BY <1>1, Steady

LEMMA SteadyNone ==
    ASSUME TInv, Larger, GrantsStay, Framed, reqs' = reqs, purge \/ UNCHANGED tokens
    PROVE  TInv'
<1>1. refresh' \in [Pairs -> Rows] /\ Thins({}) /\ access' \in [Pairs -> AccessRows] /\ Fades({})
  BY Unpacked, PurgeThins, RowsSame DEF tokens
<1> QED BY <1>1, Steady, NobodyMoves

LEMMA TRegister == ASSUME TInv, NEW c \in Clients, handleRegister(c) PROVE TInv'
<1>1. /\ purge /\ codes' = codes /\ UNCHANGED <<grants, reqs, held, lastCode, lastGrant, lastPair, born, careless, crowded, ended>>
      /\ clients' = [purgeClients(clients) EXCEPT ![c] = "fresh"]
  BY DEF handleRegister, clientRegister, purge, counters, history
<1>2. clients' \in [Clients -> {"absent", "fresh", "old", "used"}]
  BY <1>1, PurgedClients
<1>3. Larger /\ GrantsStay /\ Framed
  BY <1>1, <1>2, TablesKept, Unpacked DEF counters, Types, TypeOK
<1> QED BY <1>1, <1>3, SteadyNone

LEMMA TList == ASSUME TInv, grantList PROVE TInv'
<1>1. /\ purge /\ codes' = codes /\ UNCHANGED <<grants, reqs, held, lastCode, lastGrant, lastPair, born, careless, crowded, ended>>
      /\ clients' \in [Clients -> {"absent", "fresh", "old", "used"}]
  BY PurgedClients DEF grantList, purge, counters, history
<1>2. Larger /\ GrantsStay /\ Framed
  BY <1>1, TablesKept, Unpacked DEF counters, Types, TypeOK
<1> QED BY <1>1, <1>2, SteadyNone

LEMMA TAuthorize == ASSUME TInv, NEW c \in Clients, handleAuthorize(c) PROVE TInv'
<1>1. /\ lastCode < MaxCodes /\ lastCode' = lastCode + 1 /\ codes' = [codes EXCEPT ![lastCode + 1] = c]
      /\ UNCHANGED <<clients, grants, lastGrant, lastPair, reqs, held, access, refresh, born, careless, crowded, ended>>
  BY DEF handleAuthorize, codeIssue, tokens, history
<1>2. Larger /\ GrantsStay
  BY <1>1, Unpacked DEF Larger, GrantsStay
<1>3. Framed
  <2>1. lastCode + 1 \in Codes /\ lastCode' \in Nat
    BY <1>1, Unpacked DEF Codes
  <2>2. codes' \in [Codes -> Clients \cup {None}] /\ \A k \in Codes : k # lastCode + 1 => codes'[k] = codes[k]
    BY <1>1, Unpacked DEF TypeOK
  <2>3. \A k \in Codes : codes'[k] # None => k <= lastCode'
    BY <1>1, <2>1, <2>2, Unpacked DEF Counted, Codes
  <2>4. \A p \in Pairs : born'[p] <= lastCode' /\ (p > lastPair' => born'[p] = 0)
    BY <1>1, Unpacked DEF Counted, TypeOK
  <2> QED BY <1>1, <2>2, <2>3, <2>4, Unpacked DEF Framed, Types, TypeOK, Counted
<1> QED BY <1>1, <1>2, <1>3, SteadyNone DEF tokens

LEMMA TExchangeBegin ==
    ASSUME TInv, NEW r \in Requests, NEW c \in Clients, NEW k \in Codes, ExchangeBegin(r, c, k) PROVE TInv'
<1> DEFINE q == [NoReq EXCEPT !.pc = "consuming", !.client = c, !.code = k]
<1>1. /\ k <= lastCode /\ reqs' = [reqs EXCEPT ![r] = q]
      /\ UNCHANGED <<clients, codes, grants, held, access, refresh, lastCode, lastGrant, lastPair, born, careless, crowded, ended>>
  BY DEF ExchangeBegin, tokens, counters, history
<1>2. k \in 0..MaxCodes /\ "consuming" \in Stages
  BY DEF Codes, Stages
<1>3. q \in Reqs /\ reqs'[r] = q
  BY <1>1, <1>2, ReqEdits, Empty, Numbers, Unpacked
<1>4. q.pc = "consuming" /\ q.client = c /\ q.code = k /\ q.using = 0
  BY Empty DEF NoReq, Reqs
<1> HIDE DEF q
<1>5. Larger /\ GrantsStay /\ Framed
  BY <1>1, TablesSame, Unpacked DEF counters, Types
<1>6. Stage(r)'
  BY <1>1, <1>3, <1>4, Unpacked DEF Stage, Idle, Minting, Unminted, Codes
<1>7. ReqsMove({r})
  BY <1>1, <1>3, <1>4, <1>6, OneMoves
<1> QED BY <1>1, <1>5, <1>7, SteadyOne DEF tokens

LEMMA TExchangeConsume == ASSUME TInv, NEW r \in Requests, ExchangeConsume(r) PROVE TInv'
<1> DEFINE q == [reqs[r] EXCEPT !.pc = "ensuring"]
<1>1. /\ reqs[r].pc = "consuming" /\ codes' = [codes EXCEPT ![reqs[r].code] = None]
      /\ reqs' = [reqs EXCEPT ![r] = NoReq] \/ reqs' = [reqs EXCEPT ![r] = q]
      /\ UNCHANGED <<clients, grants, held, access, refresh, lastCode, lastGrant, lastPair, born, careless, crowded, ended>>
  BY DEF ExchangeConsume, codeConsume, tokens, counters, history
<1>2. reqs[r] \in Reqs /\ "ensuring" \in Stages /\ Stage(r)
  BY Unpacked DEF Stages
<1>3. /\ q \in Reqs /\ q.pc = "ensuring"
      /\ q.client = reqs[r].client /\ q.code = reqs[r].code /\ q.using = reqs[r].using
  <2>1. q \in Reqs
    <3>1. \A e \in Reqs : [e EXCEPT !.pc = "ensuring"] \in Reqs
      BY <1>2, ZenonT(60) DEF Reqs
    <3> QED BY <1>2, <3>1
  <2> QED BY <1>2, <2>1 DEF Reqs
<1> HIDE DEF q
<1>4. codes' \in [Codes -> Clients \cup {None}] /\ \A k \in Codes : codes'[k] \in {codes[k], None}
  BY <1>1, Unpacked DEF TypeOK
<1>5. Larger /\ GrantsStay /\ Framed
  BY <1>1, <1>4, TablesKept, Unpacked DEF counters, Types, TypeOK
<1>6. CASE reqs' = [reqs EXCEPT ![r] = q]
  <2>1. reqs'[r] = q
    BY <1>6, Unpacked
  <2>2. Stage(r)'
    BY <1>1, <1>2, <1>3, <2>1 DEF Stage, Idle, Minting, Unminted
  <2>3. ReqsMove({r})
    BY <1>3, <1>6, <2>2, OneMoves
  <2> QED BY <1>1, <1>5, <2>3, SteadyOne DEF tokens
<1>7. CASE reqs' = [reqs EXCEPT ![r] = NoReq]
  BY <1>1, <1>5, <1>7, RequestEnds, SteadyOne DEF tokens
<1> QED BY <1>1, <1>6, <1>7

LEMMA TEnsure == ASSUME TInv, NEW r \in Requests, grantEnsure(r) PROVE TInv'
<1>1. /\ reqs[r].pc = "ensuring"
      /\ UNCHANGED <<clients, codes, lastCode, lastPair, held, access, refresh, born, careless, crowded, ended>>
  BY DEF grantEnsure, tokens, history
<1>2. reqs[r] \in Reqs /\ "issuing" \in Stages /\ Stage(r) /\ reqs[r].client \in Clients /\ reqs[r].using = 0 /\ reqs[r].code \in 1..lastCode
  BY <1>1, Unpacked DEF Stages, Stage, Idle
<1>3. PICK g \in Grants :
        /\ reqs' = [reqs EXCEPT ![r] = [@ EXCEPT !.pc = "issuing", !.grant = g]]
        /\ \/ grants[g] = reqs[r].client /\ UNCHANGED <<grants, lastGrant>>
           \/ g = lastGrant + 1 /\ lastGrant < MaxGrants /\ lastGrant' = lastGrant + 1 /\ grants' = [grants EXCEPT ![g] = reqs[r].client]
  <2>1. lastGrant < MaxGrants => lastGrant + 1 \in Grants
    BY Unpacked DEF Grants
  <2> QED BY <2>1 DEF grantEnsure
<1> DEFINE q == [reqs[r] EXCEPT !.pc = "issuing", !.grant = g]
<1>4. g \in 0..MaxGrants /\ g \in 1..lastGrant' /\ grants'[g] = reqs[r].client
  BY <1>2, <1>3, Unpacked DEF Counted, Grants
<1>5. /\ q \in Reqs /\ q.pc = "issuing" /\ q.grant = g
      /\ q.client = reqs[r].client /\ q.code = reqs[r].code /\ q.using = reqs[r].using
  <2>1. q \in Reqs
    <3>1. \A e \in Reqs : [e EXCEPT !.pc = "issuing", !.grant = g] \in Reqs
      BY <1>2, <1>4, ZenonT(60) DEF Reqs
    <3> QED BY <1>2, <3>1
  <2> QED BY <1>2, <2>1 DEF Reqs
<1>6. reqs' = [reqs EXCEPT ![r] = q]
  BY <1>3
<1> HIDE DEF q
<1>7. Larger /\ GrantsStay
  BY <1>1, <1>3, Unpacked DEF Larger, GrantsStay, Grants
<1>8. Framed
  <2>1. grants' \in [Grants -> Clients \cup {None}] /\ \A x \in Grants : x # g => grants'[x] = grants[x]
    BY <1>2, <1>3, Unpacked
  <2>2. \A x \in Grants : grants[x] # None => x <= lastGrant
    BY Unpacked DEF Counted
  <2>3. \A x \in Grants : grants'[x] # None => x <= lastGrant'
    BY <1>3, <1>4, <1>7, <2>1, <2>2, Unpacked DEF Larger, Grants
  <2> QED BY <1>1, <2>1, <2>3, Unpacked DEF Framed, Types, TypeOK, Counted
<1>9. reqs'[r] = q
  BY <1>6, Unpacked
<1>10. Stage(r)'
  BY <1>1, <1>2, <1>4, <1>5, <1>9 DEF Stage, Idle, Minting, Unminted
<1>11. ReqsMove({r})
  BY <1>5, <1>6, <1>10, OneMoves
<1> QED BY <1>1, <1>7, <1>8, <1>11, SteadyOne DEF tokens

-----------------------------------------------------------------------------
(* Shapes: tokens are issued, refreshed and revoked *)

\* What a request that moved looks like, and the others.
LEMMA MovedTo ==
    ASSUME TInv, NEW r \in Requests, NEW q \in Reqs, reqs' = [reqs EXCEPT ![r] = q]
    PROVE  reqs'[r] = q /\ (\A s \in Requests \ {r} : reqs'[s] = reqs[s]) /\ reqs' \in [Requests -> Reqs]
BY Unpacked

IssueEffect(r) ==
    /\ reqs[r].pc = "issuing" /\ purge /\ lastPair' = lastPair + 1 /\ lastPair' \in Pairs
    /\ clients' \in [Clients -> {"absent", "fresh", "old", "used"}]
    /\ born' = [born EXCEPT ![lastPair + 1] = reqs[r].code]
    /\ UNCHANGED <<codes, access, grants, lastCode, lastGrant, held, careless, crowded, ended>>
    /\ reqs' \in [Requests -> Reqs] /\ \A s \in Requests \ {r} : reqs'[s] = reqs[s]
    /\ reqs'[r].pc = "minting" /\ reqs'[r].pair = lastPair + 1 /\ reqs'[r].family = lastPair + 1
    /\ reqs'[r].client = reqs[r].client /\ reqs'[r].using = reqs[r].using
    /\ reqs'[r].grant = reqs[r].grant /\ reqs'[r].code = reqs[r].code

LEMMA IssueDoes == ASSUME TInv, NEW r \in Requests, tokensIssue(r) PROVE IssueEffect(r)
<1>1. /\ reqs[r].pc = "issuing" /\ purge /\ lastPair' = lastPair + 1 /\ lastPair + 1 <= MaxPairs
      /\ clients' = Touch(purgeClients(clients), reqs[r].client)
      /\ reqs' = [reqs EXCEPT ![r] = [@ EXCEPT !.pc = "minting", !.pair = lastPair + 1, !.family = lastPair + 1]]
      /\ born' = [born EXCEPT ![lastPair + 1] = reqs[r].code]
      /\ UNCHANGED <<codes, access, grants, lastCode, lastGrant, held, careless, crowded, ended>>
  BY DEF tokensIssue, purge
<1>2. reqs[r] \in Reqs /\ "minting" \in Stages /\ lastPair + 1 \in 0..MaxPairs /\ lastPair' \in Pairs
  BY <1>1, Unpacked DEF Stages, Pairs
<1>3. clients' \in [Clients -> {"absent", "fresh", "old", "used"}]
  BY <1>1, PurgedClients DEF Touch
<1> DEFINE q == [reqs[r] EXCEPT !.pc = "minting", !.pair = lastPair + 1, !.family = lastPair + 1]
<1>4. q \in Reqs
  <2>1. \A e \in Reqs, t \in 0..MaxPairs : [e EXCEPT !.pc = "minting", !.pair = t, !.family = t] \in Reqs
    BY <1>2, ZenonT(60) DEF Reqs
  <2> QED BY <1>2, <2>1
<1>5. /\ q.pc = "minting" /\ q.pair = lastPair + 1 /\ q.family = lastPair + 1
      /\ q.client = reqs[r].client /\ q.using = reqs[r].using /\ q.grant = reqs[r].grant /\ q.code = reqs[r].code
  BY <1>2 DEF Reqs
<1>6. reqs' = [reqs EXCEPT ![r] = q]
  BY <1>1
<1> HIDE DEF q
<1> QED BY <1>1, <1>2, <1>3, <1>4, <1>5, <1>6, MovedTo DEF IssueEffect

LEMMA TIssue == ASSUME TInv, NEW r \in Requests, tokensIssue(r) PROVE TInv'
<1>1. IssueEffect(r)
  BY IssueDoes
<1>2. Larger /\ GrantsStay
  BY <1>1, Unpacked DEF IssueEffect, Larger, GrantsStay, Pairs
<1>3. Framed
  <2>1. reqs[r].code \in 1..lastCode
    BY <1>1, Unpacked DEF IssueEffect, Stage
  <2>2. born' \in [Pairs -> 0..MaxCodes] /\ \A p \in Pairs : born'[p] <= lastCode' /\ (p > lastPair' => born'[p] = 0)
    <3>1. \A p \in Pairs : born'[p] = IF p = lastPair + 1 THEN reqs[r].code ELSE born[p]
      BY <1>1, Unpacked DEF IssueEffect
    <3>2. \A p \in Pairs : born[p] <= lastCode /\ (p > lastPair => born[p] = 0)
      BY Unpacked DEF Counted, TypeOK
    <3>3. born' \in [Pairs -> 0..MaxCodes]
      BY <2>1, <1>1, Unpacked DEF IssueEffect
    <3> QED BY <2>1, <3>1, <3>2, <3>3, <1>1, Unpacked DEF IssueEffect, Pairs
  <2>3. held' \in [Clients -> 0..lastPair'] /\ ended' \subseteq 1..lastPair'
    BY <1>1, Unpacked DEF IssueEffect, Types
  <2> QED BY <2>2, <2>3, <1>1, Unpacked DEF IssueEffect, Framed, Types, TypeOK, Counted
<1>4. refresh' \in [Pairs -> Rows] /\ Thins({})
  BY <1>1, Unpacked, PurgeThins DEF IssueEffect
<1>5. refresh'[lastPair + 1] = NoRefresh
  <2>1. PICK n \in Pairs : n = lastPair + 1
    BY <1>1 DEF IssueEffect
  <2>2. refresh[n] = NoRefresh
    BY <2>1, Unpacked DEF TypeOK
  <2>3. Absent(n)
    BY <2>2 DEF Absent, NoRefresh
  <2>4. refresh'[n] = NoRefresh
    BY <1>4, <2>1, <2>3 DEF Thins
  <2> QED BY <2>1, <2>4
<1>6. /\ reqs[r].client \in Clients /\ reqs[r].using = 0
      /\ reqs[r].grant \in 1..lastGrant /\ grants[reqs[r].grant] \in {reqs[r].client, None}
  BY <1>1, Unpacked DEF IssueEffect, Stage, Idle
<1>7. Stage(r)'
  BY <1>5, <1>6, <1>1, Unpacked DEF IssueEffect, Stage, Idle, Minting, Unminted, Absent, NoRefresh, Pairs
<1>8. ReqsMove({r})
  <2>1. \A s \in Requests : Unminted(s) => reqs[s].pair # 0
    BY Unpacked DEF Unminted, Minting, Stage
  <2> QED BY <1>6, <1>7, <2>1, <1>1, Unpacked DEF IssueEffect, ReqsMove
<1> QED BY <1>2, <1>3, <1>8, SteadyOne, <1>1 DEF IssueEffect

MintAccessEffect(r) ==
    /\ reqs[r].pc = "minting" /\ reqs[r].pair \in Pairs
    /\ access' \in [Pairs -> AccessRows]
    /\ access'[reqs[r].pair] = [state |-> "live", grant |-> reqs[r].grant, family |-> reqs[r].family]
    /\ \A p \in Pairs : p # reqs[r].pair => access'[p] = access[p]
    /\ UNCHANGED <<clients, codes, grants, refresh, held, lastCode, lastGrant, lastPair, born, careless, crowded, ended>>
    /\ reqs' \in [Requests -> Reqs] /\ \A s \in Requests \ {r} : reqs'[s] = reqs[s]
    /\ reqs'[r].pc = "minted" /\ reqs'[r].pair = reqs[r].pair /\ reqs'[r].family = reqs[r].family
    /\ reqs'[r].client = reqs[r].client /\ reqs'[r].using = reqs[r].using
    /\ reqs'[r].grant = reqs[r].grant /\ reqs'[r].code = reqs[r].code

LEMMA MintAccessDoes == ASSUME TInv, NEW r \in Requests, MintAccess(r) PROVE MintAccessEffect(r)
<1> DEFINE a == [state |-> "live", grant |-> reqs[r].grant, family |-> reqs[r].family]
           q == [reqs[r] EXCEPT !.pc = "minted"]
<1>1. /\ reqs[r].pc = "minting" /\ access' = [access EXCEPT ![reqs[r].pair] = a]
      /\ reqs' = [reqs EXCEPT ![r] = q]
      /\ UNCHANGED <<clients, codes, grants, refresh, held, lastCode, lastGrant, lastPair, born, careless, crowded, ended>>
  BY DEF MintAccess, counters, history
<1>2. reqs[r] \in Reqs /\ "minted" \in Stages /\ reqs[r].pair \in Pairs
  BY <1>1, Unpacked DEF Stages, Pairs, Stage, Minting
<1>3. a \in AccessRows
  BY <1>2, NewRow DEF Reqs
<1>4. q \in Reqs
  <2>1. \A e \in Reqs : [e EXCEPT !.pc = "minted"] \in Reqs
    BY <1>2, ZenonT(60) DEF Reqs
  <2> QED BY <1>2, <2>1
<1>5. /\ q.pc = "minted" /\ q.pair = reqs[r].pair /\ q.family = reqs[r].family
      /\ q.client = reqs[r].client /\ q.using = reqs[r].using /\ q.grant = reqs[r].grant /\ q.code = reqs[r].code
  BY <1>2 DEF Reqs
<1>6. access' \in [Pairs -> AccessRows] /\ access'[reqs[r].pair] = a /\ \A p \in Pairs : p # reqs[r].pair => access'[p] = access[p]
  <2> HIDE DEF a
  <2> QED BY <1>1, <1>2, <1>3, Unpacked
<1> HIDE DEF q
<1> QED BY <1>1, <1>2, <1>4, <1>5, <1>6, MovedTo DEF MintAccessEffect

\* A mint adds one row of its own.
LEMMA TMintAccess == ASSUME TInv, NEW r \in Requests, MintAccess(r) PROVE TInv'
<1>1. MintAccessEffect(r)
  BY MintAccessDoes
<1>2. /\ reqs[r].grant \in 1..lastGrant /\ reqs[r].family \in 1..lastPair /\ reqs[r].pair \in 1..lastPair /\ Absent(reqs[r].pair)
      /\ reqs[r].client \in Clients
  BY <1>1, Unpacked DEF MintAccessEffect, Stage, Minting, Unminted, Idle
<1>3. Types'
  <2>1. \A p \in Pairs : p > lastPair => access'[p] = NoAccess
    <3>1. \A p \in Pairs : p > lastPair => access[p] = NoAccess
      BY Unpacked DEF TypeOK
    <3>2. \A p \in Pairs : p > lastPair => p # reqs[r].pair
      BY <1>2, Unpacked DEF Pairs
    <3> QED BY <1>1, <3>1, <3>2 DEF MintAccessEffect
  <2> QED BY <2>1, <1>1, Unpacked DEF MintAccessEffect, Types, TypeOK, AccessRows
<1>4. Counted'
  <2>1. \A p \in Pairs : IF access'[p].state = "absent" THEN access'[p] = NoAccess
                         ELSE access'[p].grant \in 1..lastGrant /\ access'[p].family \in 1..lastPair
    BY <1>2, <1>1, Unpacked DEF MintAccessEffect, Counted
  <2> QED BY <2>1, <1>1, Unpacked DEF MintAccessEffect, Counted, Absent
<1>5. ASSUME NEW s \in Requests PROVE Stage(s)'
  <2>1. CASE s = r
    BY <2>1, <1>1, Unpacked DEF MintAccessEffect, Stage, Idle, Minting, Unminted, Absent
  <2>2. CASE s # r
    BY <2>2, <1>1, Unpacked DEF MintAccessEffect, Stage, Idle, Minting, Unminted, Absent
  <2> QED BY <2>1, <2>2
<1>6. Apart'
  <2>1. \A s \in Requests : /\ Minting(s)' => Minting(s)
                            /\ Unminted(s)' => Unminted(s)
                            /\ reqs'[s].pair = reqs[s].pair /\ reqs'[s].using = reqs[s].using
    BY <1>1 DEF MintAccessEffect, Minting, Unminted
  <2> QED BY <2>1, Unpacked DEF Apart
<1> QED BY <1>3, <1>4, <1>5, <1>6 DEF TInv

MintRefreshEffect(r) ==
    /\ reqs[r].pc = "minted" /\ reqs[r].pair \in Pairs
    /\ refresh' \in [Pairs -> Rows]
    /\ refresh'[reqs[r].pair] = [state |-> "live", grant |-> reqs[r].grant, family |-> reqs[r].family,
                                 expired |-> FALSE, replay |-> 0, grace |-> FALSE]
    /\ \A p \in Pairs : p # reqs[r].pair => refresh'[p] = refresh[p]
    /\ UNCHANGED <<clients, codes, grants, access, held, lastCode, lastGrant, lastPair, born, careless, crowded, ended>>
    /\ reqs' \in [Requests -> Reqs] /\ \A s \in Requests \ {r} : reqs'[s] = reqs[s]
    /\ reqs'[r].pc = IF reqs[r].using = 0 THEN "answered" ELSE "sealing"
    /\ reqs'[r].pair = reqs[r].pair /\ reqs'[r].family = reqs[r].family
    /\ reqs'[r].client = reqs[r].client /\ reqs'[r].using = reqs[r].using
    /\ reqs'[r].grant = reqs[r].grant /\ reqs'[r].code = reqs[r].code

LEMMA MintRefreshDoes == ASSUME TInv, NEW r \in Requests, MintRefresh(r) PROVE MintRefreshEffect(r)
<1> DEFINE a == [state |-> "live", grant |-> reqs[r].grant, family |-> reqs[r].family,
                 expired |-> FALSE, replay |-> 0, grace |-> FALSE]
           pc == IF reqs[r].using = 0 THEN "answered" ELSE "sealing"
           q == [reqs[r] EXCEPT !.pc = pc]
<1>1. /\ reqs[r].pc = "minted" /\ refresh' = [refresh EXCEPT ![reqs[r].pair] = a]
      /\ reqs' = [reqs EXCEPT ![r] = q]
      /\ UNCHANGED <<clients, codes, grants, access, held, lastCode, lastGrant, lastPair, born, careless, crowded, ended>>
  BY DEF MintRefresh, counters, history
<1>2. reqs[r] \in Reqs /\ pc \in Stages /\ reqs[r].pair \in Pairs
  BY <1>1, Unpacked DEF Stages, Pairs, Stage, Minting
<1>3. a \in Rows
  BY <1>2, NewRow DEF Reqs
<1>4. q \in Reqs
  <2> HIDE DEF pc
  <2>1. \A e \in Reqs, x \in Stages : [e EXCEPT !.pc = x] \in Reqs
    BY ZenonT(60) DEF Reqs
  <2> QED BY <1>2, <2>1
<1>5. /\ q.pc = pc /\ q.pair = reqs[r].pair /\ q.family = reqs[r].family
      /\ q.client = reqs[r].client /\ q.using = reqs[r].using /\ q.grant = reqs[r].grant /\ q.code = reqs[r].code
  BY <1>2 DEF Reqs
<1>6. refresh' \in [Pairs -> Rows] /\ refresh'[reqs[r].pair] = a /\ \A p \in Pairs : p # reqs[r].pair => refresh'[p] = refresh[p]
  <2> HIDE DEF a
  <2> QED BY <1>1, <1>2, <1>3, Unpacked
<1> HIDE DEF q
<1> QED BY <1>1, <1>2, <1>4, <1>5, <1>6, MovedTo DEF MintRefreshEffect

LEMMA TMintRefresh == ASSUME TInv, NEW r \in Requests, MintRefresh(r) PROVE TInv'
<1>1. MintRefreshEffect(r)
  BY MintRefreshDoes
<1>2. /\ reqs[r].grant \in 1..lastGrant /\ reqs[r].family \in 1..lastPair /\ reqs[r].pair \in 1..lastPair
      /\ Absent(reqs[r].pair) /\ Minting(r) /\ Unminted(r)
  BY <1>1, Unpacked DEF MintRefreshEffect, Stage, Minting, Unminted
<1>3. Types'
  <2>1. \A p \in Pairs : p > lastPair => refresh'[p] = NoRefresh
    <3>1. \A p \in Pairs : p > lastPair => refresh[p] = NoRefresh
      BY Unpacked DEF TypeOK
    <3>2. \A p \in Pairs : p > lastPair => p # reqs[r].pair
      BY <1>2, Unpacked DEF Pairs
    <3> QED BY <1>1, <3>1, <3>2 DEF MintRefreshEffect
  <2> QED BY <2>1, <1>1, Unpacked DEF MintRefreshEffect, Types, TypeOK, Rows
<1>4. Counted'
  <2>1. \A p \in Pairs : IF refresh'[p].state = "absent" THEN refresh'[p] = NoRefresh
                         ELSE refresh'[p].grant \in 1..lastGrant /\ refresh'[p].family \in 1..lastPair
    BY <1>2, <1>1, Unpacked DEF MintRefreshEffect, Counted, Absent
  <2>2. \A p \in Pairs : refresh'[p].replay <= lastPair
    BY <1>1, Unpacked DEF MintRefreshEffect, Counted
  <2> QED BY <2>1, <2>2, <1>1, Unpacked DEF MintRefreshEffect, Counted, Absent
<1>5. ASSUME NEW s \in Requests PROVE Stage(s)'
  <2>1. CASE s = r
    <3>1. Stage(r) /\ reqs[r].using < reqs[r].pair /\ reqs[r].using \in 0..MaxPairs /\ reqs[r].pair \in 0..MaxPairs
      BY <1>2, Unpacked DEF Stage, Reqs
    <3>2. reqs[r].using # 0 => reqs[r].using \in Pairs /\ reqs[r].using # reqs[r].pair
      BY <3>1 DEF Pairs
    <3>3. reqs[r].using # 0 => refresh'[reqs[r].using] = refresh[reqs[r].using]
      BY <1>1, <3>2 DEF MintRefreshEffect
    <3> QED BY <2>1, <3>1, <3>2, <3>3, <1>2, <1>1, Unpacked DEF MintRefreshEffect, Stage, Idle, Minting, Unminted, Absent
  <2>2. CASE s # r
    <3>1. Minting(s) => reqs[s].pair # reqs[r].pair /\ reqs[s].using # reqs[r].pair
      BY <1>2, <2>2, Unpacked DEF Apart
    <3>2. Larger /\ GrantsStay /\ reqs'[s] = reqs[s]
      BY <2>2, <1>1, NumbersGrow DEF MintRefreshEffect, counters, GrantsStay
    <3>3. \A p \in Pairs : p = reqs[r].pair \/ refresh'[p] = refresh[p]
      BY <1>1 DEF MintRefreshEffect
    <3>4. \A p \in Pairs : Absent(p) => refresh[p] = NoRefresh
      BY Unpacked DEF Counted
    <3> QED BY <3>1, <3>2, <3>3, <3>4, StageKept
  <2> QED BY <2>1, <2>2
<1>6. Apart'
  <2>1. \A s \in Requests : /\ Minting(s)' => Minting(s)
                            /\ Unminted(s)' => Unminted(s)
                            /\ reqs'[s].pair = reqs[s].pair /\ reqs'[s].using = reqs[s].using
    BY <1>1 DEF MintRefreshEffect, Minting, Unminted
  <2> QED BY <2>1, Unpacked DEF Apart
<1> QED BY <1>3, <1>4, <1>5, <1>6 DEF TInv

LEMMA RevokeFamily ==
    ASSUME TInv, NEW f \in 1..lastPair, familyRevoke(f)
    PROVE  /\ refresh' \in [Pairs -> Rows] /\ Thins({}) /\ access' \in [Pairs -> AccessRows] /\ Fades({})
           /\ ended' = ended \cup {f} /\ ended' \subseteq 1..lastPair
           /\ \A p \in Pairs : refresh'[p] = IF refresh[p].family = f THEN NoRefresh ELSE refresh[p]
           /\ \A p \in Pairs : access'[p] = IF access[p].family = f THEN NoAccess ELSE access[p]
<1>1. /\ refresh' = [p \in Pairs |-> IF refresh[p].family = f THEN NoRefresh ELSE refresh[p]]
      /\ access' = [p \in Pairs |-> IF access[p].family = f THEN NoAccess ELSE access[p]]
      /\ ended' = ended \cup {f} /\ ended' \subseteq 1..lastPair
  BY Unpacked DEF familyRevoke, Types
<1>2. refresh' \in [Pairs -> Rows] /\ access' \in [Pairs -> AccessRows]
  BY <1>1, Unpacked, Empty
<1>3. \A p \in Pairs : refresh[p].replay <= lastPair /\ (Absent(p) => refresh[p] = NoRefresh)
  BY Unpacked DEF Counted
<1>4. Thins({}) /\ Fades({})
  BY <1>1, <1>3 DEF Thins, Fades, Absent
<1> QED BY <1>1, <1>2, <1>4

LEMMA DeleteGrants ==
    ASSUME TInv, NEW S \in SUBSET Grants, Deleted(S)
    PROVE  /\ refresh' \in [Pairs -> Rows] /\ Thins({}) /\ access' \in [Pairs -> AccessRows] /\ Fades({})
           /\ grants' = [g \in Grants |-> IF g \in S THEN None ELSE grants[g]]
           /\ ended' \subseteq 1..lastPair
           /\ \A f \in ended' \ ended : \E p \in Pairs :
                 \/ access[p].state # "absent" /\ access[p].family = f /\ access[p].grant \in S
                 \/ ~Absent(p) /\ refresh[p].family = f /\ refresh[p].grant \in S
           /\ \A p \in Pairs : refresh'[p] = IF refresh[p].grant \in S THEN NoRefresh ELSE refresh[p]
           /\ \A p \in Pairs : access'[p] = IF access[p].grant \in S THEN NoAccess ELSE access[p]
<1>1. /\ refresh' = [p \in Pairs |-> IF refresh[p].grant \in S THEN NoRefresh ELSE refresh[p]]
      /\ access' = [p \in Pairs |-> IF access[p].grant \in S THEN NoAccess ELSE access[p]]
      /\ grants' = [g \in Grants |-> IF g \in S THEN None ELSE grants[g]]
      /\ ended' = ended \cup {access[p].family : p \in {p \in Pairs : access[p].grant \in S}}
                    \cup {refresh[p].family : p \in {p \in Pairs : refresh[p].grant \in S}}
  BY DEF Deleted
<1>2. refresh' \in [Pairs -> Rows] /\ access' \in [Pairs -> AccessRows]
  BY <1>1, Unpacked, Empty
<1>3. \A p \in Pairs : refresh[p].replay <= lastPair /\ (Absent(p) => refresh[p] = NoRefresh)
  BY Unpacked DEF Counted
<1>4. Thins({}) /\ Fades({})
  BY <1>1, <1>3 DEF Thins, Fades, Absent
<1>5. 0 \notin S
  BY DEF Grants
<1>6. \A p \in Pairs : refresh[p].grant \in S => ~Absent(p) /\ refresh[p].family \in 1..lastPair
  BY <1>5, Unpacked DEF Counted, NoRefresh
<1>7. \A p \in Pairs : access[p].grant \in S => access[p].state # "absent" /\ access[p].family \in 1..lastPair
  BY <1>5, Unpacked DEF Counted, NoAccess
<1>8. ended \subseteq 1..lastPair
  BY Unpacked DEF Types
<1>9. ended' \subseteq 1..lastPair
  BY <1>1, <1>6, <1>7, <1>8
<1>10. \A f \in ended' \ ended : \E p \in Pairs :
         \/ access[p].state # "absent" /\ access[p].family = f /\ access[p].grant \in S
         \/ ~Absent(p) /\ refresh[p].family = f /\ refresh[p].grant \in S
  BY <1>1, <1>6, <1>7
<1> QED BY <1>1, <1>2, <1>4, <1>9, <1>10

BeginEffect(r, c, t) ==
    /\ Idle(r) /\ t # 0 /\ t <= held[c] /\ purge
    /\ clients' \in [Clients -> {"absent", "fresh", "old", "used"}]
    /\ UNCHANGED <<codes, access, grants, held, lastCode, lastGrant, lastPair, born, crowded, ended>>
    /\ careless' = IF Behaves(c, t) THEN careless ELSE careless \cup {c}
    /\ reqs' \in [Requests -> Reqs] /\ \A s \in Requests \ {r} : reqs'[s] = reqs[s]
    /\ reqs'[r].pc = "reading" /\ reqs'[r].client = c /\ reqs'[r].using = t

LEMMA BeginDoes ==
    ASSUME TInv, NEW r \in Requests, NEW c \in Clients, NEW t \in Pairs, RefreshBegin(r, c, t) PROVE BeginEffect(r, c, t)
<1> DEFINE q == [NoReq EXCEPT !.pc = "reading", !.client = c, !.using = t]
<1>1. /\ Idle(r) /\ t \in 1..held[c] /\ purge /\ clients' = purgeClients(clients)
      /\ UNCHANGED <<codes, access, grants, held, lastCode, lastGrant, lastPair, born, crowded, ended>>
      /\ careless' = IF Behaves(c, t) THEN careless ELSE careless \cup {c}
      /\ reqs' = [reqs EXCEPT ![r] = q]
  BY DEF RefreshBegin, purge, counters
<1>2. t # 0 /\ t <= held[c]
  BY <1>1
<1>3. q \in Reqs
  <2>1. t \in 0..MaxPairs /\ "reading" \in Stages /\ c \in Clients \cup {None} /\ NoReq \in Reqs
    BY Empty DEF Pairs, Stages
  <2>2. \A e \in Reqs : [e EXCEPT !.pc = "reading", !.client = c, !.using = t] \in Reqs
    BY <2>1, ZenonT(60) DEF Reqs
  <2> QED BY <2>1, <2>2
<1>4. q.pc = "reading" /\ q.client = c /\ q.using = t
  BY Empty DEF Reqs
<1> HIDE DEF q
<1> QED BY <1>1, <1>2, <1>3, <1>4, PurgedClients, MovedTo DEF BeginEffect

LEMMA TBegin ==
    ASSUME TInv, NEW r \in Requests, NEW c \in Clients, NEW t \in Pairs, RefreshBegin(r, c, t) PROVE TInv'
<1>1. BeginEffect(r, c, t)
  BY BeginDoes
<1>2. Larger /\ GrantsStay /\ Framed
  <2>1. codes' \in [Codes -> Clients \cup {None}] /\ careless' \subseteq Clients /\ crowded' \subseteq Pairs /\ ended' \subseteq 1..lastPair
    BY <1>1, Unpacked DEF BeginEffect, Types, TypeOK
  <2> QED BY <1>1, <2>1, Unpacked, TablesKept DEF BeginEffect, counters
<1>3. t <= lastPair
  BY <1>1, Unpacked DEF BeginEffect, Pairs
<1>4. Stage(r)'
  BY <1>1, <1>3 DEF BeginEffect, Stage, Idle, Minting, Unminted
<1>5. ReqsMove({r})
  BY <1>1, <1>4 DEF BeginEffect, ReqsMove, Minting
<1> QED BY <1>1, <1>2, <1>5, SteadyOne DEF BeginEffect

LEMMA TEnds ==
    ASSUME TInv, NEW r \in Requests, reqs' = [reqs EXCEPT ![r] = NoReq],
           UNCHANGED <<clients, codes, grants, tokens, counters, born, careless, crowded, ended>>,
           held' \in [Clients -> 0..lastPair]
    PROVE  TInv'
<1>1. Larger /\ GrantsStay /\ Framed
  BY Unpacked, TablesKept DEF counters, Types, TypeOK
<1> QED BY <1>1, RequestEnds, SteadyOne

LEMMA TDeliver == ASSUME TInv, NEW r \in Requests, Deliver(r) PROVE TInv'
<1>1. reqs[r].pair \in 0..lastPair
  BY Unpacked DEF Deliver, Stage
<1>2. held' \in [Clients -> 0..lastPair]
  BY <1>1, Unpacked DEF Deliver
<1> QED BY <1>2, TEnds DEF Deliver, history, counters

LEMMA TUnknown == ASSUME TInv, NEW r \in Requests, RefreshUnknown(r) \/ Lose(r) PROVE TInv'
<1>1. held' \in [Clients -> 0..lastPair]
  BY Unpacked DEF RefreshUnknown, Lose
<1> QED BY <1>1, TEnds DEF RefreshUnknown, Lose, history, counters

ReplayEffect(r) ==
    /\ reqs[r].pc = "reading" /\ Found(reqs[r]) /\ Replayable(reqs[r]) /\ reqs[r].using \in Pairs
    /\ UNCHANGED <<clients, codes, access, refresh, grants, held, lastCode, lastGrant, lastPair, born, careless, crowded, ended>>
    /\ reqs' \in [Requests -> Reqs] /\ \A s \in Requests \ {r} : reqs'[s] = reqs[s]
    /\ reqs'[r].pc = "answered" /\ reqs'[r].pair = refresh[reqs[r].using].replay
    /\ reqs'[r].client = reqs[r].client /\ reqs'[r].using = reqs[r].using
    /\ reqs'[r].pair \in 1..lastPair

LEMMA ReplayDoes == ASSUME TInv, NEW r \in Requests, RefreshReplays(r) PROVE ReplayEffect(r)
<1> DEFINE n == refresh[reqs[r].using].replay
           q == [reqs[r] EXCEPT !.pc = "answered", !.pair = n]
<1>1. /\ reqs[r].pc = "reading" /\ Found(reqs[r]) /\ Replayable(reqs[r]) /\ reqs' = [reqs EXCEPT ![r] = q]
      /\ UNCHANGED <<clients, codes, access, refresh, grants, held, lastCode, lastGrant, lastPair, born, careless, crowded, ended>>
  BY DEF RefreshReplays, tokens, counters, history
<1>2. reqs[r].using \in Pairs /\ reqs[r] \in Reqs
  BY <1>1, Unpacked DEF Stage, Reqs, Pairs
<1>3. n \in 0..MaxPairs /\ n <= lastPair /\ n # 0
  BY <1>1, <1>2, Unpacked DEF Rows, Counted, Replayable
<1>4. n \in 1..lastPair
  BY <1>3, Unpacked
<1>5. q \in Reqs
  <2> HIDE DEF n
  <2>1. "answered" \in Stages
    BY DEF Stages
  <2>2. \A e \in Reqs : [e EXCEPT !.pc = "answered", !.pair = n] \in Reqs
    BY <1>3, <2>1, ZenonT(60) DEF Reqs
  <2> QED BY <1>2, <2>2
<1>6. q.pc = "answered" /\ q.pair = n /\ q.client = reqs[r].client /\ q.using = reqs[r].using
  BY <1>2 DEF Reqs
<1> HIDE DEF q
<1> QED BY <1>1, <1>2, <1>4, <1>5, <1>6, MovedTo DEF ReplayEffect

LEMMA TReplay == ASSUME TInv, NEW r \in Requests, RefreshReplays(r) PROVE TInv'
<1>1. ReplayEffect(r)
  BY ReplayDoes
<1>2. Larger /\ GrantsStay /\ Framed
  BY <1>1, Unpacked, TablesSame DEF ReplayEffect, counters, Types
<1>3. Stage(r)'
  <2>1. Stage(r)
    BY Unpacked
  <2> QED BY <1>1, <2>1 DEF ReplayEffect, Stage, Idle, Minting, Unminted
<1>4. ReqsMove({r})
  BY <1>1, <1>3 DEF ReplayEffect, ReqsMove, Minting
<1> QED BY <1>1, <1>2, <1>4, SteadyOne DEF ReplayEffect, tokens

RevokesEffect(r) ==
    /\ reqs[r].pc = "reading" /\ Found(reqs[r]) /\ reqs[r].using \in Pairs /\ ~Absent(reqs[r].using)
    /\ refresh[reqs[r].using].expired \/ (refresh[reqs[r].using].state = "replaced" /\ ~Replayable(reqs[r]))
    /\ refresh[reqs[r].using].family \in 1..lastPair
    /\ familyRevoke(refresh[reqs[r].using].family)
    /\ UNCHANGED <<clients, codes, grants, held, lastCode, lastGrant, lastPair, born, careless>>
    /\ reqs' = [reqs EXCEPT ![r] = NoReq]
    /\ crowded' = crowded \cup {reqs[s].family : s \in {s \in Requests : Minting(s)}}

LEMMA MintingFamilies == ASSUME TInv PROVE {reqs[s].family : s \in {s \in Requests : Minting(s)}} \subseteq Pairs
BY Unpacked DEF Stage, Pairs

LEMMA RevokesDoes == ASSUME TInv, NEW r \in Requests, RefreshRevokes(r) PROVE RevokesEffect(r)
<1>1. /\ reqs[r].pc = "reading" /\ Found(reqs[r])
      /\ refresh[reqs[r].using].expired \/ (refresh[reqs[r].using].state = "replaced" /\ ~Replayable(reqs[r]))
      /\ familyRevoke(refresh[reqs[r].using].family)
      /\ UNCHANGED <<clients, codes, grants, held, lastCode, lastGrant, lastPair, born, careless>>
      /\ reqs' = [reqs EXCEPT ![r] = NoReq]
      /\ crowded' = crowded \cup {reqs[s].family : s \in {s \in Requests : Minting(s)}}
  BY DEF RefreshRevokes, counters
<1>2. reqs[r].using \in Pairs
  BY <1>1, Unpacked DEF Stage, Reqs, Pairs
<1>3. ~Absent(reqs[r].using)
  BY <1>1 DEF Found, Absent
<1>4. refresh[reqs[r].using].family \in 1..lastPair
  BY <1>2, <1>3, Unpacked DEF Counted
<1> QED BY <1>1, <1>2, <1>3, <1>4 DEF RevokesEffect

LEMMA TRevokes == ASSUME TInv, NEW r \in Requests, RefreshRevokes(r) PROVE TInv'
<1>1. RevokesEffect(r)
  BY RevokesDoes
<1>2. PICK f \in 1..lastPair : f = refresh[reqs[r].using].family
  BY <1>1 DEF RevokesEffect
<1>3. familyRevoke(f)
  BY <1>1, <1>2 DEF RevokesEffect
<1>4. /\ refresh' \in [Pairs -> Rows] /\ Thins({}) /\ access' \in [Pairs -> AccessRows] /\ Fades({})
      /\ ended' \subseteq 1..lastPair
  BY <1>3, RevokeFamily
<1>5. crowded' \subseteq Pairs /\ careless' \subseteq Clients
  BY <1>1, MintingFamilies, Unpacked DEF RevokesEffect, Types
<1>6. Larger /\ GrantsStay /\ Framed
  BY <1>1, <1>4, <1>5, TablesSame DEF RevokesEffect, counters
<1>7. ReqsMove({r})
  BY <1>1, <1>6, RequestEnds DEF RevokesEffect
<1> QED BY <1>4, <1>6, <1>7, Steady

RotateEffect(r) ==
    /\ reqs[r].pc = "reading" /\ reqs[r].using \in Pairs /\ Live(reqs[r].using) /\ ~refresh[reqs[r].using].expired
    /\ grants[refresh[reqs[r].using].grant] = reqs[r].client
    /\ lastPair' = lastPair + 1 /\ lastPair' \in Pairs
    /\ access' = [p \in Pairs |-> IF access[p].family = refresh[reqs[r].using].family THEN NoAccess ELSE access[p]]
    /\ refresh' = [p \in Pairs |-> IF refresh[p].family = refresh[reqs[r].using].family
                                   THEN [refresh[p] EXCEPT !.replay = 0] ELSE refresh[p]]
    /\ UNCHANGED <<clients, codes, grants, held, lastCode, lastGrant, born, careless, ended>>
    /\ reqs' \in [Requests -> Reqs] /\ \A s \in Requests \ {r} : reqs'[s] = reqs[s]
    /\ reqs'[r].pc = "minting" /\ reqs'[r].pair = lastPair + 1
    /\ reqs'[r].family = refresh[reqs[r].using].family /\ reqs'[r].grant = refresh[reqs[r].using].grant
    /\ reqs'[r].client = reqs[r].client /\ reqs'[r].using = reqs[r].using
    /\ crowded' = IF \E s \in Requests : Minting(s) /\ reqs[s].family = refresh[reqs[r].using].family
                  THEN crowded \cup {refresh[reqs[r].using].family} ELSE crowded

LEMMA RotateDoes == ASSUME TInv, NEW r \in Requests, RefreshRotates(r) PROVE RotateEffect(r)
<1> DEFINE row == refresh[reqs[r].using]
           q == [reqs[r] EXCEPT !.pc = "minting", !.pair = lastPair + 1, !.grant = row.grant, !.family = row.family]
<1>1. /\ reqs[r].pc = "reading" /\ Found(reqs[r]) /\ lastPair + 1 <= MaxPairs /\ ~row.expired /\ row.state = "live"
      /\ access' = [p \in Pairs |-> IF access[p].family = row.family THEN NoAccess ELSE access[p]]
      /\ refresh' = [p \in Pairs |-> IF refresh[p].family = row.family THEN [refresh[p] EXCEPT !.replay = 0] ELSE refresh[p]]
      /\ lastPair' = lastPair + 1
      /\ reqs' = [reqs EXCEPT ![r] = q]
      /\ crowded' = IF \E s \in Requests : Minting(s) /\ reqs[s].family = row.family THEN crowded \cup {row.family} ELSE crowded
      /\ UNCHANGED <<clients, codes, grants, held, lastCode, lastGrant, born, careless, ended>>
  BY DEF RefreshRotates
<1>2. reqs[r].using \in Pairs /\ reqs[r] \in Reqs /\ lastPair + 1 \in 0..MaxPairs /\ lastPair' \in Pairs /\ "minting" \in Stages
  BY <1>1, Unpacked DEF Stage, Reqs, Pairs, Stages
<1>3. row.grant \in 0..MaxGrants /\ row.family \in 0..MaxPairs
  BY <1>2, Unpacked DEF Rows
<1>4. q \in Reqs
  <2>1. \A e \in Reqs, t \in 0..MaxPairs, f \in 0..MaxPairs, g \in 0..MaxGrants :
           [e EXCEPT !.pc = "minting", !.pair = t, !.grant = g, !.family = f] \in Reqs
    BY <1>2, ZenonT(60) DEF Reqs
  <2> HIDE DEF row
  <2> QED BY <1>2, <1>3, <2>1
<1>5. /\ q.pc = "minting" /\ q.pair = lastPair + 1 /\ q.grant = row.grant /\ q.family = row.family
      /\ q.client = reqs[r].client /\ q.using = reqs[r].using
  BY <1>2 DEF Reqs
<1>6. grants[row.grant] = reqs[r].client
  BY <1>1 DEF Found
<1> HIDE DEF q
<1> QED BY <1>1, <1>2, <1>4, <1>5, <1>6, MovedTo DEF RotateEffect, Live

\* The rows of the family stay, without the answers kept for a retry.
LEMMA RotateRows ==
    ASSUME TInv, NEW r \in Requests, RotateEffect(r)
    PROVE  /\ refresh' \in [Pairs -> Rows] /\ Thins({}) /\ access' \in [Pairs -> AccessRows] /\ Fades({})
           /\ \A p \in Pairs : /\ refresh'[p].state = refresh[p].state /\ refresh'[p].grant = refresh[p].grant
                               /\ refresh'[p].family = refresh[p].family /\ refresh'[p].expired = refresh[p].expired
                               /\ refresh'[p].grace = refresh[p].grace
                               /\ refresh[p].family # refresh[reqs[r].using].family => refresh'[p] = refresh[p]
<1>1. ASSUME NEW p \in Pairs
      PROVE  /\ refresh'[p] \in Rows
             /\ refresh'[p].state = refresh[p].state /\ refresh'[p].grant = refresh[p].grant
             /\ refresh'[p].family = refresh[p].family /\ refresh'[p].expired = refresh[p].expired
             /\ refresh'[p].grace = refresh[p].grace /\ refresh'[p].replay <= lastPair
             /\ Absent(p) => refresh'[p] = NoRefresh
             /\ refresh[p].family # refresh[reqs[r].using].family => refresh'[p] = refresh[p]
  <2>1. refresh[p] \in Rows /\ [refresh[p] EXCEPT !.replay = 0] \in Rows
    BY Unpacked, RowEdits, Numbers
  <2>2. refresh'[p] = IF refresh[p].family = refresh[reqs[r].using].family THEN [refresh[p] EXCEPT !.replay = 0] ELSE refresh[p]
    BY DEF RotateEffect
  <2>3. \A e \in Rows : /\ [e EXCEPT !.replay = 0].state = e.state /\ [e EXCEPT !.replay = 0].grant = e.grant
                        /\ [e EXCEPT !.replay = 0].family = e.family /\ [e EXCEPT !.replay = 0].expired = e.expired
                        /\ [e EXCEPT !.replay = 0].grace = e.grace /\ [e EXCEPT !.replay = 0].replay = 0
    BY DEF Rows
  <2>4. refresh[p].replay <= lastPair /\ 0 <= lastPair /\ (Absent(p) => refresh[p] = NoRefresh)
    BY Unpacked DEF Counted
  <2>5. [NoRefresh EXCEPT !.replay = 0] = NoRefresh
    BY DEF NoRefresh
  <2> QED BY <2>1, <2>2, <2>3, <2>4, <2>5
<1>2. refresh' \in [Pairs -> Rows]
  BY <1>1 DEF RotateEffect
<1>3. access' \in [Pairs -> AccessRows] /\ Fades({})
  BY Unpacked, Empty DEF RotateEffect, Fades
<1>4. Thins({})
  BY <1>1 DEF Thins
<1> QED BY <1>1, <1>2, <1>3, <1>4

LEMMA TRotate == ASSUME TInv, NEW r \in Requests, RefreshRotates(r) PROVE TInv'
<1>1. RotateEffect(r)
  BY RotateDoes
<1>2. Larger /\ GrantsStay
  BY <1>1, Unpacked DEF RotateEffect, Larger, GrantsStay, Pairs
<1>3. refresh[reqs[r].using].family \in 1..lastPair /\ refresh[reqs[r].using].grant \in 1..lastGrant
  BY <1>1, Unpacked DEF RotateEffect, Counted, Live, Absent
<1>4. Framed
  <2>1. \A p \in Pairs : born[p] <= lastCode /\ (p > lastPair => born[p] = 0)
    BY Unpacked DEF Counted, TypeOK
  <2>2. \A p \in Pairs : p > lastPair' => born'[p] = 0
    BY <1>1, <2>1, Unpacked DEF RotateEffect, Pairs
  <2>3. held' \in [Clients -> 0..lastPair'] /\ ended' \subseteq 1..lastPair' /\ crowded' \subseteq Pairs
    <3>1. lastPair \in Nat /\ lastPair' = lastPair + 1 /\ held' = held /\ ended' = ended
      BY <1>1, Unpacked DEF RotateEffect
    <3>2. crowded' \subseteq Pairs
      BY <1>1, <1>3, Unpacked DEF RotateEffect, Types, Pairs
    <3> QED BY <3>1, <3>2, Unpacked DEF Types
  <2>4. /\ clients' \in [Clients -> {"absent", "fresh", "old", "used"}]
        /\ codes' \in [Codes -> Clients \cup {None}] /\ \A k \in Codes : codes'[k] # None => k <= lastCode'
        /\ grants' \in [Grants -> Clients \cup {None}] /\ \A g \in Grants : grants'[g] # None => g <= lastGrant'
    BY <1>1, Unpacked DEF RotateEffect, TypeOK, Counted
  <2>5. /\ born' \in [Pairs -> 0..MaxCodes] /\ careless' \subseteq Clients
        /\ \A p \in Pairs : born'[p] <= lastCode'
    BY <1>1, <2>1, Unpacked DEF RotateEffect, Types
  <2> QED BY <2>2, <2>3, <2>4, <2>5 DEF Framed
<1>5. refresh' \in [Pairs -> Rows] /\ Thins({}) /\ access' \in [Pairs -> AccessRows] /\ Fades({})
  BY <1>1, RotateRows
<1>6. refresh'[lastPair + 1].state = "absent"
  <2>1. PICK n \in Pairs : n = lastPair + 1
    BY <1>1 DEF RotateEffect
  <2>2. refresh[n] = NoRefresh
    BY <2>1, Unpacked DEF TypeOK
  <2> QED BY <1>1, <2>1, <2>2, RotateRows DEF NoRefresh
<1>7. refresh'[reqs[r].using].grant = refresh[reqs[r].using].grant /\ refresh'[reqs[r].using].family = refresh[reqs[r].using].family
  <2>1. reqs[r].using \in Pairs
    BY <1>1 DEF RotateEffect
  <2> QED BY <1>1, <2>1, RotateRows
<1>8. reqs[r].client \in Clients /\ reqs[r].using <= lastPair
  BY <1>1, Unpacked DEF RotateEffect, Stage, Idle
<1>9. Stage(r)'
  <2>1. /\ reqs'[r].pc = "minting" /\ reqs'[r].pair = lastPair + 1 /\ reqs'[r].client = reqs[r].client
        /\ reqs'[r].family = refresh[reqs[r].using].family /\ reqs'[r].grant = refresh[reqs[r].using].grant
        /\ reqs'[r].using = reqs[r].using /\ lastPair' = lastPair + 1 /\ lastGrant' = lastGrant
        /\ grants'[refresh[reqs[r].using].grant] = reqs[r].client
    BY <1>1 DEF RotateEffect
  <2>2. lastPair \in Nat /\ lastGrant \in Nat /\ reqs[r].using \in Nat
    BY Unpacked DEF Reqs
  <2> QED BY <1>3, <1>6, <1>7, <1>8, <2>1, <2>2 DEF Stage, Idle, Minting, Unminted, Absent
<1>10. ReqsMove({r})
  <2>1. \A s \in Requests : Unminted(s) => reqs[s].pair # reqs[r].using
    <3>1. \A s \in Requests : Unminted(s) => Absent(reqs[s].pair)
      BY Unpacked DEF Stage
    <3> QED BY <1>1, <3>1 DEF RotateEffect, Live, Absent
  <2> QED BY <1>1, <1>9, <2>1, Unpacked DEF RotateEffect, ReqsMove
<1> QED BY <1>2, <1>4, <1>5, <1>10, Steady

SealEffect(r) ==
    /\ reqs[r].pc = "sealing" /\ reqs[r].using \in Pairs /\ reqs[r].pair \in 1..lastPair
    /\ refresh' \in [Pairs -> Rows]
    /\ \A p \in Pairs : p # reqs[r].using => refresh'[p] = refresh[p]
    /\ IF Absent(reqs[r].using) THEN refresh'[reqs[r].using] = refresh[reqs[r].using]
       ELSE /\ refresh'[reqs[r].using].state = "replaced" /\ refresh'[reqs[r].using].replay = reqs[r].pair
            /\ refresh'[reqs[r].using].grace /\ refresh'[reqs[r].using].grant = refresh[reqs[r].using].grant
            /\ refresh'[reqs[r].using].family = refresh[reqs[r].using].family
            /\ refresh'[reqs[r].using].expired = refresh[reqs[r].using].expired
    /\ clients' \in [Clients -> {"absent", "fresh", "old", "used"}]
    /\ UNCHANGED <<codes, grants, access, held, lastCode, lastGrant, lastPair, born, careless, crowded, ended>>
    /\ reqs' \in [Requests -> Reqs] /\ \A s \in Requests \ {r} : reqs'[s] = reqs[s]
    /\ reqs'[r].pc = "answered" /\ reqs'[r].pair = reqs[r].pair
    /\ reqs'[r].client = reqs[r].client /\ reqs'[r].using = reqs[r].using

LEMMA SealDoes == ASSUME TInv, NEW r \in Requests, RefreshSeal(r) PROVE SealEffect(r)
<1> DEFINE u == reqs[r].using
           new == IF refresh[u].state = "absent" THEN refresh[u]
                  ELSE [refresh[u] EXCEPT !.state = "replaced", !.replay = reqs[r].pair, !.grace = TRUE]
           q == [reqs[r] EXCEPT !.pc = "answered"]
<1>1. /\ reqs[r].pc = "sealing" /\ refresh' = [refresh EXCEPT ![u] = new]
      /\ clients' = Touch(clients, reqs[r].client)
      /\ reqs' = [reqs EXCEPT ![r] = q]
      /\ UNCHANGED <<codes, grants, access, held, lastCode, lastGrant, lastPair, born, careless, crowded, ended>>
  BY DEF RefreshSeal, counters, history
<1>2. u \in Pairs /\ reqs[r].pair \in 1..lastPair /\ reqs[r] \in Reqs /\ reqs[r].pair \in 0..MaxPairs
  BY <1>1, Unpacked DEF Stage, Minting, Reqs, Pairs
<1>3. refresh[u] \in Rows
  BY <1>2, Unpacked
<1>4. \A e \in Rows, n \in 0..MaxPairs :
        LET d == [e EXCEPT !.state = "replaced", !.replay = n, !.grace = TRUE]
        IN  /\ d \in Rows /\ d.state = "replaced" /\ d.replay = n /\ d.grace
            /\ d.grant = e.grant /\ d.family = e.family /\ d.expired = e.expired
  <2> SUFFICES ASSUME NEW e \in Rows, NEW n \in 0..MaxPairs
               PROVE  LET d == [e EXCEPT !.state = "replaced", !.replay = n, !.grace = TRUE]
                      IN  /\ d \in Rows /\ d.state = "replaced" /\ d.replay = n /\ d.grace
                          /\ d.grant = e.grant /\ d.family = e.family /\ d.expired = e.expired
    OBVIOUS
  <2>1. [e EXCEPT !.state = "replaced", !.replay = n, !.grace = TRUE] \in Rows
    BY RowEdits
  <2> QED BY <2>1 DEF Rows
<1>5. /\ new \in Rows
      /\ IF Absent(u) THEN new = refresh[u]
         ELSE /\ new.state = "replaced" /\ new.replay = reqs[r].pair /\ new.grace
              /\ new.grant = refresh[u].grant /\ new.family = refresh[u].family /\ new.expired = refresh[u].expired
  BY <1>2, <1>3, <1>4 DEF Absent
<1> HIDE DEF new
<1>6. refresh' \in [Pairs -> Rows] /\ refresh'[u] = new /\ \A p \in Pairs : p # u => refresh'[p] = refresh[p]
  BY <1>1, <1>2, <1>5, Unpacked
<1>7. q \in Reqs
  <2>1. "answered" \in Stages
    BY DEF Stages
  <2>2. \A e \in Reqs : [e EXCEPT !.pc = "answered"] \in Reqs
    BY <2>1, ZenonT(60) DEF Reqs
  <2> QED BY <1>2, <2>2
<1>8. q.pc = "answered" /\ q.pair = reqs[r].pair /\ q.client = reqs[r].client /\ q.using = u
  BY <1>2 DEF Reqs
<1>9. clients' \in [Clients -> {"absent", "fresh", "old", "used"}]
  BY <1>1, Unpacked DEF Touch, TypeOK
<1> HIDE DEF q
<1>10. reqs'[r] = q /\ (\A s \in Requests \ {r} : reqs'[s] = reqs[s]) /\ reqs' \in [Requests -> Reqs]
  BY <1>1, <1>7, MovedTo
<1> QED BY <1>1, <1>2, <1>5, <1>6, <1>8, <1>9, <1>10 DEF SealEffect

LEMMA SealThins == ASSUME TInv, NEW r \in Requests, SealEffect(r) PROVE Thins({})
<1>1. \A p \in Pairs : refresh[p].replay <= lastPair /\ (Absent(p) => refresh[p] = NoRefresh)
  BY Unpacked DEF Counted
<1>2. reqs[r].pair <= lastPair
  BY Unpacked DEF SealEffect
<1> QED BY <1>1, <1>2 DEF SealEffect, Thins, Absent

LEMMA TSeal == ASSUME TInv, NEW r \in Requests, RefreshSeal(r) PROVE TInv'
<1>1. SealEffect(r)
  BY SealDoes
<1>2. Larger /\ GrantsStay /\ Framed
  <2>1. codes' \in [Codes -> Clients \cup {None}] /\ careless' \subseteq Clients /\ crowded' \subseteq Pairs /\ ended' \subseteq 1..lastPair
    BY <1>1, Unpacked DEF SealEffect, Types, TypeOK
  <2> QED BY <1>1, <2>1, Unpacked, TablesKept DEF SealEffect, counters
<1>3. Stage(r)'
  <2>1. Stage(r)
    BY Unpacked
  <2> QED BY <1>1, <2>1 DEF SealEffect, Stage, Idle, Minting, Unminted
<1>4. ReqsMove({r})
  BY <1>1, <1>3 DEF SealEffect, ReqsMove, Minting
<1>5. refresh' \in [Pairs -> Rows] /\ Thins({}) /\ access' \in [Pairs -> AccessRows] /\ Fades({})
  BY <1>1, SealThins, RowsSame DEF SealEffect
<1> QED BY <1>2, <1>4, <1>5, Steady

LEMMA TRevokeRefresh == ASSUME TInv, NEW c \in Clients, NEW t \in Pairs, RevokeRefresh(c, t) PROVE TInv'
<1>1. refresh[t].family \in 1..lastPair
  BY Unpacked DEF RevokeRefresh, Counted, Absent
<1>2. familyRevoke(refresh[t].family)
  BY DEF RevokeRefresh
<1>3. PICK f \in 1..lastPair : f = refresh[t].family
  BY <1>1
<1>4. /\ refresh' \in [Pairs -> Rows] /\ Thins({}) /\ access' \in [Pairs -> AccessRows] /\ Fades({})
      /\ ended' \subseteq 1..lastPair
  BY <1>2, <1>3, RevokeFamily
<1>5. crowded' \subseteq Pairs /\ careless' \subseteq Clients
  BY MintingFamilies, Unpacked DEF RevokeRefresh, Types
<1>6. Larger /\ GrantsStay /\ Framed
  BY <1>4, <1>5, TablesSame DEF RevokeRefresh, counters
<1>7. reqs' = reqs
  BY DEF RevokeRefresh
<1> QED BY <1>4, <1>6, <1>7, NobodyMoves, Steady

LEMMA TRevokeAccess == ASSUME TInv, NEW c \in Clients, NEW t \in Pairs, RevokeAccess(c, t) PROVE TInv'
<1>1. /\ access' = [access EXCEPT ![t] = NoAccess]
      /\ UNCHANGED <<clients, codes, grants, refresh, reqs, held, lastCode, lastGrant, lastPair, born, careless, crowded, ended>>
  BY DEF RevokeAccess, counters, history
<1>2. access' \in [Pairs -> AccessRows] /\ Fades({})
  BY <1>1, Unpacked, Empty DEF Fades
<1>3. Larger /\ GrantsStay /\ Framed
  BY <1>1, Unpacked, TablesSame DEF counters, Types
<1> QED BY <1>1, <1>2, <1>3, RowsSame, NobodyMoves, Steady

LEMMA TDeleted ==
    ASSUME TInv, NEW S \in SUBSET Grants, Deleted(S), careless' \subseteq Clients,
           UNCHANGED <<clients, codes, reqs, held, counters, born, crowded>>
    PROVE  TInv'
<1>1. /\ refresh' \in [Pairs -> Rows] /\ Thins({}) /\ access' \in [Pairs -> AccessRows] /\ Fades({})
      /\ grants' = [g \in Grants |-> IF g \in S THEN None ELSE grants[g]]
      /\ ended' \subseteq 1..lastPair
  BY DeleteGrants
<1>2. Larger
  BY NumbersGrow
<1>3. GrantsStay
  BY <1>1, Unpacked DEF GrantsStay, Grants
<1>4. grants' \in [Grants -> Clients \cup {None}] /\ \A g \in Grants : grants'[g] # None => g <= lastGrant
  BY <1>1, Unpacked DEF Counted
<1>5. Framed
  BY <1>1, <1>4, Unpacked DEF Framed, Types, TypeOK, Counted, counters
<1> QED BY <1>1, <1>2, <1>3, <1>5, NobodyMoves, Steady

LEMMA TRevokeGrants == ASSUME TInv, (\E g \in Grants : grantRevoke(g)) \/ grantRevokeAll PROVE TInv'
<1>1. CASE \E g \in Grants : grantRevoke(g)
  <2>1. PICK g \in Grants : grantRevoke(g)
    BY <1>1
  <2>2. Deleted({g}) /\ careless' \subseteq Clients /\ UNCHANGED <<clients, codes, reqs, held, counters, born, crowded>>
    BY <2>1, Unpacked DEF grantRevoke, Types
  <2> QED BY <2>2, TDeleted
<1>2. CASE grantRevokeAll
  <2>1. /\ Deleted({g \in Grants : grants[g] # None}) /\ careless' \subseteq Clients
        /\ UNCHANGED <<clients, codes, reqs, held, counters, born, crowded>>
    BY <1>2 DEF grantRevokeAll
  <2>2. PICK S \in SUBSET Grants : S = {g \in Grants : grants[g] # None}
    OBVIOUS
  <2>3. Deleted(S)
    BY <2>1, <2>2
  <2> QED BY <2>1, <2>3, TDeleted
<1> QED BY <1>1, <1>2

\* Time passes for one row of refresh.
AgeEffect(p) ==
    /\ refresh' \in [Pairs -> Rows] /\ \A x \in Pairs : x # p => refresh'[x] = refresh[x]
    /\ ~Absent(p) /\ refresh'[p].state = refresh[p].state /\ refresh'[p].grant = refresh[p].grant
    /\ refresh'[p].family = refresh[p].family /\ refresh'[p].replay = refresh[p].replay
    /\ UNCHANGED <<clients, codes, grants, access, reqs, held, lastCode, lastGrant, lastPair, born, crowded, ended>>
    /\ \/ refresh'[p].expired = refresh[p].expired /\ careless' = careless \cup Relying(p)
       \/ refresh'[p].grace = refresh[p].grace /\ careless' = careless \cup ({grants[refresh[p].grant]} \ {None})

ExpireRefresh(p) ==
    /\ refresh[p].state # "absent" /\ ~refresh[p].expired
    /\ refresh' = [refresh EXCEPT ![p].expired = TRUE]
    /\ careless' = careless \cup ({grants[refresh[p].grant]} \ {None})
    /\ UNCHANGED <<access, clients, codes, grants, reqs, held, counters, born, crowded, ended>>

ExpireAccess(p) ==
    /\ access' = [access EXCEPT ![p] = NoAccess]
    /\ UNCHANGED <<refresh, careless, clients, codes, grants, reqs, held, counters, born, crowded, ended>>

LEMMA Expiry == ASSUME NEW p \in Pairs, Expire(p) PROVE ExpireRefresh(p) \/ ExpireAccess(p)
BY DEF Expire, ExpireRefresh, ExpireAccess

LEMMA AgeDoes == ASSUME TInv, NEW p \in Pairs, GraceEnds(p) \/ ExpireRefresh(p) PROVE AgeEffect(p)
<1>1. refresh[p] \in Rows
  BY Unpacked
<1>2. CASE GraceEnds(p)
  <2>1. ~Absent(p)
    BY <1>2, Unpacked DEF GraceEnds, Counted, NoRefresh
  <2>2. refresh' = [refresh EXCEPT ![p] = [refresh[p] EXCEPT !.grace = FALSE]]
    BY <1>2 DEF GraceEnds
  <2>3. /\ [refresh[p] EXCEPT !.grace = FALSE] \in Rows
        /\ [refresh[p] EXCEPT !.grace = FALSE].state = refresh[p].state /\ [refresh[p] EXCEPT !.grace = FALSE].grant = refresh[p].grant
        /\ [refresh[p] EXCEPT !.grace = FALSE].family = refresh[p].family /\ [refresh[p] EXCEPT !.grace = FALSE].replay = refresh[p].replay
        /\ [refresh[p] EXCEPT !.grace = FALSE].expired = refresh[p].expired
    BY <1>1, RowEdits, Numbers DEF Rows
  <2> QED BY <1>2, <2>1, <2>2, <2>3, Unpacked DEF AgeEffect, GraceEnds, counters
<1>3. CASE ExpireRefresh(p)
  <2>1. ~Absent(p)
    BY <1>3 DEF ExpireRefresh, Absent
  <2>2. refresh' = [refresh EXCEPT ![p] = [refresh[p] EXCEPT !.expired = TRUE]]
    BY <1>3 DEF ExpireRefresh
  <2>3. /\ [refresh[p] EXCEPT !.expired = TRUE] \in Rows
        /\ [refresh[p] EXCEPT !.expired = TRUE].state = refresh[p].state /\ [refresh[p] EXCEPT !.expired = TRUE].grant = refresh[p].grant
        /\ [refresh[p] EXCEPT !.expired = TRUE].family = refresh[p].family /\ [refresh[p] EXCEPT !.expired = TRUE].replay = refresh[p].replay
        /\ [refresh[p] EXCEPT !.expired = TRUE].grace = refresh[p].grace
    BY <1>1, RowEdits, Numbers DEF Rows
  <2> QED BY <1>3, <2>1, <2>2, <2>3, Unpacked DEF AgeEffect, ExpireRefresh, counters
<1> QED BY <1>2, <1>3

LEMMA AgeThins == ASSUME TInv, NEW p \in Pairs, AgeEffect(p) PROVE Thins({})
<1>1. \A x \in Pairs : refresh[x].replay <= lastPair /\ (Absent(x) => refresh[x] = NoRefresh)
  BY Unpacked DEF Counted
<1> QED BY <1>1 DEF AgeEffect, Thins, Absent

LEMMA TAge == ASSUME TInv, NEW p \in Pairs, AgeEffect(p) PROVE TInv'
<1>1. careless' \subseteq Clients
  <2>1. refresh[p].grant \in Grants
    BY Unpacked DEF AgeEffect, Counted, Grants
  <2>2. grants[refresh[p].grant] \in Clients \cup {None} /\ careless \subseteq Clients
    BY <2>1, Unpacked DEF Types
  <2> QED BY <2>2 DEF AgeEffect, Relying
<1>2. Larger /\ GrantsStay /\ Framed
  BY <1>1, Unpacked, TablesSame DEF AgeEffect, Types, counters
<1> QED BY <1>2, AgeThins, RowsSame, NobodyMoves, Steady DEF AgeEffect

LEMMA TExpireAccess == ASSUME TInv, NEW p \in Pairs, ExpireAccess(p) PROVE TInv'
<1>1. /\ access' = [access EXCEPT ![p] = NoAccess]
      /\ UNCHANGED <<clients, codes, grants, refresh, reqs, held, lastCode, lastGrant, lastPair, born, careless, crowded, ended>>
  BY DEF ExpireAccess, counters
<1>2. access' \in [Pairs -> AccessRows] /\ Fades({})
  BY <1>1, Unpacked, Empty DEF Fades
<1>3. Larger /\ GrantsStay /\ Framed
  BY <1>1, Unpacked, TablesSame DEF counters, Types
<1> QED BY <1>1, <1>2, <1>3, RowsSame, NobodyMoves, Steady

LEMMA TCodeExpires == ASSUME TInv, NEW k \in Codes, CodeExpires(k) PROVE TInv'
<1>1. /\ codes' = [codes EXCEPT ![k] = None]
      /\ UNCHANGED <<clients, grants, access, refresh, reqs, held, lastCode, lastGrant, lastPair, born, careless, crowded, ended>>
  BY DEF CodeExpires, counters, history, tokens
<1>2. codes' \in [Codes -> Clients \cup {None}] /\ \A x \in Codes : codes'[x] \in {codes[x], None}
  BY <1>1, Unpacked DEF TypeOK
<1>3. Larger /\ GrantsStay /\ Framed
  BY <1>1, <1>2, Unpacked, TablesKept DEF counters, Types, TypeOK
<1> QED BY <1>1, <1>3, SteadyNone DEF tokens

LEMMA TClientAges == ASSUME TInv, NEW c \in Clients, ClientAges(c) PROVE TInv'
<1>1. /\ clients' = [clients EXCEPT ![c] = "old"]
      /\ UNCHANGED <<codes, grants, access, refresh, reqs, held, lastCode, lastGrant, lastPair, born, careless, crowded, ended>>
  BY DEF ClientAges, counters, history, tokens
<1>2. clients' \in [Clients -> {"absent", "fresh", "old", "used"}] /\ codes' \in [Codes -> Clients \cup {None}]
  BY <1>1, Unpacked DEF TypeOK
<1>3. Larger /\ GrantsStay /\ Framed
  BY <1>1, <1>2, Unpacked, TablesKept DEF counters, Types
<1> QED BY <1>1, <1>3, SteadyNone DEF tokens

LEMMA TStutter == ASSUME TInv, UNCHANGED vars PROVE TInv'
<1>1. Larger /\ GrantsStay /\ Framed
  BY Unpacked, TablesSame DEF vars, counters, Types
<1> QED BY <1>1, SteadyNone DEF vars, tokens

LEMMA TStep == ASSUME TInv, [Next]_vars PROVE TInv'
<1>1. ASSUME NEW c \in Clients, handleRegister(c) \/ handleAuthorize(c) \/ ClientAges(c) PROVE TInv'
  BY <1>1, TRegister, TAuthorize, TClientAges
<1>2. ASSUME NEW r \in Requests, NEW c \in Clients,
             (\E k \in Codes : ExchangeBegin(r, c, k)) \/ (\E t \in Pairs : RefreshBegin(r, c, t))
      PROVE  TInv'
  BY <1>2, TExchangeBegin, TBegin
<1>3. ASSUME NEW r \in Requests, handleToken(r) PROVE TInv'
  BY <1>3, TExchangeConsume, TEnsure, TIssue, TMintAccess, TMintRefresh, TUnknown, TReplay, TRevokes, TRotate, TSeal
     DEF handleToken
<1>4. ASSUME NEW r \in Requests, Deliver(r) \/ Lose(r) PROVE TInv'
  BY <1>4, TDeliver, TUnknown
<1>5. ASSUME NEW c \in Clients, NEW t \in Pairs, handleRevoke(c, t) PROVE TInv'
  BY <1>5, TRevokeRefresh, TRevokeAccess DEF handleRevoke
<1>6. ASSUME NEW p \in Pairs, GraceEnds(p) \/ Expire(p) PROVE TInv'
  BY <1>6, Expiry, AgeDoes, TAge, TExpireAccess
<1>7. ASSUME NEW k \in Codes, CodeExpires(k) PROVE TInv'
  BY <1>7, TCodeExpires
<1> QED BY <1>1, <1>2, <1>3, <1>4, <1>5, <1>6, <1>7, TRevokeGrants, TList, TStutter DEF Next, Time

-----------------------------------------------------------------------------
(* A code buys once *)

LEMMA CodesStay ==
    ASSUME CodeInv, born' = born, \A k \in Codes : codes'[k] \in {codes[k], None},
           \A s \in Requests : Holding(s)' => Holding(s) /\ reqs'[s].code = reqs[s].code /\ reqs[s].code \in Codes
    PROVE  CodeInv'
BY DEF CodeInv, CodeOnce, Bought

\* Steps of one request that takes no code.
LEMMA CodesMove ==
    ASSUME CodeInv, born' = born, codes' = codes, NEW r \in Requests, ~Holding(r)',
           \A s \in Requests \ {r} : reqs'[s] = reqs[s], TInv
    PROVE  CodeInv'
<1>1. \A s \in Requests : Holding(s)' => Holding(s) /\ reqs'[s].code = reqs[s].code
  BY DEF Holding
<1>2. \A s \in Requests : Holding(s) => reqs[s].code \in Codes
  BY Unpacked DEF Holding, Stage, Codes
<1> QED BY <1>1, <1>2, CodesStay

LEMMA CodesRest ==
    ASSUME CodeInv, born' = born, \A k \in Codes : codes'[k] \in {codes[k], None}, reqs' = reqs, TInv
    PROVE  CodeInv'
<1>1. \A s \in Requests : Holding(s)' => Holding(s) /\ reqs'[s].code = reqs[s].code
  BY DEF Holding
<1>2. \A s \in Requests : Holding(s) => reqs[s].code \in Codes
  BY Unpacked DEF Holding, Stage, Codes
<1> QED BY <1>1, <1>2, CodesStay

LEMMA CodeNew == ASSUME TInv, CodeInv, NEW c \in Clients, handleAuthorize(c) PROVE CodeInv'
<1>1. /\ codes' = [codes EXCEPT ![lastCode + 1] = c] /\ reqs' = reqs /\ born' = born
  BY DEF handleAuthorize, codeIssue, history
<1>2. lastCode + 1 \in Nat /\ \A p \in Pairs : born[p] \in Nat /\ born[p] # lastCode + 1
  BY Unpacked DEF Counted
<1>3. \A s \in Requests : Holding(s) => reqs[s].code \in Codes /\ reqs[s].code # lastCode + 1
  BY Unpacked DEF Holding, Stage, Codes
<1>4. \A k \in Codes : k # lastCode + 1 => codes'[k] = codes[k]
  BY <1>1, Unpacked DEF TypeOK
<1>5. \A s \in Requests : Holding(s)' <=> Holding(s)
  BY <1>1 DEF Holding
<1> QED BY <1>1, <1>2, <1>3, <1>4, <1>5 DEF CodeInv, CodeOnce, Bought

LEMMA CodeTaken == ASSUME TInv, CodeInv, NEW r \in Requests, ExchangeConsume(r) PROVE CodeInv'
<1>1. /\ reqs[r].pc = "consuming" /\ codes' = [codes EXCEPT ![reqs[r].code] = None] /\ born' = born
      /\ \/ reqs' = [reqs EXCEPT ![r] = NoReq]
         \/ codes[reqs[r].code] = reqs[r].client /\ reqs' = [reqs EXCEPT ![r] = [@ EXCEPT !.pc = "ensuring"]]
  BY DEF ExchangeConsume, codeConsume, history
<1>2. reqs[r].code \in Codes /\ reqs[r].client # None /\ reqs[r] \in Reqs
  BY <1>1, Unpacked DEF Stage, Idle, Codes
<1>3. codes'[reqs[r].code] = None /\ \A k \in Codes : codes'[k] \in {codes[k], None}
  BY <1>1, <1>2, Unpacked DEF TypeOK
<1>4. \A s \in Requests : Holding(s) => reqs[s].code \in Codes
  BY Unpacked DEF Holding, Stage, Codes
<1>5. CASE reqs' = [reqs EXCEPT ![r] = NoReq]
  <2>1. reqs'[r] = NoReq /\ \A s \in Requests \ {r} : reqs'[s] = reqs[s]
    BY <1>5, Unpacked
  <2>2. \A s \in Requests : Holding(s)' => Holding(s) /\ reqs'[s].code = reqs[s].code
    BY <2>1 DEF Holding, NoReq
  <2> QED BY <1>1, <1>3, <1>4, <2>2, CodesStay
<1>6. CASE codes[reqs[r].code] = reqs[r].client /\ reqs' = [reqs EXCEPT ![r] = [@ EXCEPT !.pc = "ensuring"]]
  <2>1. reqs'[r].code = reqs[r].code /\ \A s \in Requests \ {r} : reqs'[s] = reqs[s]
    BY <1>2, <1>6, Unpacked DEF Reqs
  <2>2. ~Bought(reqs[r].code) /\ \A s \in Requests : Holding(s) => reqs[s].code # reqs[r].code
    BY <1>2, <1>6 DEF CodeInv
  <2>3. \A s \in Requests \ {r} : Holding(s)' <=> Holding(s)
    BY <2>1 DEF Holding
  <2>4. \A k : Bought(k)' <=> Bought(k)
    BY <1>1 DEF Bought
  <2>5. \A s \in Requests : Holding(s)' => codes'[reqs'[s].code] = None /\ ~\E p \in Pairs : born'[p] = reqs'[s].code
    BY <1>1, <1>3, <1>4, <2>1, <2>2, <2>3 DEF CodeInv, Bought
  <2>6. \A s, u \in Requests : s # u /\ Holding(s)' /\ Holding(u)' => reqs'[s].code # reqs'[u].code
    BY <2>1, <2>2, <2>3 DEF CodeInv
  <2>7. (\A k \in Codes : codes'[k] # None => ~Bought(k)') /\ CodeOnce'
    BY <1>1, <1>3 DEF CodeInv, CodeOnce, Bought
  <2> QED BY <2>5, <2>6, <2>7 DEF CodeInv, Bought
<1> QED BY <1>1, <1>5, <1>6

LEMMA CodeEnsured == ASSUME TInv, CodeInv, NEW r \in Requests, grantEnsure(r) PROVE CodeInv'
<1>1. /\ reqs[r].pc = "ensuring" /\ codes' = codes /\ born' = born
      /\ \E g \in Int : reqs' = [reqs EXCEPT ![r] = [@ EXCEPT !.pc = "issuing", !.grant = g]]
  <2>1. lastGrant + 1 \in Int /\ Grants \subseteq Int
    BY Unpacked DEF Grants
  <2> QED BY <2>1 DEF grantEnsure, history
<1>2. reqs'[r].code = reqs[r].code /\ \A s \in Requests \ {r} : reqs'[s] = reqs[s]
  BY <1>1, Unpacked DEF Reqs
<1>3. \A s \in Requests : Holding(s)' => Holding(s) /\ reqs'[s].code = reqs[s].code
  BY <1>1, <1>2 DEF Holding
<1>4. \A s \in Requests : Holding(s) => reqs[s].code \in Codes
  BY Unpacked DEF Holding, Stage, Codes
<1> QED BY <1>1, <1>3, <1>4, CodesStay

LEMMA CodeBuys == ASSUME TInv, CodeInv, NEW r \in Requests, tokensIssue(r) PROVE CodeInv'
<1>1. IssueEffect(r)
  BY IssueDoes
<1>2. Holding(r) /\ codes' = codes /\ ~Holding(r)' /\ \A s \in Requests \ {r} : reqs'[s] = reqs[s]
  BY <1>1 DEF IssueEffect, Holding
<1>3. \A s \in Requests : Holding(s)' => Holding(s) /\ reqs'[s].code = reqs[s].code /\ reqs[s].code # reqs[r].code
  BY <1>2 DEF Holding, CodeInv
<1>4. codes[reqs[r].code] = None /\ ~Bought(reqs[r].code)
  BY <1>2 DEF CodeInv
<1>5. \A p \in Pairs : born'[p] = IF p = lastPair + 1 THEN reqs[r].code ELSE born[p]
  BY <1>1, Unpacked DEF IssueEffect
<1>6. CodeOnce'
  BY <1>4, <1>5 DEF CodeInv, CodeOnce, Bought
<1> QED BY <1>2, <1>3, <1>4, <1>5, <1>6 DEF CodeInv, Bought

LEMMA CodeStep == ASSUME TInv, CodeInv, [Next]_vars PROVE CodeInv'
<1>1. ASSUME NEW c \in Clients, handleRegister(c) \/ ClientAges(c) PROVE CodeInv'
  BY <1>1, CodesRest DEF handleRegister, clientRegister, purge, ClientAges, history
<1>2. ASSUME NEW r \in Requests, NEW c \in Clients, NEW k \in Codes, ExchangeBegin(r, c, k) PROVE CodeInv'
  <2>1. reqs'[r] = [NoReq EXCEPT !.pc = "consuming", !.client = c, !.code = k] /\ \A s \in Requests \ {r} : reqs'[s] = reqs[s]
    BY <1>2, Unpacked DEF ExchangeBegin
  <2>2. ~Holding(r)'
    BY <2>1 DEF Holding, NoReq
  <2> QED BY <1>2, <2>1, <2>2, CodesMove DEF ExchangeBegin, history
<1>3. ASSUME NEW r \in Requests, NEW c \in Clients, NEW t \in Pairs, RefreshBegin(r, c, t) PROVE CodeInv'
  <2>1. BeginEffect(r, c, t)
    BY <1>3, BeginDoes
  <2> QED BY <2>1, CodesMove DEF BeginEffect, Holding
<1>4. ASSUME NEW r \in Requests, MintAccess(r) \/ MintRefresh(r) PROVE CodeInv'
  <2>1. MintAccessEffect(r) \/ MintRefreshEffect(r)
    BY <1>4, MintAccessDoes, MintRefreshDoes
  <2> QED BY <2>1, CodesMove DEF MintAccessEffect, MintRefreshEffect, Holding
<1>5. ASSUME NEW r \in Requests, RefreshReplays(r) \/ RefreshRotates(r) \/ RefreshSeal(r) PROVE CodeInv'
  <2>1. ReplayEffect(r) \/ RotateEffect(r) \/ SealEffect(r)
    BY <1>5, ReplayDoes, RotateDoes, SealDoes
  <2> QED BY <2>1, CodesMove DEF ReplayEffect, RotateEffect, SealEffect, Holding
<1>6. ASSUME NEW r \in Requests, RefreshUnknown(r) \/ RefreshRevokes(r) \/ Deliver(r) \/ Lose(r) PROVE CodeInv'
  <2>1. reqs' = [reqs EXCEPT ![r] = NoReq] /\ codes' = codes /\ born' = born
    BY <1>6 DEF RefreshUnknown, RefreshRevokes, Deliver, Lose, history
  <2>2. reqs'[r] = NoReq /\ \A s \in Requests \ {r} : reqs'[s] = reqs[s]
    BY <2>1, Unpacked
  <2> QED BY <2>1, <2>2, CodesMove DEF Holding, NoReq
<1>7. ASSUME NEW c \in Clients, NEW t \in Pairs, handleRevoke(c, t) PROVE CodeInv'
  BY <1>7, CodesRest DEF handleRevoke, RevokeRefresh, RevokeAccess, history
<1>8. ASSUME (\E g \in Grants : grantRevoke(g)) \/ grantRevokeAll \/ grantList \/ UNCHANGED vars PROVE CodeInv'
  BY <1>8, CodesRest DEF grantRevoke, grantRevokeAll, grantList, purge, vars, history
<1>9. ASSUME NEW p \in Pairs, GraceEnds(p) \/ Expire(p) PROVE CodeInv'
  BY <1>9, CodesRest DEF GraceEnds, Expire
<1>10. ASSUME NEW k \in Codes, CodeExpires(k) PROVE CodeInv'
  <2>1. \A x \in Codes : codes'[x] \in {codes[x], None}
    BY <1>10, Unpacked DEF CodeExpires, TypeOK
  <2> QED BY <1>10, <2>1, CodesRest DEF CodeExpires, history
<1> QED BY <1>1, <1>2, <1>3, <1>4, <1>5, <1>6, <1>7, <1>8, <1>9, <1>10, CodeNew, CodeTaken, CodeEnsured, CodeBuys
        DEF Next, handleToken, Time

-----------------------------------------------------------------------------
(* A family belongs to one grant, and ends with it *)

LEMMA ClaimsStay ==
    ASSUME Counted, Thins({}), Fades({}),
           \A s \in Requests : Minting(s)' => Minting(s) /\ reqs'[s].family = reqs[s].family /\ reqs'[s].grant = reqs[s].grant
    PROVE  \A f, g : Claim(f, g)' => Claim(f, g)
<1>1. \A p \in Pairs : ~Absent(p)' => ~Absent(p) /\ refresh'[p].family = refresh[p].family /\ refresh'[p].grant = refresh[p].grant
  BY DEF Thins, Absent, NoRefresh
<1>2. \A p \in Pairs : access'[p].state # "absent" => access[p].state # "absent" /\ access'[p] = access[p]
  BY DEF Fades, NoAccess
<1> QED BY <1>1, <1>2 DEF Claim

\* Nothing new is claimed and no family ends.
LEMMA FamiliesStay ==
    ASSUME TInv, FamilyInv, \A f, g : Claim(f, g)' => Claim(f, g), ended' = ended, crowded \subseteq crowded',
           \A f, g : Claim(f, g) /\ g \in Grants /\ grants[g] = None => grants'[g] = None
    PROVE  FamilyInv'
BY DEF FamilyInv

LEMMA FamiliesMove ==
    ASSUME TInv, FamilyInv, Thins({}), Fades({}), ended' = ended, crowded \subseteq crowded', grants' = grants, NEW r \in Requests,
           \A s \in Requests \ {r} : reqs'[s] = reqs[s],
           Minting(r)' => Minting(r) /\ reqs'[r].family = reqs[r].family /\ reqs'[r].grant = reqs[r].grant
    PROVE  FamilyInv'
<1>1. \A s \in Requests : Minting(s)' => Minting(s) /\ reqs'[s].family = reqs[s].family /\ reqs'[s].grant = reqs[s].grant
  BY DEF Minting
<1>2. \A f, g : Claim(f, g)' => Claim(f, g)
  BY <1>1, ClaimsStay, Unpacked
<1> QED BY <1>2, FamiliesStay

LEMMA FamiliesRest ==
    ASSUME TInv, FamilyInv, Thins({}), Fades({}), ended' = ended, crowded \subseteq crowded', grants' = grants, reqs' = reqs
    PROVE  FamilyInv'
<1>1. \A s \in Requests : Minting(s)' => Minting(s) /\ reqs'[s].family = reqs[s].family /\ reqs'[s].grant = reqs[s].grant
  BY DEF Minting
<1>2. \A f, g : Claim(f, g)' => Claim(f, g)
  BY <1>1, ClaimsStay, Unpacked
<1> QED BY <1>2, FamiliesStay

LEMMA FamilyEnsured == ASSUME TInv, FamilyInv, NEW r \in Requests, grantEnsure(r) PROVE FamilyInv'
<1>1. /\ reqs[r].pc = "ensuring" /\ UNCHANGED <<access, refresh, ended, crowded>>
      /\ \E g \in Int : reqs' = [reqs EXCEPT ![r] = [@ EXCEPT !.pc = "issuing", !.grant = g]]
  <2>1. lastGrant + 1 \in Int /\ Grants \subseteq Int
    BY Unpacked DEF Grants
  <2> QED BY <2>1 DEF grantEnsure, history, tokens
<1>2. reqs'[r].pc = "issuing" /\ \A s \in Requests \ {r} : reqs'[s] = reqs[s]
  BY <1>1, Unpacked DEF Reqs
<1>3. \A s \in Requests : Minting(s)' => Minting(s) /\ reqs'[s].family = reqs[s].family /\ reqs'[s].grant = reqs[s].grant
  BY <1>2 DEF Minting
<1>4. \A f, g : Claim(f, g)' => Claim(f, g)
  BY <1>1, <1>3, ClaimsStay, RowsSame, Unpacked
<1>5. \A f, g : Claim(f, g) => g \in 1..lastGrant
  BY Unpacked DEF Claim, Counted, Stage, Absent
<1>6. \A g \in 1..lastGrant : grants[g] = None => grants'[g] = None
  <2>1. \/ grants' = grants
        \/ grants' = [grants EXCEPT ![lastGrant + 1] = reqs[r].client]
    BY DEF grantEnsure
  <2>2. \A g \in 1..lastGrant : g \in Grants /\ g # lastGrant + 1
    BY Unpacked DEF Grants
  <2> QED BY <2>1, <2>2, Unpacked
<1> QED BY <1>1, <1>4, <1>5, <1>6, FamiliesStay

LEMMA FamilyIssued == ASSUME TInv, FamilyInv, NEW r \in Requests, tokensIssue(r) PROVE FamilyInv'
<1>1. IssueEffect(r)
  BY IssueDoes
<1>2. \A f, g : Claim(f, g) => f <= lastPair /\ f \in Nat
  BY Unpacked DEF Claim, Counted, Stage, Absent
<1>3. \A p \in Pairs : ~Absent(p)' => ~Absent(p) /\ refresh'[p].family = refresh[p].family /\ refresh'[p].grant = refresh[p].grant
  BY <1>1, PurgeThins, Unpacked DEF IssueEffect, Thins, Absent, NoRefresh
<1>4. \A f, g : Claim(f, g)' => Claim(f, g) \/ (f = lastPair + 1 /\ g = reqs[r].grant)
  <2>1. access' = access
    BY <1>1 DEF IssueEffect
  <2>2. \A s \in Requests : Minting(s)' => \/ s = r /\ reqs'[s].family = lastPair + 1 /\ reqs'[s].grant = reqs[r].grant
                                           \/ Minting(s) /\ reqs'[s] = reqs[s]
    BY <1>1 DEF IssueEffect, Minting
  <2> QED BY <1>3, <2>1, <2>2 DEF Claim
<1>5. \A f \in Pairs, g, h \in Grants : Claim(f, g)' /\ Claim(f, h)' => g = h
  BY <1>2, <1>4, Unpacked DEF FamilyInv
<1>6. lastPair + 1 \notin ended
  BY Unpacked DEF Types
<1>7. \A f \in ended' \ crowded', g \in Grants : Claim(f, g)' => grants'[g] = None
  BY <1>1, <1>4, <1>6 DEF FamilyInv, IssueEffect
<1> QED BY <1>5, <1>7 DEF FamilyInv

LEMMA FamilyMinted == ASSUME TInv, FamilyInv, NEW r \in Requests, MintAccess(r) \/ MintRefresh(r) PROVE FamilyInv'
<1>1. \A f, g : Claim(f, g)' => Claim(f, g)
  <2>1. Minting(r)
    BY DEF MintAccess, MintRefresh, Minting
  <2>2. CASE MintAccess(r)
    <3>1. MintAccessEffect(r)
      BY <2>2, MintAccessDoes
    <3>2. \A s \in Requests : Minting(s)' => Minting(s) /\ reqs'[s].family = reqs[s].family /\ reqs'[s].grant = reqs[s].grant
      BY <3>1 DEF MintAccessEffect, Minting
    <3>3. refresh' = refresh
      BY <3>1 DEF MintAccessEffect
    <3>4. \A p \in Pairs : \/ access'[p] = access[p]
                           \/ access'[p].family = reqs[r].family /\ access'[p].grant = reqs[r].grant
      BY <3>1 DEF MintAccessEffect
    <3> QED BY <2>1, <3>2, <3>3, <3>4 DEF Claim, Absent
  <2>3. CASE MintRefresh(r)
    <3>1. MintRefreshEffect(r)
      BY <2>3, MintRefreshDoes
    <3>2. \A s \in Requests : Minting(s)' => Minting(s) /\ reqs'[s].family = reqs[s].family /\ reqs'[s].grant = reqs[s].grant
      BY <3>1 DEF MintRefreshEffect, Minting
    <3>3. access' = access
      BY <3>1 DEF MintRefreshEffect
    <3>4. \A p \in Pairs : \/ refresh'[p] = refresh[p]
                           \/ refresh'[p].family = reqs[r].family /\ refresh'[p].grant = reqs[r].grant
      BY <3>1 DEF MintRefreshEffect
    <3> QED BY <2>1, <3>2, <3>3, <3>4 DEF Claim, Absent
  <2> QED BY <2>2, <2>3
<1> QED BY <1>1, FamiliesStay DEF MintAccess, MintRefresh, history

LEMMA FamilyRotated == ASSUME TInv, FamilyInv, NEW r \in Requests, RefreshRotates(r) PROVE FamilyInv'
<1>1. RotateEffect(r)
  BY RotateDoes
<1>2. PICK u \in Pairs : u = reqs[r].using
  BY <1>1 DEF RotateEffect
<1>3. /\ ~Absent(u) /\ reqs'[r].family = refresh[u].family /\ reqs'[r].grant = refresh[u].grant
      /\ \A s \in Requests \ {r} : reqs'[s] = reqs[s]
      /\ crowded \subseteq crowded' /\ ended' = ended /\ grants' = grants
  BY <1>1, <1>2 DEF RotateEffect, Live, Absent
<1>4. \A p \in Pairs : ~Absent(p)' => ~Absent(p) /\ refresh'[p].family = refresh[p].family /\ refresh'[p].grant = refresh[p].grant
  BY <1>1, RotateRows DEF Absent
<1>5. \A p \in Pairs : access'[p].state # "absent" => access[p].state # "absent" /\ access'[p] = access[p]
  BY <1>1 DEF RotateEffect, NoAccess
<1>6. \A s \in Requests : Minting(s)' => s = r \/ (Minting(s) /\ reqs'[s] = reqs[s])
  BY <1>3 DEF Minting
<1>7. \A f, g : Claim(f, g)' => Claim(f, g)
  BY <1>3, <1>4, <1>5, <1>6 DEF Claim
<1> QED BY <1>3, <1>7, FamiliesStay

\* The family ends; what is being minted for it is crowded.
LEMMA FamilyRevoked ==
    ASSUME TInv, FamilyInv, NEW f \in 1..lastPair, familyRevoke(f), grants' = grants,
           crowded' = crowded \cup {reqs[s].family : s \in {s \in Requests : Minting(s)}},
           \A s \in Requests : Minting(s)' => Minting(s) /\ reqs'[s].family = reqs[s].family /\ reqs'[s].grant = reqs[s].grant
    PROVE  FamilyInv'
<1>1. /\ Thins({}) /\ Fades({}) /\ ended' = ended \cup {f}
      /\ \A p \in Pairs : refresh'[p] = IF refresh[p].family = f THEN NoRefresh ELSE refresh[p]
      /\ \A p \in Pairs : access'[p] = IF access[p].family = f THEN NoAccess ELSE access[p]
  BY RevokeFamily
<1>2. \A h, g : Claim(h, g)' => Claim(h, g)
  BY <1>1, ClaimsStay, Unpacked
<1>3. f \notin crowded' => \A g : ~Claim(f, g)'
  <2>1. \A p \in Pairs : ~Absent(p)' => refresh'[p].family # f
    BY <1>1 DEF Absent, NoRefresh
  <2>2. \A p \in Pairs : access'[p].state # "absent" => access'[p].family # f
    BY <1>1 DEF NoAccess
  <2>3. f \notin crowded' => \A s \in Requests : Minting(s)' => reqs'[s].family # f
    OBVIOUS
  <2> QED BY <2>1, <2>2, <2>3 DEF Claim
<1> QED BY <1>1, <1>2, <1>3 DEF FamilyInv

\* The families of deleted grants end; what is minted later for them has no grant.
LEMMA FamilyDeleted ==
    ASSUME TInv, FamilyInv, NEW S \in SUBSET Grants, Deleted(S), crowded' = crowded, reqs' = reqs
    PROVE  FamilyInv'
<1>1. /\ Thins({}) /\ Fades({})
      /\ grants' = [g \in Grants |-> IF g \in S THEN None ELSE grants[g]]
      /\ \A f \in ended' \ ended : \E p \in Pairs :
            \/ access[p].state # "absent" /\ access[p].family = f /\ access[p].grant \in S
            \/ ~Absent(p) /\ refresh[p].family = f /\ refresh[p].grant \in S
  BY DeleteGrants
<1>2. \A s \in Requests : Minting(s)' => Minting(s) /\ reqs'[s].family = reqs[s].family /\ reqs'[s].grant = reqs[s].grant
  BY DEF Minting
<1>3. \A f, g : Claim(f, g)' => Claim(f, g)
  BY <1>1, <1>2, ClaimsStay, Unpacked
<1>4. \A f \in ended' \ ended : f \in Pairs /\ \E g \in S : Claim(f, g)
  <2>1. \A p \in Pairs : (~Absent(p) => refresh[p].family \in Pairs) /\ (access[p].state # "absent" => access[p].family \in Pairs)
    BY Unpacked DEF Counted, Pairs
  <2> QED BY <1>1, <2>1 DEF Claim
<1>5. \A f \in ended' \ crowded', g \in Grants : Claim(f, g)' => grants'[g] = None
  <2> SUFFICES ASSUME NEW f \in ended' \ crowded', NEW g \in Grants, Claim(f, g)' PROVE grants'[g] = None
    OBVIOUS
  <2>1. Claim(f, g)
    BY <1>3
  <2>2. CASE f \in ended
    BY <1>1, <2>1, <2>2 DEF FamilyInv
  <2>3. CASE f \notin ended
    BY <1>1, <1>4, <2>1, <2>3 DEF FamilyInv
  <2> QED BY <2>2, <2>3
<1> QED BY <1>3, <1>5 DEF FamilyInv

LEMMA FamilyStep == ASSUME TInv, FamilyInv, [Next]_vars PROVE FamilyInv'
<1>1. ASSUME NEW c \in Clients, handleRegister(c) \/ handleAuthorize(c) \/ ClientAges(c) PROVE FamilyInv'
  <2>1. purge \/ UNCHANGED tokens
    BY <1>1 DEF handleRegister, clientRegister, handleAuthorize, ClientAges
  <2>2. Thins({}) /\ Fades({})
    BY <2>1, PurgeThins, RowsSame, Unpacked DEF tokens
  <2> QED BY <1>1, <2>2, FamiliesRest DEF handleRegister, handleAuthorize, ClientAges, history
<1>2. ASSUME NEW r \in Requests, NEW c \in Clients, NEW k \in Codes, ExchangeBegin(r, c, k) PROVE FamilyInv'
  <2>1. reqs'[r] = [NoReq EXCEPT !.pc = "consuming", !.client = c, !.code = k] /\ \A s \in Requests \ {r} : reqs'[s] = reqs[s]
    BY <1>2, Unpacked DEF ExchangeBegin
  <2>2. ~Minting(r)'
    BY <2>1 DEF Minting, NoReq
  <2> QED BY <1>2, <2>1, <2>2, FamiliesMove, RowsSame DEF ExchangeBegin, history, tokens
<1>3. ASSUME NEW r \in Requests, ExchangeConsume(r) PROVE FamilyInv'
  <2>1. /\ \/ reqs' = [reqs EXCEPT ![r] = NoReq]
           \/ reqs' = [reqs EXCEPT ![r].pc = "ensuring"]
        /\ UNCHANGED <<access, refresh, grants, ended, crowded>>
    BY <1>3 DEF ExchangeConsume, history, tokens
  <2>2. reqs'[r].pc \in {"idle", "ensuring"} /\ \A s \in Requests \ {r} : reqs'[s] = reqs[s]
    BY <2>1, Unpacked DEF Reqs, NoReq
  <2> QED BY <2>1, <2>2, FamiliesMove, RowsSame DEF Minting
<1>4. ASSUME NEW r \in Requests, NEW c \in Clients, NEW t \in Pairs, RefreshBegin(r, c, t) PROVE FamilyInv'
  <2>1. BeginEffect(r, c, t)
    BY <1>4, BeginDoes
  <2> QED BY <2>1, PurgeThins, Unpacked, FamiliesMove DEF BeginEffect, Minting
<1>5. ASSUME NEW r \in Requests, RefreshUnknown(r) \/ Deliver(r) \/ Lose(r) PROVE FamilyInv'
  <2>1. reqs' = [reqs EXCEPT ![r] = NoReq] /\ UNCHANGED <<access, refresh, grants, ended, crowded>>
    BY <1>5 DEF RefreshUnknown, Deliver, Lose, history, tokens
  <2>2. reqs'[r] = NoReq /\ \A s \in Requests \ {r} : reqs'[s] = reqs[s]
    BY <2>1, Unpacked
  <2> QED BY <2>1, <2>2, FamiliesMove, RowsSame DEF Minting, NoReq
<1>6. ASSUME NEW r \in Requests, RefreshReplays(r) PROVE FamilyInv'
  <2>1. ReplayEffect(r)
    BY <1>6, ReplayDoes
  <2> QED BY <2>1, FamiliesMove, RowsSame DEF ReplayEffect, Minting
<1>7. ASSUME NEW r \in Requests, RefreshSeal(r) PROVE FamilyInv'
  <2>1. SealEffect(r)
    BY <1>7, SealDoes
  <2> QED BY <2>1, SealThins, FamiliesMove, RowsSame DEF SealEffect, Minting
<1>8. ASSUME NEW r \in Requests, RefreshRevokes(r) PROVE FamilyInv'
  <2>1. RevokesEffect(r)
    BY <1>8, RevokesDoes
  <2>2. PICK f \in 1..lastPair : f = refresh[reqs[r].using].family
    BY <2>1 DEF RevokesEffect
  <2>3. reqs'[r] = NoReq /\ \A s \in Requests \ {r} : reqs'[s] = reqs[s]
    BY <2>1, Unpacked DEF RevokesEffect
  <2>4. \A s \in Requests : Minting(s)' => Minting(s) /\ reqs'[s].family = reqs[s].family /\ reqs'[s].grant = reqs[s].grant
    BY <2>3 DEF Minting, NoReq
  <2> QED BY <2>1, <2>2, <2>4, FamilyRevoked DEF RevokesEffect
<1>9. ASSUME NEW c \in Clients, NEW t \in Pairs, RevokeRefresh(c, t) PROVE FamilyInv'
  <2>1. refresh[t].family \in 1..lastPair
    BY <1>9, Unpacked DEF RevokeRefresh, Counted, Absent
  <2>2. PICK f \in 1..lastPair : f = refresh[t].family
    BY <2>1
  <2>3. \A s \in Requests : Minting(s)' => Minting(s) /\ reqs'[s].family = reqs[s].family /\ reqs'[s].grant = reqs[s].grant
    BY <1>9 DEF RevokeRefresh, Minting
  <2> QED BY <1>9, <2>2, <2>3, FamilyRevoked DEF RevokeRefresh
<1>10. ASSUME NEW c \in Clients, NEW t \in Pairs, RevokeAccess(c, t) PROVE FamilyInv'
  <2>1. access' = [access EXCEPT ![t] = NoAccess] /\ UNCHANGED <<refresh, grants, reqs, ended, crowded>>
    BY <1>10 DEF RevokeAccess, history
  <2>2. Fades({})
    BY <2>1, Unpacked DEF Fades
  <2> QED BY <2>1, <2>2, FamiliesRest, RowsSame
<1>11. ASSUME NEW t \in Pairs, ExpireAccess(t) PROVE FamilyInv'
  <2>1. access' = [access EXCEPT ![t] = NoAccess] /\ UNCHANGED <<refresh, grants, reqs, ended, crowded>>
    BY <1>11 DEF ExpireAccess
  <2>2. Fades({})
    BY <2>1, Unpacked DEF Fades
  <2> QED BY <2>1, <2>2, FamiliesRest, RowsSame
<1>12. ASSUME NEW p \in Pairs, GraceEnds(p) \/ ExpireRefresh(p) PROVE FamilyInv'
  <2>1. AgeEffect(p)
    BY <1>12, AgeDoes
  <2> QED BY <2>1, AgeThins, FamiliesRest, RowsSame DEF AgeEffect
<1>13. ASSUME NEW k \in Codes, CodeExpires(k) PROVE FamilyInv'
  BY <1>13, FamiliesRest, RowsSame DEF CodeExpires, history, tokens
<1>14. ASSUME grantList \/ UNCHANGED vars PROVE FamilyInv'
  <2>1. Thins({}) /\ Fades({})
    BY <1>14, PurgeThins, RowsSame, Unpacked DEF grantList, vars
  <2> QED BY <1>14, <2>1, FamiliesRest DEF grantList, vars, history
<1>15. ASSUME NEW g \in Grants, grantRevoke(g) PROVE FamilyInv'
  <2>1. Deleted({g}) /\ crowded' = crowded /\ reqs' = reqs
    BY <1>15 DEF grantRevoke
  <2> QED BY <2>1, FamilyDeleted
<1>16. ASSUME grantRevokeAll PROVE FamilyInv'
  <2>1. PICK S \in SUBSET Grants : S = {g \in Grants : grants[g] # None}
    OBVIOUS
  <2>2. Deleted(S) /\ crowded' = crowded /\ reqs' = reqs
    BY <1>16, <2>1 DEF grantRevokeAll
  <2> QED BY <2>2, FamilyDeleted
<1> QED BY <1>1, <1>2, <1>3, <1>4, <1>5, <1>6, <1>7, <1>8, <1>9, <1>10, <1>11, <1>12, <1>13, <1>14, <1>15, <1>16,
           FamilyEnsured, FamilyIssued, FamilyMinted, FamilyRotated, Expiry
        DEF Next, handleToken, handleRevoke, Time

-----------------------------------------------------------------------------
(* A family has one live refresh token *)

LEMMA LiveKept ==
    ASSUME LiveInv, Thins({}), crowded \subseteq crowded',
           \A s \in Requests : Minting(s)' = Minting(s),
           \A s \in Requests : Minting(s) => /\ reqs'[s].family = reqs[s].family /\ reqs'[s].using = reqs[s].using
                                             /\ reqs'[s].pair = reqs[s].pair
                                             /\ reqs[s].pc = "sealing" => reqs'[s].pc = "sealing"
    PROVE  LiveInv'
<1>1. \A p \in Pairs : Live(p)' => Live(p) /\ refresh'[p].family = refresh[p].family
  BY DEF Thins, Live, NoRefresh
<1>2. \A r, s \in Requests : r # s /\ Minting(r)' /\ Minting(s)' /\ reqs'[r].family = reqs'[s].family => reqs'[r].family \in crowded'
  BY DEF LiveInv
<1>3. \A r \in Requests, p \in Pairs :
         Minting(r)' /\ Live(p)' /\ refresh'[p].family = reqs'[r].family /\ reqs'[r].family \notin crowded' =>
            p = reqs'[r].using \/ (reqs'[r].pc = "sealing" /\ p = reqs'[r].pair)
  <2> SUFFICES ASSUME NEW r \in Requests, NEW p \in Pairs, Minting(r)', Live(p)', refresh'[p].family = reqs'[r].family,
                      reqs'[r].family \notin crowded'
               PROVE  p = reqs'[r].using \/ (reqs'[r].pc = "sealing" /\ p = reqs'[r].pair)
    OBVIOUS
  <2>1. Minting(r) /\ Live(p) /\ refresh[p].family = reqs[r].family /\ reqs[r].family \notin crowded
    BY <1>1
  <2>2. p = reqs[r].using \/ (reqs[r].pc = "sealing" /\ p = reqs[r].pair)
    BY <2>1 DEF LiveInv
  <2> QED BY <2>1, <2>2
<1>4. \A p, q \in Pairs : p # q /\ Live(p)' /\ Live(q)' /\ refresh'[p].family = refresh'[q].family =>
         refresh'[p].family \in crowded' \/ \E r \in Requests : Minting(r)' /\ reqs'[r].family = refresh'[p].family
  <2> SUFFICES ASSUME NEW p \in Pairs, NEW q \in Pairs, p # q, Live(p)', Live(q)', refresh'[p].family = refresh'[q].family,
                      refresh'[p].family \notin crowded'
               PROVE  \E r \in Requests : Minting(r)' /\ reqs'[r].family = refresh'[p].family
    OBVIOUS
  <2>1. \E r \in Requests : Minting(r) /\ reqs[r].family = refresh[p].family
    BY <1>1 DEF LiveInv
  <2> QED BY <1>1, <2>1
<1> QED BY <1>2, <1>3, <1>4 DEF LiveInv

\* Steps of a request that is not minting before or after.
LEMMA LiveMoves ==
    ASSUME LiveInv, Thins({}), crowded \subseteq crowded', NEW r \in Requests, ~Minting(r), ~Minting(r)',
           \A s \in Requests \ {r} : reqs'[s] = reqs[s]
    PROVE  LiveInv'
BY LiveKept DEF Minting

LEMMA LiveRest == ASSUME LiveInv, Thins({}), crowded \subseteq crowded', reqs' = reqs PROVE LiveInv'
BY LiveKept DEF Minting

\* A new family has no live token yet.
LEMMA LiveIssued == ASSUME TInv, LiveInv, NEW r \in Requests, tokensIssue(r) PROVE LiveInv'
<1>1. IssueEffect(r)
  BY IssueDoes
<1>2. Thins({})
  BY <1>1, PurgeThins, Unpacked DEF IssueEffect
<1>3. \A p \in Pairs : Live(p)' => Live(p) /\ refresh'[p].family = refresh[p].family /\ refresh[p].family # lastPair + 1
  <2>1. \A p \in Pairs : Live(p)' => Live(p) /\ refresh'[p].family = refresh[p].family
    BY <1>2 DEF Thins, Live, NoRefresh
  <2>2. \A p \in Pairs : Live(p) => refresh[p].family # lastPair + 1
    BY Unpacked DEF Counted, Live, Absent
  <2> QED BY <2>1, <2>2
<1>4. crowded' = crowded /\ \A s \in Requests \ {r} : reqs'[s] = reqs[s] /\ (Minting(s)' <=> Minting(s))
  BY <1>1 DEF IssueEffect, Minting
<1>5. ~Minting(r) /\ reqs'[r].family = lastPair + 1
  BY <1>1 DEF IssueEffect, Minting
<1>6. \A s \in Requests : Minting(s) => reqs[s].family # lastPair + 1
  BY Unpacked DEF Stage
<1>7. \A p, q \in Pairs : p # q /\ Live(p)' /\ Live(q)' /\ refresh'[p].family = refresh'[q].family =>
         refresh'[p].family \in crowded' \/ \E s \in Requests : Minting(s)' /\ reqs'[s].family = refresh'[p].family
  <2> SUFFICES ASSUME NEW p \in Pairs, NEW q \in Pairs, p # q, Live(p)', Live(q)', refresh'[p].family = refresh'[q].family,
                      refresh'[p].family \notin crowded'
               PROVE  \E s \in Requests : Minting(s)' /\ reqs'[s].family = refresh'[p].family
    OBVIOUS
  <2>1. \E s \in Requests : Minting(s) /\ reqs[s].family = refresh[p].family
    BY <1>3, <1>4 DEF LiveInv
  <2> QED BY <1>3, <1>4, <1>5, <2>1
<1>8. \A s \in Requests, p \in Pairs :
         Minting(s)' /\ Live(p)' /\ refresh'[p].family = reqs'[s].family /\ reqs'[s].family \notin crowded' =>
            p = reqs'[s].using \/ (reqs'[s].pc = "sealing" /\ p = reqs'[s].pair)
  BY <1>3, <1>4, <1>5 DEF LiveInv
<1>9. \A s, u \in Requests : s # u /\ Minting(s)' /\ Minting(u)' /\ reqs'[s].family = reqs'[u].family => reqs'[s].family \in crowded'
  BY <1>4, <1>5, <1>6 DEF LiveInv
<1> QED BY <1>7, <1>8, <1>9 DEF LiveInv

LEMMA LiveMinted == ASSUME TInv, LiveInv, NEW r \in Requests, MintRefresh(r) PROVE LiveInv'
<1>1. MintRefreshEffect(r)
  BY MintRefreshDoes
<1>2. PICK n \in Pairs : n = reqs[r].pair
  BY <1>1 DEF MintRefreshEffect
<1>3. PICK f : f = reqs[r].family
  OBVIOUS
<1>4. /\ Minting(r) /\ reqs[r].pc # "sealing" /\ crowded' = crowded /\ refresh'[n].family = f
      /\ \A p \in Pairs : p # n => refresh'[p] = refresh[p] /\ (Live(p)' <=> Live(p))
      /\ \A s \in Requests \ {r} : reqs'[s] = reqs[s] /\ (Minting(s)' <=> Minting(s))
      /\ reqs'[r].family = f /\ reqs'[r].using = reqs[r].using /\ reqs'[r].pair = n
      /\ reqs[r].using = 0 => ~Minting(r)'
      /\ reqs[r].using # 0 => Minting(r)' /\ reqs'[r].pc = "sealing"
  BY <1>1, <1>2, <1>3 DEF MintRefreshEffect, Minting, Live
<1>5. \A p \in Pairs : Live(p) /\ refresh[p].family = f /\ f \notin crowded => p = reqs[r].using
  BY <1>3, <1>4 DEF LiveInv
<1>6. \A s \in Requests \ {r} : Minting(s) /\ reqs[s].family = f => f \in crowded
  BY <1>3, <1>4 DEF LiveInv
<1>7. 0 \notin Pairs
  BY DEF Pairs
<1>8. \A s, u \in Requests : s # u /\ Minting(s)' /\ Minting(u)' /\ reqs'[s].family = reqs'[u].family => reqs'[s].family \in crowded'
  BY <1>4, <1>6 DEF LiveInv
<1>9. ASSUME NEW s \in Requests, NEW p \in Pairs, Minting(s)', Live(p)', refresh'[p].family = reqs'[s].family,
             reqs'[s].family \notin crowded'
      PROVE  p = reqs'[s].using \/ (reqs'[s].pc = "sealing" /\ p = reqs'[s].pair)
  <2>1. CASE s = r
    BY <1>4, <1>5, <1>9, <2>1
  <2>2. CASE s # r
    <3>1. p # n /\ Live(p) /\ refresh[p].family = reqs[s].family /\ Minting(s)
      BY <1>4, <1>6, <1>9, <2>2
    <3> QED BY <1>4, <1>9, <2>2, <3>1 DEF LiveInv
  <2> QED BY <2>1, <2>2
<1>10. ASSUME NEW p \in Pairs, NEW q \in Pairs, p # q, Live(p)', Live(q)', refresh'[p].family = refresh'[q].family,
             refresh'[p].family \notin crowded'
      PROVE  \E s \in Requests : Minting(s)' /\ reqs'[s].family = refresh'[p].family
  <2>1. CASE refresh'[p].family = f
    <3>1. reqs[r].using # 0
      BY <1>4, <1>5, <1>7, <1>10, <2>1
    <3> QED BY <1>4, <2>1, <3>1
  <2>2. CASE refresh'[p].family # f
    <3>1. Live(p) /\ Live(q) /\ refresh[p].family = refresh[q].family /\ refresh'[p] = refresh[p]
      BY <1>4, <1>10, <2>2
    <3>2. \E s \in Requests : Minting(s) /\ reqs[s].family = refresh[p].family
      BY <1>4, <1>10, <3>1 DEF LiveInv
    <3> QED BY <1>3, <1>4, <2>2, <3>1, <3>2
  <2> QED BY <2>1, <2>2
<1> QED BY <1>8, <1>9, <1>10 DEF LiveInv

LEMMA LiveRotated == ASSUME TInv, LiveInv, NEW r \in Requests, RefreshRotates(r) PROVE LiveInv'
<1>1. RotateEffect(r)
  BY RotateDoes
<1>2. PICK u \in Pairs : u = reqs[r].using
  BY <1>1 DEF RotateEffect
<1>3. PICK f : f = refresh[u].family
  OBVIOUS
<1>4. /\ Live(u) /\ ~Minting(r) /\ crowded \subseteq crowded'
      /\ (\E s \in Requests : Minting(s) /\ reqs[s].family = f) => f \in crowded'
      /\ \A s \in Requests \ {r} : reqs'[s] = reqs[s] /\ (Minting(s)' <=> Minting(s))
      /\ reqs'[r].family = f /\ reqs'[r].using = u /\ Minting(r)'
  BY <1>1, <1>2, <1>3 DEF RotateEffect, Minting
<1>5. \A p \in Pairs : (Live(p)' <=> Live(p)) /\ refresh'[p].family = refresh[p].family
  BY <1>1, RotateRows DEF Live
<1>6. f \notin crowded' => \A p \in Pairs : Live(p) /\ refresh[p].family = f => p = u
  BY <1>2, <1>3, <1>4 DEF LiveInv
<1>7. \A s, v \in Requests : s # v /\ Minting(s)' /\ Minting(v)' /\ reqs'[s].family = reqs'[v].family => reqs'[s].family \in crowded'
  BY <1>4 DEF LiveInv
<1>8. \A s \in Requests, p \in Pairs :
         Minting(s)' /\ Live(p)' /\ refresh'[p].family = reqs'[s].family /\ reqs'[s].family \notin crowded' =>
            p = reqs'[s].using \/ (reqs'[s].pc = "sealing" /\ p = reqs'[s].pair)
  BY <1>4, <1>5, <1>6 DEF LiveInv
<1>9. ASSUME NEW p \in Pairs, NEW q \in Pairs, p # q, Live(p)', Live(q)', refresh'[p].family = refresh'[q].family,
             refresh'[p].family \notin crowded'
      PROVE  \E s \in Requests : Minting(s)' /\ reqs'[s].family = refresh'[p].family
  <2>1. \E s \in Requests : Minting(s) /\ reqs[s].family = refresh[p].family
    BY <1>4, <1>5, <1>9 DEF LiveInv
  <2> QED BY <1>4, <1>5, <2>1
<1> QED BY <1>7, <1>8, <1>9 DEF LiveInv

LEMMA LiveSealed == ASSUME TInv, LiveInv, NEW r \in Requests, RefreshSeal(r) PROVE LiveInv'
<1>1. SealEffect(r)
  BY SealDoes
<1>2. PICK n : n = reqs[r].pair
  OBVIOUS
<1>3. PICK f : f = reqs[r].family
  OBVIOUS
<1>4. /\ Minting(r) /\ crowded' = crowded /\ ~Minting(r)'
      /\ \A s \in Requests \ {r} : reqs'[s] = reqs[s] /\ (Minting(s)' <=> Minting(s))
  BY <1>1 DEF SealEffect, Minting
<1>5. \A p \in Pairs : Live(p)' => Live(p) /\ refresh'[p].family = refresh[p].family /\ p # reqs[r].using
  BY <1>1 DEF SealEffect, Live, Absent
<1>6. \A p \in Pairs : Live(p)' /\ refresh[p].family = f /\ f \notin crowded => p = n
  BY <1>2, <1>3, <1>4, <1>5 DEF LiveInv
<1>7. \A s, v \in Requests : s # v /\ Minting(s)' /\ Minting(v)' /\ reqs'[s].family = reqs'[v].family => reqs'[s].family \in crowded'
  BY <1>4 DEF LiveInv
<1>8. \A s \in Requests, p \in Pairs :
         Minting(s)' /\ Live(p)' /\ refresh'[p].family = reqs'[s].family /\ reqs'[s].family \notin crowded' =>
            p = reqs'[s].using \/ (reqs'[s].pc = "sealing" /\ p = reqs'[s].pair)
  BY <1>4, <1>5 DEF LiveInv
<1>9. ASSUME NEW p \in Pairs, NEW q \in Pairs, p # q, Live(p)', Live(q)', refresh'[p].family = refresh'[q].family,
             refresh'[p].family \notin crowded'
      PROVE  \E s \in Requests : Minting(s)' /\ reqs'[s].family = refresh'[p].family
  <2>1. refresh[p].family # f
    BY <1>4, <1>5, <1>6, <1>9
  <2>2. \E s \in Requests : Minting(s) /\ reqs[s].family = refresh[p].family
    BY <1>4, <1>5, <1>9 DEF LiveInv
  <2> QED BY <1>3, <1>4, <1>5, <1>9, <2>1, <2>2
<1> QED BY <1>7, <1>8, <1>9 DEF LiveInv

LEMMA LiveStep == ASSUME TInv, LiveInv, [Next]_vars PROVE LiveInv'
<1>1. ASSUME NEW c \in Clients, handleRegister(c) \/ handleAuthorize(c) \/ ClientAges(c) PROVE LiveInv'
  <2>1. purge \/ UNCHANGED tokens
    BY <1>1 DEF handleRegister, clientRegister, handleAuthorize, ClientAges
  <2>2. Thins({})
    BY <2>1, PurgeThins, RowsSame, Unpacked DEF tokens
  <2> QED BY <1>1, <2>2, LiveRest DEF handleRegister, handleAuthorize, ClientAges, history
<1>2. ASSUME NEW r \in Requests, NEW c \in Clients, NEW k \in Codes, ExchangeBegin(r, c, k) PROVE LiveInv'
  <2>1. reqs'[r] = [NoReq EXCEPT !.pc = "consuming", !.client = c, !.code = k] /\ \A s \in Requests \ {r} : reqs'[s] = reqs[s]
    BY <1>2, Unpacked DEF ExchangeBegin
  <2>2. ~Minting(r)' /\ ~Minting(r)
    BY <1>2, <2>1 DEF Minting, NoReq, ExchangeBegin, Idle
  <2> QED BY <1>2, <2>1, <2>2, LiveMoves, RowsSame DEF ExchangeBegin, history, tokens
<1>3. ASSUME NEW r \in Requests, ExchangeConsume(r) PROVE LiveInv'
  <2>1. /\ \/ reqs' = [reqs EXCEPT ![r] = NoReq]
           \/ reqs' = [reqs EXCEPT ![r].pc = "ensuring"]
        /\ reqs[r].pc = "consuming"
        /\ UNCHANGED <<access, refresh, grants, ended, crowded>>
    BY <1>3 DEF ExchangeConsume, history, tokens
  <2>2. reqs'[r].pc \in {"idle", "ensuring"} /\ \A s \in Requests \ {r} : reqs'[s] = reqs[s]
    BY <2>1, Unpacked DEF Reqs, NoReq
  <2> QED BY <2>1, <2>2, LiveMoves, RowsSame DEF Minting
<1>4. ASSUME NEW r \in Requests, grantEnsure(r) PROVE LiveInv'
  <2>1. /\ reqs[r].pc = "ensuring" /\ UNCHANGED <<access, refresh, crowded>>
        /\ \E g \in Int : reqs' = [reqs EXCEPT ![r] = [@ EXCEPT !.pc = "issuing", !.grant = g]]
    <3>1. lastGrant + 1 \in Int /\ Grants \subseteq Int
      BY Unpacked DEF Grants
    <3> QED BY <1>4, <3>1 DEF grantEnsure, history, tokens
  <2>2. reqs'[r].pc = "issuing" /\ \A s \in Requests \ {r} : reqs'[s] = reqs[s]
    BY <2>1, Unpacked DEF Reqs
  <2> QED BY <2>1, <2>2, LiveMoves, RowsSame DEF Minting
<1>5. ASSUME NEW r \in Requests, NEW c \in Clients, NEW t \in Pairs, RefreshBegin(r, c, t) PROVE LiveInv'
  <2>1. BeginEffect(r, c, t)
    BY <1>5, BeginDoes
  <2> QED BY <2>1, PurgeThins, Unpacked, LiveMoves DEF BeginEffect, Minting, Idle
<1>6. ASSUME NEW r \in Requests, RefreshUnknown(r) \/ Deliver(r) \/ Lose(r) PROVE LiveInv'
  <2>1. reqs' = [reqs EXCEPT ![r] = NoReq] /\ UNCHANGED <<access, refresh, crowded>> /\ reqs[r].pc \in {"reading", "answered"}
    BY <1>6 DEF RefreshUnknown, Deliver, Lose, history, tokens
  <2>2. reqs'[r] = NoReq /\ \A s \in Requests \ {r} : reqs'[s] = reqs[s]
    BY <2>1, Unpacked
  <2> QED BY <2>1, <2>2, LiveMoves, RowsSame DEF Minting, NoReq
<1>7. ASSUME NEW r \in Requests, RefreshReplays(r) PROVE LiveInv'
  <2>1. ReplayEffect(r)
    BY <1>7, ReplayDoes
  <2> QED BY <2>1, LiveMoves, RowsSame DEF ReplayEffect, Minting
<1>8. ASSUME NEW r \in Requests, MintAccess(r) PROVE LiveInv'
  <2>1. MintAccessEffect(r)
    BY <1>8, MintAccessDoes
  <2>2. \A s \in Requests : Minting(s)' = Minting(s)
    BY <2>1 DEF MintAccessEffect, Minting
  <2> QED BY <2>1, <2>2, LiveKept, RowsSame DEF MintAccessEffect
<1>9. ASSUME NEW r \in Requests, RefreshRevokes(r) PROVE LiveInv'
  <2>1. RevokesEffect(r)
    BY <1>9, RevokesDoes
  <2>2. PICK f \in 1..lastPair : f = refresh[reqs[r].using].family
    BY <2>1 DEF RevokesEffect
  <2>3. reqs'[r] = NoReq /\ \A s \in Requests \ {r} : reqs'[s] = reqs[s]
    BY <2>1, Unpacked DEF RevokesEffect
  <2>4. ~Minting(r) /\ ~Minting(r)' /\ Thins({}) /\ crowded \subseteq crowded'
    BY <2>1, <2>2, <2>3, RevokeFamily DEF Minting, NoReq, RevokesEffect
  <2> QED BY <2>3, <2>4, LiveMoves
<1>10. ASSUME NEW c \in Clients, NEW t \in Pairs, RevokeRefresh(c, t) PROVE LiveInv'
  <2>1. refresh[t].family \in 1..lastPair
    BY <1>10, Unpacked DEF RevokeRefresh, Counted, Absent
  <2>2. PICK f \in 1..lastPair : f = refresh[t].family
    BY <2>1
  <2>3. Thins({}) /\ crowded \subseteq crowded' /\ reqs' = reqs
    BY <1>10, <2>2, RevokeFamily DEF RevokeRefresh
  <2> QED BY <2>3, LiveRest
<1>11. ASSUME NEW c \in Clients, NEW t \in Pairs, RevokeAccess(c, t) PROVE LiveInv'
  BY <1>11, LiveRest, RowsSame DEF RevokeAccess, history
<1>12. ASSUME NEW t \in Pairs, ExpireAccess(t) PROVE LiveInv'
  BY <1>12, LiveRest, RowsSame DEF ExpireAccess
<1>13. ASSUME NEW p \in Pairs, GraceEnds(p) \/ ExpireRefresh(p) PROVE LiveInv'
  <2>1. AgeEffect(p)
    BY <1>13, AgeDoes
  <2> QED BY <2>1, AgeThins, LiveRest DEF AgeEffect
<1>14. ASSUME NEW k \in Codes, CodeExpires(k) PROVE LiveInv'
  BY <1>14, LiveRest, RowsSame DEF CodeExpires, history, tokens
<1>15. ASSUME grantList \/ UNCHANGED vars PROVE LiveInv'
  <2>1. Thins({})
    BY <1>15, PurgeThins, RowsSame, Unpacked DEF grantList, vars
  <2> QED BY <1>15, <2>1, LiveRest DEF grantList, vars, history
<1>16. ASSUME NEW g \in Grants, grantRevoke(g) PROVE LiveInv'
  <2>1. Deleted({g}) /\ crowded' = crowded /\ reqs' = reqs
    BY <1>16 DEF grantRevoke
  <2> QED BY <2>1, DeleteGrants, LiveRest
<1>17. ASSUME grantRevokeAll PROVE LiveInv'
  <2>1. PICK S \in SUBSET Grants : S = {g \in Grants : grants[g] # None}
    OBVIOUS
  <2>2. Deleted(S) /\ crowded' = crowded /\ reqs' = reqs
    BY <1>17, <2>1 DEF grantRevokeAll
  <2> QED BY <2>2, DeleteGrants, LiveRest
<1> QED BY <1>1, <1>2, <1>3, <1>4, <1>5, <1>6, <1>7, <1>8, <1>9, <1>10, <1>11, <1>12, <1>13, <1>14, <1>15, <1>16, <1>17,
           LiveIssued, LiveMinted, LiveRotated, LiveSealed, Expiry
        DEF Next, handleToken, handleRevoke, Time

-----------------------------------------------------------------------------
(* A client that keeps the protocol can go on *)

LEMMA RowNumbers == ASSUME TInv, NEW p \in Pairs, ~Absent(p) PROVE refresh[p].grant \in Grants /\ refresh[p].family \in Pairs
BY Unpacked DEF Counted, Grants, Pairs

\* What the tables keep for client c.
Kept(c) ==
    /\ \A p \in Pairs : ~Absent(p)' /\ grants'[refresh'[p].grant] = c => ~refresh'[p].expired
    /\ \A t \in Pairs : Fresh(c, t) => Fresh(c, t)'
    /\ \A t \in Pairs : Repeatable(c, t) /\ (t = held[c] \/ Uses(c, t)) =>
          Repeatable(c, t)' /\ refresh'[t].replay = refresh[t].replay

\* The requests of client c use no other token, and answer with one that no request uses.
Calm(c) ==
    /\ held'[c] = held[c]
    /\ \A s \in Requests : Active(s, c)' =>
          /\ reqs'[s].using = 0 \/ (Active(s, c) /\ reqs'[s].using = reqs[s].using)
          /\ Minting(s)' \/ reqs'[s].pc = "issuing" => grants'[reqs'[s].grant] = c
          /\ reqs'[s].pc \in {"sealing", "answered"} => \E z \in Pairs : reqs'[s].pair = z /\ Fresh(c, z)' /\ ~Uses(c, z)

LEMMA UsesShrink ==
    ASSUME NEW c, \A s \in Requests : Active(s, c)' => reqs'[s].using = 0 \/ (Active(s, c) /\ reqs'[s].using = reqs[s].using)
    PROVE  \A t \in Pairs : Uses(c, t)' => Uses(c, t)
BY DEF Uses, Pairs

LEMMA RepeatsStay ==
    ASSUME NEW c, Kept(c), NEW t \in Pairs, Repeats(c, t), t = held[c] \/ Uses(c, t),
           \A z \in Pairs : Uses(c, z)' => Uses(c, z)
    PROVE  Repeats(c, t)'
<1>1. PICK z \in Pairs : z = refresh[t].replay
  BY DEF Repeats, Repeatable
<1>2. Repeatable(c, t)' /\ refresh'[t].replay = z
  BY <1>1 DEF Kept, Repeats
<1>3. Fresh(c, z)' /\ ~Uses(c, z)'
  BY <1>1 DEF Kept, Repeats
<1>4. Fresh(c, refresh[t].replay)' /\ ~Uses(c, refresh[t].replay)'
  BY <1>2, <1>3 DEF Fresh, Uses, Active, Live
<1> QED BY <1>2, <1>4 DEF Repeats

LEMMA RetryKept == ASSUME NEW c, RetryOf(c), Kept(c), Calm(c) PROVE RetryOf(c)'
<1>1. \A z \in Pairs : Uses(c, z)' => Uses(c, z)
  BY UsesShrink DEF Calm
<1>2. PICK h : h = held[c]
  OBVIOUS
<1>3. held'[c] = h
  BY <1>2 DEF Calm
<1>4. h # 0 => Fresh(c, h)' \/ Repeats(c, h)'
  <2> SUFFICES ASSUME h # 0 PROVE Fresh(c, h)' \/ Repeats(c, h)'
    OBVIOUS
  <2>1. h \in Pairs /\ (Fresh(c, h) \/ Repeats(c, h))
    BY <1>2 DEF RetryOf, Fresh, Repeats, Repeatable
  <2> QED BY <1>1, <1>2, <2>1, RepeatsStay DEF Kept
<1>5. Fresh(c, h) => Fresh(c, h)'
  BY DEF Kept, Fresh
<1>6. ASSUME NEW s \in Requests, Active(s, c)', reqs'[s].using # 0
      PROVE  /\ Active(s, c) /\ reqs'[s].using = reqs[s].using
             /\ Fresh(c, reqs[s].using)' \/ Repeats(c, reqs[s].using)'
             /\ reqs'[s].using = h \/ Fresh(c, h)'
  <2>1. PICK u : u = reqs[s].using
    OBVIOUS
  <2>2. Active(s, c) /\ reqs'[s].using = u
    BY <1>6, <2>1 DEF Calm
  <2>3. u \in Pairs /\ Uses(c, u) /\ (Fresh(c, u) \/ Repeats(c, u)) /\ (u = h \/ Fresh(c, h))
    BY <1>2, <1>6, <2>1, <2>2 DEF RetryOf, Uses, Fresh, Repeats, Repeatable
  <2>4. Fresh(c, u)' \/ Repeats(c, u)'
    BY <1>1, <2>3, RepeatsStay DEF Kept
  <2>5. Fresh(c, reqs[s].using)' \/ Repeats(c, reqs[s].using)'
    BY <2>2, <2>4 DEF Fresh, Repeats, Repeatable, Live
  <2> QED BY <1>5, <2>1, <2>2, <2>3, <2>5
<1>7. \A p \in Pairs : ~Absent(p)' /\ grants'[refresh'[p].grant] = c => ~refresh'[p].expired
  BY DEF Kept
<1>8. \A r \in Requests : Active(r, c)' /\ (Minting(r)' \/ reqs'[r].pc = "issuing") => grants'[reqs'[r].grant] = c
  BY DEF Calm
<1>9. \A r, s \in Requests : Active(r, c)' /\ Active(s, c)' /\ reqs'[r].using # 0 /\ reqs'[s].using # 0 => reqs'[r].using = reqs'[s].using
  BY <1>6 DEF RetryOf
<1>10. (held[c] # 0 => Fresh(c, held[c]) \/ Repeats(c, held[c]))'
  BY <1>3, <1>4 DEF Fresh, Repeats, Repeatable, Live
<1>11. \A s \in Requests : (Active(s, c) /\ reqs[s].pc \in {"sealing", "answered"} => Fresh(c, reqs[s].pair) /\ ~Uses(c, reqs[s].pair))'
  BY <1>1 DEF Calm, Fresh, Live
<1>12. \A s \in Requests : (Active(s, c) /\ reqs[s].using # 0 =>
          /\ Fresh(c, reqs[s].using) \/ Repeats(c, reqs[s].using)
          /\ reqs[s].using = held[c] \/ Fresh(c, held[c]))'
  BY <1>3, <1>6 DEF Fresh, Live
<1> QED BY <1>7, <1>8, <1>9, <1>10, <1>11, <1>12 DEF RetryOf

\* A purge takes nothing that client c needs.
LEMMA KeptByPurge ==
    ASSUME TInv, NEW c \in Clients, RetryOf(c), grants' = grants, purge \/ refresh' = refresh
    PROVE  Kept(c)
<1>1. CASE refresh' = refresh
  BY <1>1 DEF Kept, RetryOf, Fresh, Repeatable, Live, Absent
<1>2. CASE purge
  <2>1. ASSUME NEW p \in Pairs
        PROVE  \/ refresh'[p] = NoRefresh /\ (Absent(p) \/ refresh[p].expired)
               \/ /\ ~Absent(p) /\ ~refresh[p].expired
                  /\ refresh'[p].state = refresh[p].state /\ refresh'[p].expired = refresh[p].expired
                  /\ refresh'[p].grant = refresh[p].grant
                  /\ refresh'[p].grace = refresh[p].grace
                  /\ refresh[p].grace => refresh'[p].replay = refresh[p].replay
    BY <1>2, Unpacked, PurgeThins
  <2>2. \A p \in Pairs : ~Absent(p) /\ grants[refresh[p].grant] = c => ~refresh[p].expired
    BY DEF RetryOf
  <2>3. \A p \in Pairs : ~Absent(p)' => ~refresh'[p].expired
    BY <2>1 DEF Absent, NoRefresh
  <2>4. \A t \in Pairs : Fresh(c, t) => Fresh(c, t)'
    BY <2>1, <2>2 DEF Fresh, Live, Absent
  <2>5. \A t \in Pairs : Repeatable(c, t) => Repeatable(c, t)' /\ refresh'[t].replay = refresh[t].replay
    <3> SUFFICES ASSUME NEW t \in Pairs, Repeatable(c, t) PROVE Repeatable(c, t)' /\ refresh'[t].replay = refresh[t].replay
      OBVIOUS
    <3>1. ~Absent(t) /\ grants[refresh[t].grant] = c /\ refresh[t].grace
      BY DEF Repeatable, Absent
    <3> QED BY <2>1, <2>2, <3>1 DEF Repeatable
  <2> QED BY <2>3, <2>4, <2>5 DEF Kept
<1> QED BY <1>1, <1>2

LEMMA CalmRest == ASSUME NEW c \in Clients, RetryOf(c), Kept(c), grants' = grants, reqs' = reqs, held' = held PROVE Calm(c)
<1>1. ASSUME NEW s \in Requests, Active(s, c)' PROVE Active(s, c) /\ reqs'[s] = reqs[s]
  BY <1>1 DEF Active, Idle
<1>2. ASSUME NEW s \in Requests, Active(s, c), reqs[s].pc \in {"sealing", "answered"}
      PROVE  \E z \in Pairs : reqs[s].pair = z /\ Fresh(c, z)' /\ ~Uses(c, z)
  <2>1. PICK z \in Pairs : z = reqs[s].pair
    BY <1>2 DEF RetryOf, Fresh
  <2> QED BY <1>2, <2>1 DEF RetryOf, Kept
<1> QED BY <1>1, <1>2 DEF Calm, RetryOf, Minting

\* Request r moves as its client may expect.
LEMMA CalmMoves ==
    ASSUME NEW c \in Clients, RetryOf(c), Kept(c), held'[c] = held[c], NEW r \in Requests,
           \A s \in Requests \ {r} : reqs'[s] = reqs[s],
           \A s \in Requests : Active(s, c) /\ (Minting(s) \/ reqs[s].pc = "issuing") => grants'[reqs[s].grant] = c,
           Active(r, c)' =>
              /\ reqs'[r].using = 0 \/ (Active(r, c) /\ reqs'[r].using = reqs[r].using)
              /\ Minting(r)' \/ reqs'[r].pc = "issuing" => grants'[reqs'[r].grant] = c
              /\ reqs'[r].pc \in {"sealing", "answered"} => \E z \in Pairs : reqs'[r].pair = z /\ Fresh(c, z)' /\ ~Uses(c, z)
    PROVE  Calm(c)
<1>1. ASSUME NEW s \in Requests \ {r}, Active(s, c)'
      PROVE  /\ Active(s, c) /\ reqs'[s].using = reqs[s].using
             /\ Minting(s)' \/ reqs'[s].pc = "issuing" => grants'[reqs'[s].grant] = c
             /\ reqs'[s].pc \in {"sealing", "answered"} => \E z \in Pairs : reqs'[s].pair = z /\ Fresh(c, z)' /\ ~Uses(c, z)
  <2>1. Active(s, c) /\ reqs'[s] = reqs[s] /\ (Minting(s)' <=> Minting(s))
    BY <1>1 DEF Active, Idle, Minting
  <2>2. ASSUME reqs[s].pc \in {"sealing", "answered"}
        PROVE  \E z \in Pairs : reqs[s].pair = z /\ Fresh(c, z)' /\ ~Uses(c, z)
    <3>1. PICK z \in Pairs : z = reqs[s].pair
      BY <2>1, <2>2 DEF RetryOf, Fresh
    <3> QED BY <2>1, <2>2, <3>1 DEF RetryOf, Kept
  <2> QED BY <2>1, <2>2
<1> QED BY <1>1 DEF Calm

\* The same when the grants stay.
LEMMA RetryMoves ==
    ASSUME TInv, NEW c \in Clients, RetryOf(c), Kept(c), grants' = grants, held'[c] = held[c], NEW r \in Requests,
           \A s \in Requests \ {r} : reqs'[s] = reqs[s],
           Active(r, c)' =>
              /\ reqs'[r].using = 0 \/ (Active(r, c) /\ reqs'[r].using = reqs[r].using)
              /\ Minting(r)' \/ reqs'[r].pc = "issuing" => grants[reqs'[r].grant] = c
              /\ reqs'[r].pc \in {"sealing", "answered"} => \E z \in Pairs : reqs'[r].pair = z /\ Fresh(c, z)' /\ ~Uses(c, z)
    PROVE  RetryOf(c)'
<1>1. \A s \in Requests : Active(s, c) /\ (Minting(s) \/ reqs[s].pc = "issuing") => grants'[reqs[s].grant] = c
  BY DEF RetryOf
<1>2. Calm(c)
  BY <1>1, CalmMoves
<1> QED BY <1>2, RetryKept

LEMMA RetryRest ==
    ASSUME NEW c \in Clients, RetryOf(c), Kept(c), grants' = grants, reqs' = reqs, held' = held PROVE RetryOf(c)'
BY CalmRest, RetryKept

LEMMA RetryEnsured == ASSUME TInv, NEW c \in Clients, RetryOf(c), NEW r \in Requests, grantEnsure(r) PROVE RetryOf(c)'
<1>1. reqs[r].pc = "ensuring" /\ UNCHANGED <<refresh, held>> /\ reqs[r] \in Reqs
  BY Unpacked DEF grantEnsure, tokens
<1>2. PICK g \in Grants :
        /\ reqs' = [reqs EXCEPT ![r] = [@ EXCEPT !.pc = "issuing", !.grant = g]]
        /\ \/ grants[g] = reqs[r].client /\ grants' = grants
           \/ g = lastGrant + 1 /\ grants' = [grants EXCEPT ![g] = reqs[r].client]
  <2>1. lastGrant < MaxGrants => lastGrant + 1 \in Grants
    BY Unpacked DEF Grants
  <2> QED BY <2>1 DEF grantEnsure
<1>3. grants'[g] = reqs[r].client /\ \A x \in 1..lastGrant : grants'[x] = grants[x]
  <2>1. \A x \in 1..lastGrant : x \in Grants /\ x # lastGrant + 1
    BY Unpacked DEF Grants
  <2> QED BY <1>2, <2>1, Unpacked
<1>4. /\ reqs'[r].pc = "issuing" /\ reqs'[r].using = reqs[r].using /\ reqs'[r].client = reqs[r].client /\ reqs'[r].grant = g
      /\ \A s \in Requests \ {r} : reqs'[s] = reqs[s]
  BY <1>1, <1>2, Unpacked DEF Reqs
<1>5. \A p \in Pairs : ~Absent(p) => grants'[refresh[p].grant] = grants[refresh[p].grant]
  BY <1>3, Unpacked DEF Counted
<1>6. Kept(c)
  BY <1>1, <1>5 DEF Kept, RetryOf, Fresh, Repeatable, Live, Absent
<1>7. \A s \in Requests : Minting(s) \/ reqs[s].pc = "issuing" => grants'[reqs[s].grant] = grants[reqs[s].grant]
  BY <1>3, Unpacked DEF Stage
<1>8. \A s \in Requests : Active(s, c) /\ (Minting(s) \/ reqs[s].pc = "issuing") => grants'[reqs[s].grant] = c
  BY <1>7 DEF RetryOf
<1>9. Active(r, c)' => Active(r, c) /\ reqs[r].client = c
  BY <1>1, <1>4 DEF Active, Idle
<1>10. Calm(c)
  BY <1>1, <1>3, <1>4, <1>6, <1>8, <1>9, CalmMoves
<1> QED BY <1>6, <1>10, RetryKept

LEMMA RetryIssued == ASSUME TInv, NEW c \in Clients, RetryOf(c), NEW r \in Requests, tokensIssue(r) PROVE RetryOf(c)'
<1>1. IssueEffect(r)
  BY IssueDoes
<1>2. Kept(c)
  BY <1>1, KeptByPurge DEF IssueEffect
<1>3. Active(r, c)' => Active(r, c) /\ reqs'[r].using = reqs[r].using /\ grants[reqs'[r].grant] = c
  BY <1>1 DEF IssueEffect, Active, Idle, RetryOf
<1> QED BY <1>1, <1>2, <1>3, RetryMoves DEF IssueEffect

LEMMA RetryMintAccess == ASSUME TInv, NEW c \in Clients, RetryOf(c), NEW r \in Requests, MintAccess(r) PROVE RetryOf(c)'
<1>1. MintAccessEffect(r)
  BY MintAccessDoes
<1>2. Kept(c)
  BY <1>1, KeptByPurge DEF MintAccessEffect
<1>3. Active(r, c)' => Active(r, c) /\ reqs'[r].using = reqs[r].using /\ grants[reqs'[r].grant] = c
  BY <1>1 DEF MintAccessEffect, Active, Idle, RetryOf, Minting
<1> QED BY <1>1, <1>2, <1>3, RetryMoves DEF MintAccessEffect

\* The pair is new: nobody uses it.
LEMMA RetryMinted == ASSUME TInv, NEW c \in Clients, RetryOf(c), NEW r \in Requests, MintRefresh(r) PROVE RetryOf(c)'
<1>1. MintRefreshEffect(r)
  BY MintRefreshDoes
<1>2. PICK n \in Pairs : n = reqs[r].pair
  BY <1>1 DEF MintRefreshEffect
<1>3. Absent(n) /\ Minting(r)
  BY <1>1, <1>2, Unpacked DEF MintRefreshEffect, Unminted, Minting, Stage
<1>4. /\ refresh'[n].state = "live" /\ refresh'[n].grant = reqs[r].grant /\ ~refresh'[n].expired
      /\ \A p \in Pairs : p # n => refresh'[p] = refresh[p]
      /\ grants' = grants
  BY <1>1, <1>2 DEF MintRefreshEffect
<1>5. Kept(c)
  <2>1. \A p \in Pairs : ~Absent(p)' /\ grants'[refresh'[p].grant] = c => ~refresh'[p].expired
    BY <1>4 DEF RetryOf, Absent
  <2>2. \A t \in Pairs : Fresh(c, t) => Fresh(c, t)'
    BY <1>3, <1>4 DEF Fresh, Live, Absent
  <2>3. \A t \in Pairs : Repeatable(c, t) => Repeatable(c, t)' /\ refresh'[t].replay = refresh[t].replay
    BY <1>3, <1>4 DEF Repeatable, Absent
  <2> QED BY <2>1, <2>2, <2>3 DEF Kept
<1>6. ~Uses(c, n)
  <2>1. n # 0 /\ ~Fresh(c, n) /\ ~Repeats(c, n)
    BY <1>3 DEF Pairs, Fresh, Repeats, Repeatable, Live, Absent
  <2>2. ASSUME NEW s \in Requests, Active(s, c), reqs[s].using = n PROVE FALSE
    <3>1. Fresh(c, reqs[s].using) \/ Repeats(c, reqs[s].using)
      BY <2>1, <2>2 DEF RetryOf
    <3> QED BY <2>1, <2>2, <3>1
  <2> QED BY <2>2 DEF Uses
<1>7. Active(r, c)' => Active(r, c) /\ reqs'[r].using = reqs[r].using /\ grants[reqs'[r].grant] = c /\ grants[reqs[r].grant] = c
  BY <1>1, <1>3 DEF MintRefreshEffect, Active, Idle, RetryOf
<1>8. Active(r, c)' => reqs'[r].pair = n /\ Fresh(c, n)'
  BY <1>1, <1>2, <1>4, <1>7 DEF MintRefreshEffect, Fresh, Live
<1> QED BY <1>1, <1>5, <1>6, <1>7, <1>8, RetryMoves DEF MintRefreshEffect

LEMMA RetryRepeated == ASSUME TInv, NEW c \in Clients, RetryOf(c), NEW r \in Requests, RefreshReplays(r) PROVE RetryOf(c)'
<1>1. ReplayEffect(r)
  BY ReplayDoes
<1>2. Kept(c)
  BY <1>1, KeptByPurge DEF ReplayEffect
<1>3. Active(r, c)' => Active(r, c) /\ reqs'[r].using = reqs[r].using
  BY <1>1 DEF ReplayEffect, Active, Idle
<1>4. PICK u \in Pairs : u = reqs[r].using
  BY <1>1 DEF ReplayEffect
<1>5. u # 0 /\ refresh[u].state = "replaced"
  BY <1>1, <1>4 DEF ReplayEffect, Replayable, Pairs
<1>6. Active(r, c) => Repeats(c, u)
  BY <1>4, <1>5 DEF RetryOf, Fresh, Live
<1>7. Active(r, c) => \E z \in Pairs : reqs'[r].pair = z /\ Fresh(c, z)' /\ ~Uses(c, z)
  <2> SUFFICES ASSUME Active(r, c) PROVE \E z \in Pairs : reqs'[r].pair = z /\ Fresh(c, z)' /\ ~Uses(c, z)
    OBVIOUS
  <2>1. PICK z \in Pairs : z = refresh[u].replay
    BY <1>6 DEF Repeats, Repeatable
  <2>2. Fresh(c, z) /\ ~Uses(c, z)
    BY <1>6, <2>1 DEF Repeats
  <2> QED BY <1>1, <1>2, <1>4, <2>1, <2>2 DEF ReplayEffect, Kept
<1>8. ~(Minting(r)' \/ reqs'[r].pc = "issuing")
  BY <1>1 DEF ReplayEffect, Minting
<1> QED BY <1>1, <1>2, <1>3, <1>7, <1>8, RetryMoves DEF ReplayEffect

\* The end of a family of another client's grant.
LEMMA KeptByRevoke ==
    ASSUME TInv, FamilyInv, NEW c \in Clients, RetryOf(c), NEW u \in Pairs, ~Absent(u), grants[refresh[u].grant] # c,
           NEW f \in 1..lastPair, f = refresh[u].family, familyRevoke(f), grants' = grants
    PROVE  Kept(c)
<1>1. \A p \in Pairs : refresh'[p] = IF refresh[p].family = f THEN NoRefresh ELSE refresh[p]
  BY RevokeFamily
<1>2. ASSUME NEW p \in Pairs, ~Absent(p), grants[refresh[p].grant] = c PROVE refresh[p].family # f
  <2>1. PICK g \in Grants : g = refresh[u].grant
    BY RowNumbers
  <2>2. PICK h \in Grants : h = refresh[p].grant
    BY <1>2, RowNumbers
  <2>3. f \in Pairs /\ Claim(f, g)
    BY <2>1, Unpacked, RowNumbers DEF Claim
  <2>4. refresh[p].family = f => Claim(f, h)
    BY <1>2, <2>2 DEF Claim
  <2> QED BY <1>2, <2>1, <2>2, <2>3, <2>4 DEF FamilyInv
<1>3. \A p \in Pairs : ~Absent(p)' => refresh'[p] = refresh[p]
  BY <1>1 DEF Absent, NoRefresh
<1>4. \A p \in Pairs : ~Absent(p)' /\ grants'[refresh'[p].grant] = c => ~refresh'[p].expired
  BY <1>3 DEF RetryOf, Absent
<1>5. \A t \in Pairs : Fresh(c, t) => Fresh(c, t)'
  BY <1>1, <1>2 DEF Fresh, Live, Absent
<1>6. \A t \in Pairs : Repeatable(c, t) => Repeatable(c, t)' /\ refresh'[t].replay = refresh[t].replay
  BY <1>1, <1>2 DEF Repeatable, Absent
<1> QED BY <1>4, <1>5, <1>6 DEF Kept

\* A client that keeps the protocol never presents a token that ends its family.
LEMMA RetryRevokes ==
    ASSUME TInv, FamilyInv, NEW c \in Clients, RetryOf(c), NEW r \in Requests, RefreshRevokes(r) PROVE RetryOf(c)'
<1>1. RevokesEffect(r)
  BY RevokesDoes
<1>2. PICK u \in Pairs : u = reqs[r].using
  BY <1>1 DEF RevokesEffect
<1>3. PICK f \in 1..lastPair : f = refresh[u].family
  BY <1>1, <1>2 DEF RevokesEffect
<1>4. /\ ~Absent(u) /\ familyRevoke(f) /\ grants' = grants /\ held' = held
      /\ grants[refresh[u].grant] = reqs[r].client
      /\ refresh[u].expired \/ (refresh[u].state = "replaced" /\ ~(refresh[u].grace /\ refresh[u].replay # 0))
  BY <1>1, <1>2, <1>3 DEF RevokesEffect, Found, Replayable
<1>5. reqs[r].client # c
  <2> SUFFICES ASSUME reqs[r].client = c PROVE FALSE
    OBVIOUS
  <2>1. Active(r, c) /\ u # 0
    BY <1>1 DEF RevokesEffect, Active, Idle, Pairs
  <2>2. Fresh(c, u) \/ Repeats(c, u)
    BY <1>2, <2>1 DEF RetryOf
  <2>3. ~refresh[u].expired
    BY <1>4 DEF RetryOf
  <2> QED BY <1>4, <2>2, <2>3 DEF Fresh, Live, Repeats, Repeatable, Pairs
<1>6. Kept(c)
  BY <1>3, <1>4, <1>5, KeptByRevoke
<1>7. reqs'[r] = NoReq /\ \A s \in Requests \ {r} : reqs'[s] = reqs[s]
  BY <1>1, Unpacked DEF RevokesEffect
<1>8. ~Active(r, c)'
  BY <1>7 DEF Active, Idle, NoReq
<1> QED BY <1>4, <1>6, <1>7, <1>8, RetryMoves

LEMMA RetryRevoked ==
    ASSUME TInv, FamilyInv, NEW c \in Clients, RetryOf(c), NEW d \in Clients, d # c, NEW t \in Pairs, RevokeRefresh(d, t)
    PROVE  RetryOf(c)'
<1>1. ~Absent(t) /\ grants[refresh[t].grant] # c /\ familyRevoke(refresh[t].family) /\ UNCHANGED <<grants, reqs, held>>
  BY DEF RevokeRefresh, Absent
<1>2. PICK f \in 1..lastPair : f = refresh[t].family
  BY <1>1, Unpacked DEF Counted
<1>3. Kept(c)
  BY <1>1, <1>2, KeptByRevoke
<1> QED BY <1>1, <1>3, RetryRest

\* The token that is rotated is live: no answer that its client may ask for again is dropped.
LEMMA RetryRotated ==
    ASSUME TInv, FamilyInv, NEW c \in Clients, RetryOf(c), NEW r \in Requests, RefreshRotates(r) PROVE RetryOf(c)'
<1>1. RotateEffect(r)
  BY RotateDoes
<1>2. PICK u \in Pairs : u = reqs[r].using
  BY <1>1 DEF RotateEffect
<1>3. PICK f : f = refresh[u].family
  OBVIOUS
<1>4. \A p \in Pairs : /\ refresh'[p].state = refresh[p].state /\ refresh'[p].grant = refresh[p].grant
                       /\ refresh'[p].expired = refresh[p].expired /\ refresh'[p].grace = refresh[p].grace
                       /\ refresh[p].family # f => refresh'[p] = refresh[p]
  BY <1>1, <1>2, <1>3, RotateRows
<1>5. Live(u) /\ ~Absent(u) /\ u # 0 /\ grants[refresh[u].grant] = reqs[r].client /\ grants' = grants /\ held' = held
  BY <1>1, <1>2 DEF RotateEffect, Live, Absent, Pairs
<1>6. ASSUME NEW t \in Pairs, Repeatable(c, t), t = held[c] \/ Uses(c, t) PROVE refresh[t].family # f
  <2>1. ~Live(t) /\ ~Absent(t) /\ t # 0 /\ grants[refresh[t].grant] = c
    BY <1>6 DEF Repeatable, Live, Absent, Pairs
  <2>2. CASE reqs[r].client = c
    <3>1. Active(r, c)
      BY <1>1, <2>2 DEF RotateEffect, Active, Idle
    <3>2. Uses(c, t) => t = u
      BY <1>2, <1>5, <2>1, <3>1 DEF Uses, RetryOf
    <3>3. u = held[c] \/ Fresh(c, held[c])
      BY <1>2, <1>5, <3>1 DEF RetryOf
    <3> QED BY <1>5, <1>6, <2>1, <3>2, <3>3 DEF Fresh
  <2>3. CASE reqs[r].client # c
    <3>1. PICK g \in Grants : g = refresh[u].grant
      BY <1>5, RowNumbers
    <3>2. PICK h \in Grants : h = refresh[t].grant
      BY <2>1, RowNumbers
    <3>3. f \in Pairs /\ Claim(f, g)
      BY <1>3, <1>5, <3>1, RowNumbers DEF Claim
    <3>4. refresh[t].family = f => Claim(f, h)
      BY <2>1, <3>2 DEF Claim
    <3> QED BY <1>5, <2>1, <2>3, <3>1, <3>2, <3>3, <3>4 DEF FamilyInv
  <2> QED BY <2>2, <2>3
<1>7. Kept(c)
  <2>1. \A p \in Pairs : ~Absent(p)' /\ grants'[refresh'[p].grant] = c => ~refresh'[p].expired
    BY <1>4, <1>5 DEF RetryOf, Absent
  <2>2. \A t \in Pairs : Fresh(c, t) => Fresh(c, t)'
    BY <1>4, <1>5 DEF Fresh, Live
  <2>3. \A t \in Pairs : Repeatable(c, t) /\ (t = held[c] \/ Uses(c, t)) => Repeatable(c, t)' /\ refresh'[t].replay = refresh[t].replay
    BY <1>4, <1>5, <1>6 DEF Repeatable
  <2> QED BY <2>1, <2>2, <2>3 DEF Kept
<1>8. Active(r, c)' => Active(r, c) /\ reqs'[r].using = reqs[r].using /\ grants[reqs'[r].grant] = c
  BY <1>1, <1>2, <1>5 DEF RotateEffect, Active, Idle
<1> QED BY <1>1, <1>5, <1>7, <1>8, RetryMoves DEF RotateEffect

LEMMA RetrySealedOther ==
    ASSUME TInv, NEW c \in Clients, RetryOf(c), NEW r \in Requests, reqs[r].client # c, RefreshSeal(r) PROVE RetryOf(c)'
<1>1. SealEffect(r)
  BY SealDoes
<1>2. PICK u \in Pairs : u = reqs[r].using
  BY <1>1 DEF SealEffect
<1>3. Absent(u) \/ grants[refresh[u].grant] # c
  <2>1. Minting(r) /\ u # 0
    BY <1>1 DEF SealEffect, Minting, Pairs
  <2>2. Absent(u) \/ refresh[u].grant = reqs[r].grant
    BY <1>2, <2>1, Unpacked DEF Stage
  <2>3. grants[reqs[r].grant] \in {reqs[r].client, None} /\ c # None
    BY <2>1, Unpacked DEF Stage
  <2> QED BY <2>2, <2>3
<1>4. \A p \in Pairs : ~Absent(p) /\ grants[refresh[p].grant] = c => refresh'[p] = refresh[p]
  BY <1>1, <1>2, <1>3 DEF SealEffect
<1>5. \A p \in Pairs : Absent(p)' = Absent(p) /\ (~Absent(p) => refresh'[p].grant = refresh[p].grant)
  BY <1>1 DEF SealEffect, Absent
<1>6. Kept(c)
  <2>1. \A p \in Pairs : ~Absent(p)' /\ grants'[refresh'[p].grant] = c => ~refresh'[p].expired
    BY <1>1, <1>4, <1>5 DEF RetryOf, SealEffect
  <2>2. \A t \in Pairs : Fresh(c, t) => Fresh(c, t)'
    BY <1>1, <1>4 DEF Fresh, Live, Absent, SealEffect
  <2>3. \A t \in Pairs : Repeatable(c, t) => Repeatable(c, t)' /\ refresh'[t].replay = refresh[t].replay
    BY <1>1, <1>4 DEF Repeatable, Absent, SealEffect
  <2> QED BY <2>1, <2>2, <2>3 DEF Kept
<1>7. ~Active(r, c)'
  BY <1>1 DEF SealEffect, Active
<1> QED BY <1>1, <1>6, <1>7, RetryMoves DEF SealEffect

\* The client's own seal: the answer of the used token can be repeated now.
LEMMA RetrySealed ==
    ASSUME TInv, NEW c \in Clients, RetryOf(c), NEW r \in Requests, reqs[r].client = c, RefreshSeal(r) PROVE RetryOf(c)'
<1>1. SealEffect(r)
  BY SealDoes
<1>2. PICK u \in Pairs : u = reqs[r].using
  BY <1>1 DEF SealEffect
<1>3. PICK n : n = reqs[r].pair
  OBVIOUS
<1>4. Active(r, c) /\ u # 0 /\ Uses(c, u)
  BY <1>1, <1>2 DEF SealEffect, Active, Idle, Pairs, Uses
<1>5. Fresh(c, n) /\ ~Uses(c, n) /\ n \in Pairs /\ n # u
  BY <1>1, <1>3, <1>4 DEF SealEffect, RetryOf, Fresh
<1>6. ~Absent(u) /\ grants[refresh[u].grant] = c
  BY <1>2, <1>4 DEF RetryOf, Fresh, Repeats, Repeatable, Live, Absent
<1>7. /\ refresh'[u].state = "replaced" /\ refresh'[u].replay = n /\ refresh'[u].grace
      /\ refresh'[u].grant = refresh[u].grant /\ refresh'[u].expired = refresh[u].expired
      /\ \A p \in Pairs : p # u => refresh'[p] = refresh[p]
      /\ grants' = grants /\ held' = held
  BY <1>1, <1>2, <1>3, <1>6 DEF SealEffect
<1>8. \A s \in Requests : /\ Active(s, c)' <=> Active(s, c)
                          /\ reqs'[s].using = reqs[s].using
                          /\ s # r => reqs'[s] = reqs[s]
  BY <1>1 DEF SealEffect, Active, Idle
<1>9. \A t : Uses(c, t)' <=> Uses(c, t)
  BY <1>8 DEF Uses
<1>10. \A t \in Pairs : t # u /\ Fresh(c, t) => Fresh(c, t)'
  BY <1>7 DEF Fresh, Live
<1>11. Repeats(c, u)'
  <2>1. Repeatable(c, u)'
    BY <1>5, <1>6, <1>7 DEF Repeatable
  <2>2. Fresh(c, n)' /\ ~Uses(c, n)'
    BY <1>5, <1>9, <1>10
  <2>3. Fresh(c, refresh[u].replay)' /\ ~Uses(c, refresh[u].replay)'
    BY <1>7, <2>2 DEF Fresh, Uses, Active, Live
  <2> QED BY <2>1, <2>3 DEF Repeats
<1>12. PICK h : h = held[c]
  OBVIOUS
<1>13. (u = h \/ Fresh(c, h)) /\ held'[c] = h
  BY <1>2, <1>4, <1>7, <1>12 DEF RetryOf
<1>14. h = u \/ Fresh(c, h)'
  BY <1>10, <1>13 DEF Fresh
<1>15. \A p \in Pairs : ~Absent(p)' /\ grants'[refresh'[p].grant] = c => ~refresh'[p].expired
  <2>1. \A p \in Pairs : ~Absent(p)' => ~Absent(p) /\ refresh'[p].grant = refresh[p].grant /\ refresh'[p].expired = refresh[p].expired
    BY <1>6, <1>7 DEF Absent
  <2> QED BY <1>7, <2>1 DEF RetryOf
<1>16. \A s \in Requests : Active(s, c)' /\ (Minting(s)' \/ reqs'[s].pc = "issuing") => grants'[reqs'[s].grant] = c
  BY <1>1, <1>7, <1>8 DEF RetryOf, Minting, SealEffect
<1>17. \A s \in Requests : Active(s, c)' /\ reqs'[s].using # 0 => reqs'[s].using = u
  BY <1>2, <1>4, <1>8 DEF RetryOf
<1>18. \A s \in Requests : (Active(s, c) /\ reqs[s].using # 0 =>
          /\ Fresh(c, reqs[s].using) \/ Repeats(c, reqs[s].using)
          /\ reqs[s].using = held[c] \/ Fresh(c, held[c]))'
  <2> SUFFICES ASSUME NEW s \in Requests, Active(s, c)', reqs'[s].using # 0
               PROVE  Repeats(c, reqs[s].using)' /\ (reqs[s].using = held[c] \/ Fresh(c, held[c]))'
    OBVIOUS
  <2>1. reqs'[s].using = u
    BY <1>17
  <2>2. Repeats(c, reqs[s].using)'
    BY <1>11, <2>1 DEF Repeats, Repeatable, Fresh, Live, Uses, Active
  <2>3. (reqs[s].using = held[c] \/ Fresh(c, held[c]))'
    BY <1>13, <1>14, <2>1 DEF Fresh, Live
  <2> QED BY <2>2, <2>3
<1>19. (held[c] # 0 => Fresh(c, held[c]) \/ Repeats(c, held[c]))'
  <2>1. Fresh(c, h)' \/ Repeats(c, h)'
    BY <1>11, <1>14
  <2> QED BY <1>13, <2>1 DEF Fresh, Repeats, Repeatable, Live, Uses, Active
<1>20. \A s \in Requests : (Active(s, c) /\ reqs[s].pc \in {"sealing", "answered"} => Fresh(c, reqs[s].pair) /\ ~Uses(c, reqs[s].pair))'
  <2> SUFFICES ASSUME NEW s \in Requests, Active(s, c)', reqs'[s].pc \in {"sealing", "answered"}
               PROVE  Fresh(c, reqs[s].pair)' /\ ~Uses(c, reqs[s].pair)'
    OBVIOUS
  <2>1. reqs[s].pc \in {"sealing", "answered"} /\ reqs'[s].pair = reqs[s].pair
    BY <1>1, <1>8 DEF SealEffect
  <2>2. PICK z \in Pairs : z = reqs[s].pair
    BY <1>8, <2>1 DEF RetryOf, Fresh
  <2>3. Fresh(c, z) /\ ~Uses(c, z)
    BY <1>8, <2>1, <2>2 DEF RetryOf
  <2>4. Fresh(c, z)' /\ ~Uses(c, z)' /\ reqs'[s].pair = z
    BY <1>4, <1>9, <1>10, <2>1, <2>2, <2>3
  <2> QED BY <2>4 DEF Fresh, Live, Uses, Active
<1>21. \A s, v \in Requests : Active(s, c)' /\ Active(v, c)' /\ reqs'[s].using # 0 /\ reqs'[v].using # 0 => reqs'[s].using = reqs'[v].using
  BY <1>17
<1> QED BY <1>15, <1>16, <1>18, <1>19, <1>20, <1>21 DEF RetryOf

\* A request of another client, or nothing of one's own, ends.
LEMMA RetryEnds ==
    ASSUME TInv, NEW c \in Clients, RetryOf(c), NEW r \in Requests, reqs' = [reqs EXCEPT ![r] = NoReq],
           UNCHANGED <<refresh, grants>>, held'[c] = held[c]
    PROVE  RetryOf(c)'
<1>1. reqs'[r] = NoReq /\ \A s \in Requests \ {r} : reqs'[s] = reqs[s]
  BY Unpacked
<1>2. ~Active(r, c)'
  BY <1>1 DEF Active, Idle, NoReq
<1> QED BY <1>1, <1>2, KeptByPurge, RetryMoves

\* The pair that arrives is fresh, and no request uses it.
LEMMA RetryDelivered == ASSUME TInv, NEW c \in Clients, RetryOf(c), NEW r \in Requests, Deliver(r) PROVE RetryOf(c)'
<1>1. /\ reqs[r].pc = "answered" /\ held' = [held EXCEPT ![reqs[r].client] = reqs[r].pair]
      /\ reqs' = [reqs EXCEPT ![r] = NoReq] /\ refresh' = refresh /\ grants' = grants
  BY DEF Deliver, tokens
<1>2. CASE reqs[r].client # c
  <2>1. held'[c] = held[c]
    BY <1>1, <1>2, Unpacked
  <2> QED BY <1>1, <2>1, RetryEnds
<1>3. CASE reqs[r].client = c
  <2>1. Active(r, c)
    BY <1>1, <1>3 DEF Active, Idle
  <2>2. PICK z \in Pairs : z = reqs[r].pair
    BY <1>1, <2>1 DEF RetryOf, Fresh
  <2>3. Fresh(c, z) /\ held'[c] = z
    BY <1>1, <1>3, <2>1, <2>2, Unpacked DEF RetryOf
  <2>4. reqs'[r] = NoReq /\ \A s \in Requests \ {r} : reqs'[s] = reqs[s]
    BY <1>1, Unpacked
  <2>5. \A s \in Requests : Active(s, c)' => Active(s, c) /\ reqs'[s] = reqs[s]
    BY <2>4 DEF Active, Idle, NoReq
  <2>6. \A t : Uses(c, t)' => Uses(c, t)
    BY <2>5 DEF Uses
  <2>7. \A t : Fresh(c, t)' <=> Fresh(c, t)
    BY <1>1 DEF Fresh, Live
  <2>8. \A t : Repeats(c, t) => Repeats(c, t)'
    BY <1>1, <2>6 DEF Repeats, Repeatable, Fresh, Live
  <2>9. (held[c] # 0 => Fresh(c, held[c]) \/ Repeats(c, held[c]))'
    BY <1>1, <2>3 DEF Fresh, Live
  <2>10. ASSUME NEW s \in Requests, Active(s, c)'
         PROVE  /\ Minting(s)' \/ reqs'[s].pc = "issuing" => grants'[reqs'[s].grant] = c
                /\ (reqs[s].using # 0 =>
                      /\ Fresh(c, reqs[s].using) \/ Repeats(c, reqs[s].using)
                      /\ reqs[s].using = held[c] \/ Fresh(c, held[c]))'
                /\ (reqs[s].pc \in {"sealing", "answered"} => Fresh(c, reqs[s].pair) /\ ~Uses(c, reqs[s].pair))'
    <3>1. Active(s, c) /\ reqs'[s] = reqs[s]
      BY <2>5, <2>10
    <3>2. Minting(s)' \/ reqs'[s].pc = "issuing" => grants'[reqs'[s].grant] = c
      BY <1>1, <3>1 DEF RetryOf, Minting
    <3>3. (reqs[s].using # 0 => Fresh(c, reqs[s].using) \/ Repeats(c, reqs[s].using))'
      <4>1. PICK v : v = reqs[s].using
        OBVIOUS
      <4>2. v # 0 => Fresh(c, v)' \/ Repeats(c, v)'
        BY <2>7, <2>8, <3>1, <4>1 DEF RetryOf
      <4> QED BY <3>1, <4>1, <4>2 DEF Fresh, Repeats, Repeatable, Live, Uses, Active
    <3>4. Fresh(c, held[c])'
      BY <1>1, <2>3 DEF Fresh, Live
    <3>5. (reqs[s].pc \in {"sealing", "answered"} => Fresh(c, reqs[s].pair) /\ ~Uses(c, reqs[s].pair))'
      <4>1. PICK v : v = reqs[s].pair
        OBVIOUS
      <4>2. reqs[s].pc \in {"sealing", "answered"} => Fresh(c, v)' /\ ~Uses(c, v)'
        BY <2>6, <2>7, <3>1, <4>1 DEF RetryOf
      <4> QED BY <3>1, <4>1, <4>2 DEF Fresh, Live, Uses, Active
    <3> QED BY <3>2, <3>3, <3>4, <3>5
  <2>11. \A s, v \in Requests : Active(s, c)' /\ Active(v, c)' /\ reqs'[s].using # 0 /\ reqs'[v].using # 0 => reqs'[s].using = reqs'[v].using
    BY <2>5 DEF RetryOf
  <2>12. \A p \in Pairs : ~Absent(p)' /\ grants'[refresh'[p].grant] = c => ~refresh'[p].expired
    BY <1>1 DEF RetryOf, Absent
  <2> QED BY <2>9, <2>10, <2>11, <2>12 DEF RetryOf
<1> QED BY <1>2, <1>3

\* A refresh begins.  A client that keeps the protocol does so with the token its other requests use.
LEMMA RetryBegun ==
    ASSUME TInv, NEW c \in Clients, RetryOf(c), c \notin careless', NEW r \in Requests, NEW d \in Clients, NEW t \in Pairs,
           RefreshBegin(r, d, t)
    PROVE  RetryOf(c)'
<1>1. BeginEffect(r, d, t)
  BY BeginDoes
<1>2. Kept(c)
  BY <1>1, KeptByPurge DEF BeginEffect
<1>3. CASE d # c
  <2>1. ~Active(r, c)'
    BY <1>1, <1>3 DEF BeginEffect, Active
  <2> QED BY <1>1, <1>2, <2>1, RetryMoves DEF BeginEffect
<1>4. CASE d = c
  <2>1. t = held[c] /\ \A s \in Requests : Active(s, c) => reqs[s].using = t
    BY <1>1, <1>4 DEF BeginEffect, Behaves, Active
  <2>2. /\ reqs'[r].pc = "reading" /\ reqs'[r].using = t /\ \A s \in Requests \ {r} : reqs'[s] = reqs[s]
        /\ grants' = grants /\ held'[c] = t /\ Idle(r) /\ t # 0
    BY <1>1, <2>1 DEF BeginEffect
  <2>3. \A s \in Requests : Active(s, c)' => s = r \/ (Active(s, c) /\ reqs'[s] = reqs[s])
    BY <2>2 DEF Active, Idle
  <2>4. \A s \in Requests : Active(s, c)' => reqs'[s].using = t
    BY <2>1, <2>2, <2>3
  <2>5. Fresh(c, t) \/ Repeats(c, t)
    BY <2>1, <2>2 DEF RetryOf
  <2>6. Fresh(c, t)' \/ Repeats(c, t)'
    <3>1. CASE Fresh(c, t)
      BY <1>2, <3>1 DEF Kept
    <3>2. CASE Repeats(c, t)
      <4>1. PICK z \in Pairs : z = refresh[t].replay
        BY <3>2 DEF Repeats, Repeatable
      <4>2. Fresh(c, z) /\ z # t
        BY <3>2, <4>1 DEF Repeats, Repeatable, Fresh, Live
      <4>3. Repeatable(c, t)' /\ refresh'[t].replay = z /\ Fresh(c, z)'
        BY <1>2, <2>1, <3>2, <4>1, <4>2 DEF Kept, Repeats
      <4>4. ~Uses(c, z)'
        BY <2>4, <4>2 DEF Uses
      <4>5. Fresh(c, refresh[t].replay)' /\ ~Uses(c, refresh[t].replay)'
        BY <4>3, <4>4 DEF Fresh, Live, Uses, Active
      <4> QED BY <4>3, <4>5 DEF Repeats
    <3> QED BY <2>5, <3>1, <3>2
  <2>7. (held[c] # 0 => Fresh(c, held[c]) \/ Repeats(c, held[c]))'
    BY <2>2, <2>6 DEF Fresh, Repeats, Repeatable, Live, Uses, Active
  <2>8. ASSUME NEW s \in Requests, Active(s, c)'
        PROVE  /\ Minting(s)' \/ reqs'[s].pc = "issuing" => grants'[reqs'[s].grant] = c
               /\ (reqs[s].using # 0 =>
                     /\ Fresh(c, reqs[s].using) \/ Repeats(c, reqs[s].using)
                     /\ reqs[s].using = held[c] \/ Fresh(c, held[c]))'
               /\ (reqs[s].pc \in {"sealing", "answered"} => Fresh(c, reqs[s].pair) /\ ~Uses(c, reqs[s].pair))'
    <3>1. Minting(s)' \/ reqs'[s].pc = "issuing" => grants'[reqs'[s].grant] = c
      BY <2>2, <2>3, <2>8 DEF RetryOf, Minting
    <3>2. (reqs[s].using # 0 =>
             /\ Fresh(c, reqs[s].using) \/ Repeats(c, reqs[s].using)
             /\ reqs[s].using = held[c] \/ Fresh(c, held[c]))'
      BY <2>2, <2>4, <2>6, <2>8 DEF Fresh, Repeats, Repeatable, Live, Uses, Active
    <3>3. ASSUME reqs'[s].pc \in {"sealing", "answered"} PROVE Fresh(c, reqs[s].pair)' /\ ~Uses(c, reqs[s].pair)'
      <4>1. Active(s, c) /\ reqs'[s] = reqs[s]
        BY <2>2, <2>3, <2>8, <3>3
      <4>2. PICK z \in Pairs : z = reqs[s].pair
        BY <3>3, <4>1 DEF RetryOf, Fresh
      <4>3. Fresh(c, z) /\ ~Uses(c, z)
        BY <3>3, <4>1, <4>2 DEF RetryOf
      <4>4. z # t
        BY <2>1, <4>1, <4>3 DEF Uses
      <4>5. Fresh(c, z)' /\ ~Uses(c, z)'
        BY <1>2, <2>4, <4>3, <4>4 DEF Kept, Uses
      <4> QED BY <4>1, <4>2, <4>5 DEF Fresh, Live, Uses, Active
    <3> QED BY <3>1, <3>2, <3>3
  <2>9. \A p \in Pairs : ~Absent(p)' /\ grants'[refresh'[p].grant] = c => ~refresh'[p].expired
    BY <1>2 DEF Kept
  <2>10. \A s, v \in Requests : Active(s, c)' /\ Active(v, c)' /\ reqs'[s].using # 0 /\ reqs'[v].using # 0 => reqs'[s].using = reqs'[v].using
    BY <2>4
  <2> QED BY <2>7, <2>8, <2>9, <2>10 DEF RetryOf
<1> QED BY <1>3, <1>4

\* The token whose grace or life ends is not one that client c relies on.
LEMMA RetryAges ==
    ASSUME TInv, NEW c \in Clients, RetryOf(c), c \notin careless', NEW p \in Pairs, AgeEffect(p)
    PROVE  RetryOf(c)'
<1>1. /\ \A x \in Pairs : x # p => refresh'[x] = refresh[x]
      /\ refresh'[p].state = refresh[p].state /\ refresh'[p].grant = refresh[p].grant /\ refresh'[p].replay = refresh[p].replay
      /\ UNCHANGED <<grants, reqs, held>>
  BY DEF AgeEffect
<1>2. \/ refresh'[p].expired = refresh[p].expired /\ ~(p = held[c] \/ Uses(c, p))
      \/ refresh'[p].grace = refresh[p].grace /\ grants[refresh[p].grant] # c
  <2>1. c \notin Relying(p) => ~(p = held[c] \/ Uses(c, p))
    BY DEF Relying, Uses, Active
  <2> QED BY <2>1 DEF AgeEffect
<1>3. Kept(c)
  <2>1. \A x \in Pairs : ~Absent(x)' /\ grants'[refresh'[x].grant] = c => ~refresh'[x].expired
    <3>1. \A x \in Pairs : Absent(x)' <=> Absent(x)
      BY <1>1 DEF Absent
    <3> QED BY <1>1, <1>2, <3>1 DEF RetryOf
  <2>2. \A t \in Pairs : Fresh(c, t) => Fresh(c, t)'
    BY <1>1 DEF Fresh, Live
  <2>3. \A t \in Pairs : Repeatable(c, t) /\ (t = held[c] \/ Uses(c, t)) => Repeatable(c, t)' /\ refresh'[t].replay = refresh[t].replay
    BY <1>1, <1>2 DEF Repeatable
  <2> QED BY <2>1, <2>2, <2>3 DEF Kept
<1> QED BY <1>1, <1>3, RetryRest

\* The grant that is revoked is another client's.
LEMMA RetryDeleted ==
    ASSUME TInv, NEW c \in Clients, RetryOf(c), c \notin careless', NEW g \in Grants, grantRevoke(g)
    PROVE  RetryOf(c)'
<1>1. Deleted({g}) /\ grants[g] # c /\ reqs' = reqs /\ held' = held
  BY DEF grantRevoke
<1>2. /\ \A x \in Grants : grants'[x] = IF x = g THEN None ELSE grants[x]
      /\ \A p \in Pairs : refresh'[p] = IF refresh[p].grant = g THEN NoRefresh ELSE refresh[p]
  BY <1>1, DeleteGrants
<1>3. \A x \in Grants : grants[x] = c => grants'[x] = c
  BY <1>1, <1>2
<1>4. \A p \in Pairs : ~Absent(p) /\ grants[refresh[p].grant] = c => refresh'[p] = refresh[p] /\ grants'[refresh[p].grant] = c
  BY <1>1, <1>2, <1>3, RowNumbers
<1>5. Kept(c)
  <2>1. ASSUME NEW p \in Pairs, ~Absent(p)', grants'[refresh'[p].grant] = c PROVE ~refresh'[p].expired
    <3>1. refresh'[p] = refresh[p] /\ ~Absent(p)
      BY <1>2, <2>1 DEF Absent, NoRefresh
    <3>2. PICK x \in Grants : x = refresh[p].grant
      BY <3>1, RowNumbers
    <3>3. grants[x] = c
      BY <1>2, <2>1, <3>1, <3>2
    <3> QED BY <3>1, <3>2, <3>3 DEF RetryOf
  <2>2. \A t \in Pairs : Fresh(c, t) => Fresh(c, t)'
    BY <1>4 DEF Fresh, Live, Absent
  <2>3. \A t \in Pairs : Repeatable(c, t) => Repeatable(c, t)' /\ refresh'[t].replay = refresh[t].replay
    BY <1>4 DEF Repeatable, Absent
  <2> QED BY <2>1, <2>2, <2>3 DEF Kept
<1>6. \A s \in Requests : Minting(s) \/ reqs[s].pc = "issuing" => reqs[s].grant \in Grants
  BY Unpacked DEF Stage, Grants
<1>7. ASSUME NEW s \in Requests, Active(s, c)'
      PROVE  /\ Active(s, c) /\ reqs'[s].using = reqs[s].using
             /\ Minting(s)' \/ reqs'[s].pc = "issuing" => grants'[reqs'[s].grant] = c
             /\ reqs'[s].pc \in {"sealing", "answered"} => \E z \in Pairs : reqs'[s].pair = z /\ Fresh(c, z)' /\ ~Uses(c, z)
  <2>1. Active(s, c) /\ reqs'[s] = reqs[s] /\ (Minting(s)' <=> Minting(s))
    BY <1>1, <1>7 DEF Active, Idle, Minting
  <2>2. Minting(s) \/ reqs[s].pc = "issuing" => grants'[reqs[s].grant] = c
    BY <1>3, <1>6, <2>1 DEF RetryOf
  <2>3. ASSUME reqs[s].pc \in {"sealing", "answered"}
        PROVE  \E z \in Pairs : reqs[s].pair = z /\ Fresh(c, z)' /\ ~Uses(c, z)
    <3>1. PICK z \in Pairs : z = reqs[s].pair
      BY <2>1, <2>3 DEF RetryOf, Fresh
    <3> QED BY <1>5, <2>1, <2>3, <3>1 DEF RetryOf, Kept
  <2> QED BY <2>1, <2>2, <2>3
<1>8. Calm(c)
  BY <1>1, <1>7 DEF Calm
<1> QED BY <1>5, <1>8, RetryKept

LEMMA RetryStep == ASSUME TInv, FamilyInv, RetryInv, [Next]_vars PROVE RetryInv'
<1> SUFFICES ASSUME NEW c \in Clients, c \notin careless' PROVE RetryOf(c)'
  BY DEF RetryInv
<1>1. c \notin careless => RetryOf(c)
  BY DEF RetryInv
<1>2. ASSUME NEW d \in Clients, handleRegister(d) \/ handleAuthorize(d) \/ ClientAges(d) PROVE RetryOf(c)'
  <2>1. /\ purge \/ refresh' = refresh
        /\ UNCHANGED <<grants, reqs, held, careless>>
    BY <1>2 DEF handleRegister, clientRegister, handleAuthorize, ClientAges, tokens, history
  <2> QED BY <1>1, <2>1, KeptByPurge, RetryRest
<1>3. ASSUME NEW r \in Requests, NEW d \in Clients, NEW k \in Codes, ExchangeBegin(r, d, k) PROVE RetryOf(c)'
  <2>1. /\ reqs'[r] = [NoReq EXCEPT !.pc = "consuming", !.client = d, !.code = k] /\ \A s \in Requests \ {r} : reqs'[s] = reqs[s]
        /\ UNCHANGED <<refresh, grants, held, careless>>
    BY <1>3, Unpacked DEF ExchangeBegin, tokens, history
  <2>2. reqs'[r].pc = "consuming" /\ reqs'[r].using = 0
    BY <2>1 DEF NoReq
  <2>3. ~Minting(r)'
    BY <2>2 DEF Minting
  <2>4. Kept(c)
    BY <1>1, <2>1, KeptByPurge
  <2> QED BY <1>1, <2>1, <2>2, <2>3, <2>4, RetryMoves
<1>4. ASSUME NEW r \in Requests, ExchangeConsume(r) PROVE RetryOf(c)'
  <2>1. /\ \/ reqs' = [reqs EXCEPT ![r] = NoReq]
           \/ reqs' = [reqs EXCEPT ![r].pc = "ensuring"]
        /\ reqs[r].pc = "consuming"
        /\ UNCHANGED <<refresh, grants, held, careless>>
    BY <1>4 DEF ExchangeConsume, history, tokens
  <2>2. CASE reqs' = [reqs EXCEPT ![r] = NoReq]
    BY <1>1, <2>1, <2>2, RetryEnds
  <2>3. CASE reqs' = [reqs EXCEPT ![r].pc = "ensuring"]
    <3>1. /\ reqs'[r].pc = "ensuring" /\ reqs'[r].using = reqs[r].using /\ reqs'[r].client = reqs[r].client
          /\ \A s \in Requests \ {r} : reqs'[s] = reqs[s]
      BY <2>3, Unpacked DEF Reqs
    <3>2. ~Minting(r)' /\ (Active(r, c)' => Active(r, c))
      BY <2>1, <3>1 DEF Minting, Active, Idle
    <3>3. Kept(c)
      BY <1>1, <2>1, KeptByPurge
    <3> QED BY <1>1, <2>1, <3>1, <3>2, <3>3, RetryMoves
  <2> QED BY <2>1, <2>2, <2>3
<1>5. ASSUME NEW r \in Requests, grantEnsure(r) \/ tokensIssue(r) \/ MintAccess(r) \/ MintRefresh(r) PROVE RetryOf(c)'
  <2>1. careless' = careless
    BY <1>5 DEF grantEnsure, tokensIssue, MintAccess, MintRefresh, history
  <2> QED BY <1>1, <1>5, <2>1, RetryEnsured, RetryIssued, RetryMintAccess, RetryMinted
<1>6. ASSUME NEW r \in Requests, NEW d \in Clients, NEW t \in Pairs, RefreshBegin(r, d, t) PROVE RetryOf(c)'
  <2>1. c \notin careless
    BY <1>6 DEF RefreshBegin
  <2> QED BY <1>1, <1>6, <2>1, RetryBegun
<1>7. ASSUME NEW r \in Requests, RefreshUnknown(r) \/ Lose(r) PROVE RetryOf(c)'
  <2>1. reqs' = [reqs EXCEPT ![r] = NoReq] /\ UNCHANGED <<refresh, grants, held, careless>>
    BY <1>7 DEF RefreshUnknown, Lose, history, tokens
  <2> QED BY <1>1, <2>1, RetryEnds
<1>8. ASSUME NEW r \in Requests, RefreshReplays(r) \/ RefreshRevokes(r) \/ RefreshRotates(r) \/ RefreshSeal(r) \/ Deliver(r)
      PROVE  RetryOf(c)'
  <2>1. careless' = careless
    BY <1>8 DEF RefreshReplays, RefreshRevokes, RefreshRotates, RefreshSeal, Deliver, history
  <2>2. RetryOf(c)
    BY <1>1, <2>1
  <2> QED BY <1>8, <2>2, RetryRepeated, RetryRevokes, RetryRotated, RetrySealed, RetrySealedOther, RetryDelivered
<1>9. ASSUME NEW d \in Clients, NEW t \in Pairs, RevokeRefresh(d, t) PROVE RetryOf(c)'
  <2>1. c \notin careless /\ d # c
    BY <1>9 DEF RevokeRefresh
  <2> QED BY <1>1, <1>9, <2>1, RetryRevoked
<1>10. ASSUME NEW d \in Clients, NEW t \in Pairs, RevokeAccess(d, t) PROVE RetryOf(c)'
  BY <1>1, <1>10, KeptByPurge, RetryRest DEF RevokeAccess, history
<1>11. ASSUME NEW p \in Pairs, GraceEnds(p) \/ ExpireRefresh(p) PROVE RetryOf(c)'
  <2>1. c \notin careless
    BY <1>11 DEF GraceEnds, ExpireRefresh
  <2> QED BY <1>1, <1>11, <2>1, AgeDoes, RetryAges
<1>12. ASSUME NEW p \in Pairs, ExpireAccess(p) PROVE RetryOf(c)'
  BY <1>1, <1>12, KeptByPurge, RetryRest DEF ExpireAccess
<1>13. ASSUME NEW k \in Codes, CodeExpires(k) PROVE RetryOf(c)'
  BY <1>1, <1>13, KeptByPurge, RetryRest DEF CodeExpires, tokens, history
<1>14. ASSUME NEW g \in Grants, grantRevoke(g) PROVE RetryOf(c)'
  <2>1. c \notin careless
    BY <1>14 DEF grantRevoke
  <2> QED BY <1>1, <1>14, <2>1, RetryDeleted
<1>15. ASSUME grantRevokeAll PROVE RetryOf(c)'
  BY <1>15 DEF grantRevokeAll
<1>16. ASSUME grantList \/ UNCHANGED vars PROVE RetryOf(c)'
  BY <1>1, <1>16, KeptByPurge, RetryRest DEF grantList, vars, history
<1> QED BY <1>2, <1>3, <1>4, <1>5, <1>6, <1>7, <1>8, <1>9, <1>10, <1>11, <1>12, <1>13, <1>14, <1>15, <1>16, Expiry
        DEF Next, handleToken, handleRevoke, Time

-----------------------------------------------------------------------------
(* The inductive invariant, and what follows from it *)

LEMMA IInit == Init => IInv
<1> SUFFICES ASSUME Init PROVE IInv
  OBVIOUS
<1>1. CodeInv
  BY DEF Init, CodeInv, CodeOnce, Holding, NoReq
<1>2. FamilyInv
  BY DEF Init, FamilyInv, Claim, Absent, NoRefresh, NoAccess, Minting, NoReq
<1>3. LiveInv
  BY DEF Init, LiveInv, Live, NoRefresh, Minting, NoReq
<1>4. RetryInv
  <2> SUFFICES ASSUME NEW c \in Clients PROVE RetryOf(c)
    BY DEF RetryInv
  <2>1. \A p \in Pairs : Absent(p)
    BY DEF Init, Absent, NoRefresh
  <2>2. \A s \in Requests : ~Active(s, c)
    BY DEF Init, Active, Idle, NoReq
  <2>3. held[c] = 0
    BY DEF Init
  <2> QED BY <2>1, <2>2, <2>3 DEF RetryOf
<1> QED BY TInit, <1>1, <1>2, <1>3, <1>4 DEF IInv

LEMMA IStep == ASSUME IInv, [Next]_vars PROVE IInv'
BY TStep, CodeStep, FamilyStep, LiveStep, RetryStep DEF IInv

LEMMA Inductive == Spec => []IInv
BY IInit, IStep, PTL DEF Spec

LEMMA OneLive == ASSUME IInv PROVE OneLiveRefresh
<1> SUFFICES ASSUME NEW p \in Pairs, NEW q \in Pairs, p # q, Live(p), Live(q), refresh[p].family = refresh[q].family,
                    refresh[p].family \notin crowded
             PROVE  \E r \in Requests : reqs[r].pc = "sealing" /\ reqs[r].using \in {p, q}
  BY DEF OneLiveRefresh, Live
<1>1. PICK r \in Requests : Minting(r) /\ reqs[r].family = refresh[p].family
  BY DEF IInv, LiveInv
<1>2. ASSUME NEW t \in {p, q} PROVE t = reqs[r].using \/ (reqs[r].pc = "sealing" /\ t = reqs[r].pair)
  <2>1. t \in Pairs /\ Live(t) /\ refresh[t].family = reqs[r].family /\ reqs[r].family \notin crowded
    BY <1>1
  <2> QED BY <1>1, <2>1 DEF IInv, LiveInv
<1> QED BY <1>2

LEMMA Ended == ASSUME IInv PROVE SessionEnds
<1> SUFFICES ASSUME NEW f \in ended \ crowded, NEW p \in Pairs
             PROVE  /\ access[p].family = f => ~accessTokenResolve(p)
                    /\ refresh[p].family = f => grants[refresh[p].grant] = None
  BY DEF SessionEnds
<1>1. f \in 1..lastPair /\ f \in Pairs /\ f # 0
  BY Unpacked DEF IInv, Types, Pairs
<1>2. ASSUME access[p].family = f, access[p].state = "live" PROVE grants[access[p].grant] = None
  <2>1. PICK g \in Grants : g = access[p].grant
    BY <1>2, Unpacked DEF IInv, Counted, Grants
  <2>2. Claim(f, g)
    BY <1>2, <2>1 DEF Claim
  <2> QED BY <1>1, <2>1, <2>2 DEF IInv, FamilyInv
<1>3. ASSUME refresh[p].family = f PROVE grants[refresh[p].grant] = None
  <2>1. ~Absent(p)
    BY <1>1, <1>3, Unpacked DEF IInv, Counted, NoRefresh
  <2>2. PICK g \in Grants : g = refresh[p].grant
    BY <2>1, RowNumbers DEF IInv
  <2>3. Claim(f, g)
    BY <1>3, <2>1, <2>2 DEF Claim
  <2> QED BY <1>1, <2>2, <2>3 DEF IInv, FamilyInv
<1> QED BY <1>2, <1>3 DEF accessTokenResolve

LEMMA Retried == ASSUME IInv PROVE RetrySafe
<1> SUFFICES ASSUME NEW c \in Clients, held[c] # 0, c \notin careless
             PROVE  \/ Usable(c, held[c])
                    \/ /\ refresh[held[c]].state = "replaced" /\ refresh[held[c]].grace /\ refresh[held[c]].replay # 0
                       /\ ~refresh[held[c]].expired /\ grants[refresh[held[c]].grant] = c /\ Usable(c, refresh[held[c]].replay)
  BY DEF RetrySafe
<1>1. RetryOf(c) /\ (Fresh(c, held[c]) \/ Repeats(c, held[c]))
  BY DEF IInv, RetryInv, RetryOf
<1>2. \A t \in Pairs : Fresh(c, t) => Usable(c, t)
  BY <1>1 DEF RetryOf, Fresh, Live, Absent, Usable
<1>3. CASE Fresh(c, held[c])
  BY <1>2, <1>3 DEF Fresh
<1>4. CASE Repeats(c, held[c])
  <2>1. PICK t \in Pairs : t = held[c]
    BY <1>4 DEF Repeats, Repeatable
  <2>2. PICK z \in Pairs : z = refresh[t].replay
    BY <1>4, <2>1 DEF Repeats, Repeatable
  <2>3. Repeatable(c, t) /\ Usable(c, z) /\ z # 0
    BY <1>2, <1>4, <2>1, <2>2 DEF Repeats, Pairs
  <2>4. ~refresh[t].expired
    BY <1>1, <2>3 DEF RetryOf, Repeatable, Absent
  <2> QED BY <2>1, <2>2, <2>3, <2>4 DEF Repeatable
<1> QED BY <1>1, <1>3, <1>4

(***************************************************************************)
(* Every table of the OAuth store keeps its shape, and rows of             *)
(* oauth_tokens exist only for numbers that mintPair gave out              *)
(* (oauth/server-store.ts).                                                *)
(***************************************************************************)
THEOREM TypeCorrect == Spec => []TypeOK
<1>1. IInv => TypeOK
  BY DEF IInv, TInv, Types
<1> QED BY <1>1, Inductive, PTL

(***************************************************************************)
(* A code buys one family of tokens (codeConsume); a family has one live   *)
(* refresh token but for the moment when tokensRefresh replaces it, unless *)
(* two requests refreshed it at once or it was revoked under one; and once *)
(* familyRevoke or grantRevoke ended it, none of its tokens works, also    *)
(* one that mintPair stores later.                                         *)
(***************************************************************************)
THEOREM FamiliesAreSound == Spec => []FamilySound
<1>1. IInv => FamilySound
  BY OneLive, Ended DEF IInv, CodeInv, FamilySound
<1> QED BY <1>1, Inductive, PTL

(***************************************************************************)
(* A client that refreshes with the pair it received last, and retries     *)
(* within the grace, is never logged out by a lost answer: tokensRefresh   *)
(* repeats the answer it kept.                                             *)
(***************************************************************************)
THEOREM RetriesAreSafe == Spec => []RetrySafe
<1>1. IInv => RetrySafe
  BY Retried
<1> QED BY <1>1, Inductive, PTL
=============================================================================
