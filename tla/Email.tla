------------------------------- MODULE Email -------------------------------
(***************************************************************************)
(* Mail of the users of one deployment.                                    *)
(*                                                                         *)
(* Inbound: an SMTP sender offers a message to the mail bridge, which posts *)
(* it to the Worker and turns the answer into the SMTP reply; the sender   *)
(* tries again after a temporary failure.  The Worker serves one recipient *)
(* after the other: registry cell, classification and storage are calls of *)
(* their own, and a post the bridge gave up on runs on.                    *)
(*                                                                         *)
(* Outbound: the message is stored, given to the bridge, indexed in the    *)
(* registry and marked; the bridge delivers on its own and reports back.   *)
(* Destinations: the addresses a user may send to, with their codes.       *)
(***************************************************************************)
EXTENDS Integers, Sequences, FiniteSets

CONSTANTS Users,
          Locals,        \* names of inboxes on the domain
          Mails,         \* inbound messages
          Anonymous,     \* those without a Message-ID
          Large,         \* those over the limit of a stored message
          Recipients,    \* the names each message is addressed to, in order
          Posts,         \* inbound requests under way
          Outs,          \* outbound messages
          Addresses,     \* destinations outside the domain
          None,
          MaxTries,      \* bound: attempts of the sender per message
          MaxReceives,   \* KODY_QUOTA_EMAIL_RECEIVES_PER_DAY
          MaxCodes       \* bound: codes issued

\* A message names inboxes of the domain; nobody is not a user, and a destination is not an inbox.
EmailConstants ==
    /\ None \notin Users \cup Addresses /\ Addresses \cap Locals = {}
    /\ Recipients \in [Mails -> Seq(Locals)] /\ MaxReceives \in Nat /\ IsFiniteSet(Posts)

VARIABLES inbox,      \* inbox_locals: the owner of each name
          quarantines,\* users with a rule that quarantines the sender
          rows,       \* email_messages, inbound: copies each user has of each message
          class,      \* the classification of the row
          received,   \* usage_daily.email_receives of today
          sender,     \* the SMTP sender: "open", "accepted", "refused" or "too_large"
          tries,
          posts,
          everStored, \* history: the messages some user has had
          moved,      \* history: messages whose recipients changed after the first attempt
          faulted,    \* history: messages one of whose calls to store them failed
          outs,       \* outbound messages with the call that sends them
          index,      \* outbound_email_index
          wire,       \* the message at the bridge and the report about it
          dests,      \* email_destinations of one user
          lastCode,
          verifying,  \* calls of emailDestinationVerify that have read their row
          proven      \* history: the addresses one of whose codes was typed in

inVars == <<inbox, quarantines, rows, class, received, sender, tries, posts, everStored, moved, faulted>>
outVars == <<outs, index, wire>>
destVars == <<dests, lastCode, verifying, proven>>
vars == <<inVars, outVars, destVars>>

NoPost == [pc |-> "idle", mail |-> None, todo |-> <<>>, user |-> None, seen |-> {}, class |-> "inbox",
           accepted |-> FALSE, reasons |-> {}, waiting |-> FALSE]
NoOut == [pc |-> "none", user |-> None, local |-> None, to |-> None, status |-> "none"]
AtBridge == [state |-> "none", outcome |-> "none", early |-> FALSE]
NoDest == [known |-> FALSE, verified |-> FALSE, default |-> FALSE, code |-> 0]

----------------------------------------------------------------------------
(* Inbound *)

At(p, pc) == posts[p].pc = pc
Waits(m) == \E p \in Posts : posts[p].mail = m /\ posts[p].waiting
Named(m) == {Recipients[m][n] : n \in 1..Len(Recipients[m])}

\* onData, forwardToKody: the sender waits for the reply before it tries again.
Forward(p, m) ==
    /\ At(p, "idle") /\ sender[m] = "open" /\ ~Waits(m) /\ tries[m] < MaxTries
    /\ tries' = [tries EXCEPT ![m] = @ + 1]
    /\ posts' = [posts EXCEPT ![p] = [NoPost EXCEPT !.pc = "resolve", !.mail = m, !.todo = Recipients[m], !.waiting = TRUE]]
    /\ UNCHANGED <<inbox, quarantines, rows, class, received, sender, everStored, moved, faulted, outVars, destVars>>

\* The bridge gives up after its timeout and answers 451; the post runs on.
ForwardTimesOut(p) ==
    /\ posts[p].waiting
    /\ posts' = [posts EXCEPT ![p].waiting = FALSE]
    /\ UNCHANGED <<inbox, quarantines, rows, class, received, sender, tries, everStored, moved, faulted, outVars, destVars>>

Crash(p) ==
    /\ ~At(p, "idle")
    /\ posts' = [posts EXCEPT ![p] = NoPost]
    /\ UNCHANGED <<inbox, quarantines, rows, class, received, sender, tries, everStored, moved, faulted, outVars, destVars>>

Skipped(p, reason) == [posts[p] EXCEPT !.todo = Tail(@), !.reasons = @ \cup reason, !.pc = "resolve"]

\* One user with two of the names gets the message once.
inboxResolve(p) ==
    LET user == inbox[Head(posts[p].todo)]
    IN  /\ At(p, "resolve") /\ posts[p].todo # <<>>
        /\ posts' = [posts EXCEPT ![p] =
             IF user = None THEN Skipped(p, {"no_inbox"})
             ELSE IF user \in posts[p].seen THEN Skipped(p, {})
             ELSE [posts[p] EXCEPT !.pc = "classify", !.user = user, !.seen = @ \cup {user}]]
        /\ UNCHANGED <<inbox, quarantines, rows, class, received, sender, tries, everStored, moved, faulted, outVars, destVars>>

emailClassify(p) ==
    /\ At(p, "classify")
    /\ posts' = [posts EXCEPT ![p].pc = "store", ![p].class = IF posts[p].user \in quarantines THEN "quarantine" ELSE "inbox"]
    /\ UNCHANGED <<inbox, quarantines, rows, class, received, sender, tries, everStored, moved, faulted, outVars, destVars>>

\* Without a Message-ID there is nothing to look for.
Duplicate(u, m) == m \notin Anonymous /\ rows[u][m] > 0

\* Why a copy is refused, in the order of the code; full says that other mail fills the mailbox.
Refusal(u, m, full) ==
    IF Duplicate(u, m) THEN {"duplicate"}
    ELSE IF received[u] >= MaxReceives \/ full THEN {"quota"}
    ELSE IF m \in Large THEN {"too_large"} ELSE {}

StoreRow(p) ==
    LET m == posts[p].mail
        u == posts[p].user
    IN  /\ rows' = [rows EXCEPT ![u][m] = @ + 1]
        /\ class' = [class EXCEPT ![u][m] = posts[p].class]
        /\ received' = [received EXCEPT ![u] = @ + 1]
        /\ everStored' = everStored \cup {m}

\* The row is looked for, counted and written in one step.
emailMessageStore(p) ==
    /\ At(p, "store")
    /\ \E full \in BOOLEAN :
         LET fails == Refusal(posts[p].user, posts[p].mail, full)
         IN  IF fails # {} THEN posts' = [posts EXCEPT ![p] = Skipped(p, fails)] /\ UNCHANGED <<rows, class, received, everStored>>
             ELSE posts' = [posts EXCEPT ![p] = [Skipped(p, {}) EXCEPT !.accepted = TRUE]] /\ StoreRow(p)
    /\ UNCHANGED <<inbox, quarantines, sender, tries, moved, faulted, outVars, destVars>>

\* The call to the cell fails, before or after it took effect: "store_failed", and on to the next recipient.
StoreFails(p) ==
    /\ At(p, "store")
    /\ posts' = [posts EXCEPT ![p] = Skipped(p, {"store_failed"})]
    /\ faulted' = faulted \cup {posts[p].mail}
    /\ \/ UNCHANGED <<rows, class, received, everStored>>
       \/ Refusal(posts[p].user, posts[p].mail, FALSE) = {} /\ StoreRow(p)
    /\ UNCHANGED <<inbox, quarantines, sender, tries, moved, outVars, destVars>>

\* Mutant: a duplicate is answered like a missing inbox.
ReplyNoDuplicate(q) == IF q.accepted THEN "accepted" ELSE IF "quota" \in q.reasons THEN "open" ELSE "refused"

\* The status of handleEmailInbound as smtpReplyFor turns it into 250, 452, 552 or 550.
Reply(q) ==
    IF q.accepted THEN "accepted"
    ELSE IF "quota" \in q.reasons THEN "open"
    ELSE IF "too_large" \in q.reasons THEN "too_large"
    ELSE IF "duplicate" \in q.reasons THEN "accepted"
    ELSE "refused"

Answer(p) ==
    /\ At(p, "resolve") /\ posts[p].todo = <<>>
    /\ sender' = IF posts[p].waiting THEN [sender EXCEPT ![posts[p].mail] = Reply(posts[p])] ELSE sender
    /\ posts' = [posts EXCEPT ![p] = NoPost]
    /\ UNCHANGED <<inbox, quarantines, rows, class, received, tries, everStored, moved, faulted, outVars, destVars>>

Offered(l) == {m \in Mails : l \in Named(m) /\ tries[m] > 0}

inboxClaim(u, l) ==
    /\ inbox[l] = None
    /\ inbox' = [inbox EXCEPT ![l] = u]
    /\ moved' = moved \cup Offered(l)
    /\ UNCHANGED <<quarantines, rows, class, received, sender, tries, posts, everStored, faulted, outVars, destVars>>

inboxRelease(u, l) ==
    /\ inbox[l] = u
    /\ inbox' = [inbox EXCEPT ![l] = None]
    /\ moved' = moved \cup Offered(l)
    /\ UNCHANGED <<quarantines, rows, class, received, sender, tries, posts, everStored, faulted, outVars, destVars>>

emailSenderRuleSet(u) ==
    /\ quarantines' \in {quarantines \cup {u}, quarantines \ {u}}
    /\ quarantines' # quarantines
    /\ UNCHANGED <<inbox, rows, class, received, sender, tries, posts, everStored, moved, faulted, outVars, destVars>>

emailMessageDelete(u, m) ==
    /\ rows[u][m] > 0
    /\ rows' = [rows EXCEPT ![u][m] = @ - 1]
    /\ UNCHANGED <<inbox, quarantines, class, received, sender, tries, posts, everStored, moved, faulted, outVars, destVars>>

emailMessageRelease(u, m) ==
    /\ rows[u][m] > 0 /\ class[u][m] = "quarantine"
    /\ class' = [class EXCEPT ![u][m] = "inbox"]
    /\ UNCHANGED <<inbox, quarantines, rows, received, sender, tries, posts, everStored, moved, faulted, outVars, destVars>>

NextDay ==
    /\ received' = [u \in Users |-> 0]
    /\ UNCHANGED <<inbox, quarantines, rows, class, sender, tries, posts, everStored, moved, faulted, outVars, destVars>>

----------------------------------------------------------------------------
(* Outbound *)

Mailer == CHOOSE u \in Users : TRUE        \* the user whose cell keeps the messages and destinations
Account == CHOOSE a \in Addresses : TRUE   \* the address of the account

Sending(o, pc) == outs[o].pc = pc

\* sendUserEmail reads the names of the user first: From is one of them.
emailSend(o, l, to) ==
    /\ Sending(o, "none") /\ inbox[l] = Mailer
    /\ outs' = [outs EXCEPT ![o] = [NoOut EXCEPT !.pc = "check", !.user = Mailer, !.local = l, !.to = to]]
    /\ UNCHANGED <<index, wire, inVars, destVars>>

\* The recipient of a reply comes from the stored message and is not checked.
emailReply(o, m, l) ==
    /\ Sending(o, "none") /\ rows[Mailer][m] > 0 /\ l \in Named(m) /\ inbox[l] = Mailer
    /\ outs' = [outs EXCEPT ![o] = [NoOut EXCEPT !.pc = "store", !.user = Mailer, !.local = l]]
    /\ UNCHANGED <<index, wire, inVars, destVars>>

\* emailDestinationAdd mails the code it began with, unchecked like a reply.
SendCode(o, l) ==
    /\ Sending(o, "none") /\ lastCode > 0 /\ inbox[l] = Mailer
    /\ outs' = [outs EXCEPT ![o] = [NoOut EXCEPT !.pc = "store", !.user = Mailer, !.local = l]]
    /\ UNCHANGED <<index, wire, inVars, destVars>>

SendCheck(o) ==
    /\ Sending(o, "check")
    /\ outs' = [outs EXCEPT ![o] = IF outs[o].to = Account \/ outs[o].to \in Locals \/ dests[outs[o].to].verified
                                   THEN [outs[o] EXCEPT !.pc = "store"] ELSE NoOut]
    /\ UNCHANGED <<index, wire, inVars, destVars>>

\* The message is stored as "sending", unless a quota or the size refuses it.
SendStore(o) ==
    /\ Sending(o, "store")
    /\ outs' \in {[outs EXCEPT ![o].pc = "post", ![o].status = "sending"], [outs EXCEPT ![o] = NoOut]}
    /\ UNCHANGED <<index, wire, inVars, destVars>>

\* The bridge answers 202 with the id of the message and delivers it on its own.
sendOutbound(o) ==
    /\ Sending(o, "post")
    /\ wire' = [wire EXCEPT ![o].state = "delivering"]
    /\ outs' = [outs EXCEPT ![o].pc = "index"]
    /\ UNCHANGED <<index, inVars, destVars>>

\* The bridge refuses, or its answer is lost and it delivers all the same; or a cell fails, the audit log's too.
SendFails(o) ==
    /\ outs[o].pc \in {"post", "index", "mark", "audit"}
    /\ \/ UNCHANGED wire
       \/ Sending(o, "post") /\ wire' = [wire EXCEPT ![o].state = "delivering"]
    /\ outs' = [outs EXCEPT ![o].pc = "fail"]
    /\ UNCHANGED <<index, inVars, destVars>>

outboundEmailIndexSet(o) ==
    /\ Sending(o, "index")
    /\ index' = index \cup {o}
    /\ outs' = [outs EXCEPT ![o].pc = "mark"]
    /\ UNCHANGED <<wire, inVars, destVars>>

\* Mutant: only a message that is still being sent takes a status.
MarkedOnce(o, s) == IF outs[o].status = "sending" THEN s ELSE outs[o].status

\* emailMessageSetDelivery: a deleted message stays deleted.
Marked(o, s) == IF outs[o].status = "deleted" THEN "deleted" ELSE s

SendEnds(o) ==
    /\ \/ Sending(o, "mark") /\ outs' = [outs EXCEPT ![o].status = Marked(o, "queued"), ![o].pc = "audit"]
       \/ Sending(o, "audit") /\ outs' = [outs EXCEPT ![o].pc = "done"]
       \/ Sending(o, "fail") /\ outs' = [outs EXCEPT ![o].status = Marked(o, "failed"), ![o].pc = "failed"]
    /\ UNCHANGED <<index, wire, inVars, destVars>>

SendCrashes(o) ==
    /\ outs[o].pc \in {"post", "index", "mark", "audit", "fail"}
    /\ outs' = [outs EXCEPT ![o].pc = "gone"]
    /\ UNCHANGED <<index, wire, inVars, destVars>>

OutDelete(o) ==
    /\ outs[o].status \notin {"none", "deleted"}
    /\ outs' = [outs EXCEPT ![o].status = "deleted"]
    /\ UNCHANGED <<index, wire, inVars, destVars>>

\* deliver and reportEvent of the bridge: one report, which may be lost.
deliver(o) ==
    /\ wire[o].state = "delivering"
    /\ \E outcome \in {"sent", "failed"} : wire' = [wire EXCEPT ![o].state = "reporting", ![o].outcome = outcome]
    /\ UNCHANGED <<outs, index, inVars, destVars>>

ReportLost(o) ==
    /\ wire[o].state = "reporting"
    /\ wire' = [wire EXCEPT ![o].state = "lost"]
    /\ UNCHANGED <<outs, index, inVars, destVars>>

\* The send has yet to mark its message.
Unmarked(o) == outs[o].pc \in {"post", "index", "mark"}

\* applyDeliveryEvents: the owner is looked up, then the message is marked.
EventResolve(o) ==
    /\ wire[o].state = "reporting"
    /\ wire' = [wire EXCEPT ![o].state = IF o \in index THEN "applying" ELSE "unmatched", ![o].early = Unmarked(o)]
    /\ UNCHANGED <<outs, index, inVars, destVars>>

EventApply(o) ==
    /\ wire[o].state = "applying"
    /\ outs' = [outs EXCEPT ![o].status = Marked(o, wire[o].outcome)]
    /\ wire' = [wire EXCEPT ![o].state = "applied", ![o].early = Unmarked(o)]
    /\ UNCHANGED <<index, inVars, destVars>>

----------------------------------------------------------------------------
(* Destinations *)

\* A new code, for an address not verified when the call began.
emailDestinationBegin(a) ==
    /\ lastCode < MaxCodes
    /\ lastCode' = lastCode + 1
    /\ dests' = [dests EXCEPT ![a].known = TRUE, ![a].code = lastCode + 1]
    /\ UNCHANGED <<verifying, proven, inVars, outVars>>

\* ensureAccountDestination: the account's address is verified, and the default when it is the first.
ensureAccountDestination ==
    /\ dests' = [dests EXCEPT ![Account] =
         [known |-> TRUE, verified |-> TRUE, code |-> 0,
          default |-> IF @.known THEN @.default ELSE \A a \in Addresses : ~dests[a].known]]
    /\ UNCHANGED <<lastCode, verifying, proven, inVars, outVars>>

\* The row is read and the code hashed before the row is written; a code that has expired is as good as none.
VerifyRead(a, code) ==
    /\ dests[a].known /\ ~dests[a].verified /\ dests[a].code = code
    /\ verifying' = verifying \cup {a} /\ proven' = proven \cup {a}
    /\ UNCHANGED <<dests, lastCode, inVars, outVars>>

BecomesDefault(a) == \A b \in Addresses : ~dests[b].default

emailDestinationVerify(a) ==
    /\ a \in verifying
    /\ verifying' = verifying \ {a}
    /\ dests' = [dests EXCEPT ![a] = IF ~@.known THEN @
                   ELSE [known |-> TRUE, verified |-> TRUE, code |-> 0, default |-> BecomesDefault(a)]]
    /\ UNCHANGED <<lastCode, proven, inVars, outVars>>

CodeExpires(a) ==
    /\ dests[a].code # 0
    /\ dests' = [dests EXCEPT ![a].code = 0]
    /\ UNCHANGED <<lastCode, verifying, proven, inVars, outVars>>

emailDestinationSetDefault(a) ==
    /\ dests[a].verified
    /\ dests' = [b \in Addresses |-> [dests[b] EXCEPT !.default = (b = a)]]
    /\ UNCHANGED <<lastCode, verifying, proven, inVars, outVars>>

emailDestinationRemove(a) ==
    /\ a # Account /\ dests[a].known
    /\ dests' = [dests EXCEPT ![a] = NoDest]
    /\ UNCHANGED <<lastCode, verifying, proven, inVars, outVars>>

----------------------------------------------------------------------------

Init ==
    /\ inbox \in [Locals -> Users \cup {None}] /\ quarantines = {}
    /\ rows = [u \in Users |-> [m \in Mails |-> 0]]
    /\ class = [u \in Users |-> [m \in Mails |-> "inbox"]]
    /\ received \in [Users -> 0..MaxReceives]
    /\ sender = [m \in Mails |-> "open"] /\ tries = [m \in Mails |-> 0]
    /\ posts = [p \in Posts |-> NoPost] /\ everStored = {} /\ moved = {} /\ faulted = {}
    /\ outs = [o \in Outs |-> NoOut] /\ index = {} /\ wire = [o \in Outs |-> AtBridge]
    /\ dests = [a \in Addresses |-> NoDest] /\ lastCode = 0 /\ verifying = {} /\ proven = {}

Delivery ==
    \/ NextDay
    \/ \E p \in Posts, m \in Mails : Forward(p, m)
    \/ \E p \in Posts : ForwardTimesOut(p) \/ Crash(p) \/ inboxResolve(p) \/ emailClassify(p) \/ emailMessageStore(p) \/ StoreFails(p) \/ Answer(p)

\* Capabilities of the inbox.
Inbox ==
    \/ \E u \in Users, l \in Locals : inboxClaim(u, l) \/ inboxRelease(u, l)
    \/ \E u \in Users, m \in Mails : emailMessageDelete(u, m) \/ emailMessageRelease(u, m)
    \/ \E u \in Users : emailSenderRuleSet(u)

\* Capabilities that send.
Compose ==
    \E o \in Outs, l \in Locals : \/ \E to \in Addresses \cup Locals : emailSend(o, l, to)
                                  \/ \E m \in Mails : emailReply(o, m, l)
                                  \/ SendCode(o, l)

Outgoing ==
    \E o \in Outs : \/ SendCheck(o) \/ SendStore(o) \/ sendOutbound(o) \/ SendFails(o) \/ outboundEmailIndexSet(o)
                    \/ SendEnds(o) \/ SendCrashes(o) \/ OutDelete(o)
                    \/ deliver(o) \/ ReportLost(o) \/ EventResolve(o) \/ EventApply(o)

\* Capabilities for destinations.
Destinations ==
    \/ ensureAccountDestination
    \/ \E a \in Addresses : \/ emailDestinationBegin(a) \/ emailDestinationVerify(a) \/ CodeExpires(a)
                            \/ emailDestinationSetDefault(a) \/ emailDestinationRemove(a)
                            \/ \E code \in 1..lastCode : VerifyRead(a, code)

Next == Delivery \/ Inbox \/ Compose \/ Outgoing \/ Destinations

Spec == Init /\ [][Next]_vars

----------------------------------------------------------------------------
(* Properties *)

\* However often a message is posted, and even when posts overlap, a mailbox has one copy of a message with a Message-ID;
\* of one without, which nothing recognises, a copy for each attempt of the sender at most, under whichever of the names
\* of its owner it came (cells/user-cell.ts emailMessageStore, email/service.ts deliverInbound).
StoredOnce == \A u \in Users, m \in Mails : rows[u][m] <= IF m \in Anonymous THEN tries[m] ELSE 1

\* A sender that was answered 250 has reached some mailbox (email/service.ts handleEmailInbound,
\* mail-bridge/lib.mjs smtpReplyFor).
AcceptedIsStored == \A m \in Mails : sender[m] = "accepted" => m \in everStored

\* A sender that was told there is no such inbox named no inbox and has reached no mailbox, also when an
\* earlier answer was lost, as long as the names kept their owners and the cells answered; one that was told its
\* message is too large has reached none either (email/service.ts handleEmailInbound).
RefusedIsUnknown ==
    \A m \in Mails :
        /\ sender[m] = "refused" /\ m \notin moved \cup faulted => m \notin everStored /\ \A l \in Named(m) : inbox[l] = None
        /\ sender[m] = "too_large" => m \in Large \ everStored

\* What a message out says of itself is true in every order of the send and the report: sent or failed is what the
\* bridge reported, or what became of the send; queued is at the bridge, and no report handled once the message was
\* marked is lost.  One handled before, early, is: it finds no index, or "queued" overwrites it
\* (email/service.ts applyDeliveryEvents, sendUserEmail).
StatusTrue ==
    \A o \in Outs :
        LET status == outs[o].status
        IN  /\ status = "sent" => wire[o].state = "applied" /\ wire[o].outcome = "sent"
            /\ status = "failed" => Sending(o, "failed") \/ (wire[o].state = "applied" /\ wire[o].outcome = "failed")
            /\ status = "queued" => wire[o].state # "none" /\ (wire[o].state \in {"applied", "unmatched"} => wire[o].early)
            /\ Sending(o, "done") => status \notin {"none", "sending"}

\* Mail that is neither a reply nor a code leaves the domain only for the address of the account or for one that has
\* proved it reads its mail, also when destinations are removed and added while a code is checked
\* (email/service.ts sendUserEmail, cells/user-cell.ts emailDestinationVerify).
SentIsProven ==
    \A o \in Outs : outs[o].pc \notin {"none", "check"} => outs[o].to \notin Addresses \ (proven \cup {Account})

\* At most one destination is the default, and it is verified (cells/user-cell.ts emailDestinationVerify).
OneDefault ==
    /\ \A a, b \in Addresses : dests[a].default /\ dests[b].default => a = b
    /\ \A a \in Addresses : dests[a].default => dests[a].verified

\* What the sender of a message is told agrees with what became of it: one copy at most in a mailbox, or one an attempt
\* without a Message-ID, 250 only for a stored one, "no such inbox" only for a name nobody has, 552 only for a message
\* that is too large and stored nowhere (email/service.ts handleEmailInbound).
InboundExact == StoredOnce /\ AcceptedIsStored /\ RefusedIsUnknown

\* What a message out says of itself is true, it leaves the domain only for addresses that were proven, and one verified
\* destination at most is the default (email/service.ts sendUserEmail, applyDeliveryEvents, cells/user-cell.ts).
OutboundSound == StatusTrue /\ SentIsProven /\ OneDefault
=============================================================================
