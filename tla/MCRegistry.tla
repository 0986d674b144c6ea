----------------------------- MODULE MCRegistry -----------------------------
(***************************************************************************)
(* Registry for TLC: part says which of the systems moves.                 *)
(***************************************************************************)
EXTENDS Registry, TLC

CONSTANTS l1, l2, m1, m2, m3

VARIABLE part

\* Email: one message to two names, one like it without a Message-ID and one too large.
MCRecipients == m1 :> <<l1, l2>> @@ m2 :> <<l1, l2>> @@ m3 :> <<l1>>

accountVars == <<users, password, weak, failures, locked, links, lastLink, sessions, lastSession,
                 handoffs, lastHandoff, burned, cookie, apps, calls, origin, tally, overlapped, uses, late>>
emailVars == <<inbox, quarantines, rows, class, received, sender, tries, posts, everStored, moved, faulted,
               outs, index, wire, dests, lastDestCode, verifying, proven>>

Symmetry == Permutations(Requests)

\* What the proofs about Accounts and Email suppose of a deployment.
ASSUME RegistryConstants == A!AccountsConstants /\ E!EmailConstants

\* Bounds of the parts: sign-in without package apps, package apps without links and passwords typed.
NoApps == cookie' = 0
NoPasswords == lastLink' = 0 /\ \A r \in Calls : calls'[r].pc # "hashing"

MCInit ==
    /\ Init /\ A!Init /\ E!Init
    /\ part \in {"signin", "apps", "oauth", "inbound", "anonymous", "large", "outbound", "destinations"}
    /\ inbox[l1] = E!Mailer
    /\ part \notin {"inbound", "anonymous", "outbound"} => inbox[l2] = None
    /\ \A u \in Users : (u = E!Mailer /\ part = "inbound") \/ received[u] = 0
    /\ part # "signin" => users = {}

\* One message; names change hands once or a call to store fails, and one user has rules, all this for the first.
Inbound(mail) ==
    /\ E!Delivery \/ E!Inbox
    /\ inbox' = inbox \/ moved = {}
    /\ moved' = {} \/ faulted' = {}
    /\ quarantines' \subseteq {E!Mailer} /\ (mail # m1 => quarantines' = {} /\ inbox' = inbox)
    /\ \A m \in Mails \ {mail} : tries'[m] = 0

\* One delivery without faults, for the replies.
Outbound ==
    \/ E!Compose \/ E!Outgoing
    \/ /\ \E p \in Posts : E!Forward(p, m1) \/ E!inboxResolve(p) \/ E!emailClassify(p) \/ E!emailMessageStore(p)
       /\ tries'[m1] = 1

Destinations == E!Compose \/ E!Destinations \/ E!SendCheck(m1)

MCNext ==
    /\ UNCHANGED part
    /\ \/ part = "signin" /\ A!Next /\ NoApps /\ UNCHANGED <<vars, emailVars>>
       \/ part = "apps" /\ A!Next /\ NoPasswords /\ UNCHANGED <<vars, emailVars>>
       \/ part = "oauth" /\ Next /\ UNCHANGED <<accountVars, emailVars>>
       \/ part = "inbound" /\ Inbound(m1) /\ UNCHANGED <<vars, accountVars>>
       \/ part = "anonymous" /\ Inbound(m2) /\ UNCHANGED <<vars, accountVars>>
       \/ part = "large" /\ Inbound(m3) /\ UNCHANGED <<vars, accountVars>>
       \/ part = "outbound" /\ Outbound /\ UNCHANGED <<vars, accountVars>>
       \/ part = "destinations" /\ Destinations /\ UNCHANGED <<vars, accountVars>>

MCSpec == MCInit /\ [][MCNext]_<<part, vars, accountVars, emailVars>>
=============================================================================
