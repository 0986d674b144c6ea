------------------------------ MODULE Registry ------------------------------
(***************************************************************************)
(* The tables of the registry cell with the flows around them: OAuthServer *)
(* with Accounts and Email at its side.  They share no table and no call;  *)
(* a run explores them side by side, and a proof is about each on its own. *)
(***************************************************************************)
EXTENDS OAuthServer

CONSTANTS Emails, Passwords, Calls, MaxFailures, MaxLinks, MaxSessions, MaxHandoffs,                  \* of Accounts
          Users, Locals, Mails, Anonymous, Large, Recipients, Posts, Outs, Addresses,                    \* of Email
          MaxTries, MaxReceives, MaxDestCodes

VARIABLES users, password, weak, failures, locked, links, lastLink, sessions, lastSession,
          handoffs, lastHandoff, burned, cookie, apps, calls, origin, tally, overlapped, uses, late,
          inbox, quarantines, rows, class, received, sender, tries, posts, everStored, moved, faulted,
          outs, index, wire, dests, lastDestCode, verifying, proven

A == INSTANCE Accounts

E == INSTANCE Email WITH lastCode <- lastDestCode, MaxCodes <- MaxDestCodes

\* Whatever a browser is given to use once is: a sign-in link, a hand-off to an app, however many requests present
\* it at once (auth/account-store.ts signinTokenConsume, appHandoffBurn).
SingleUse == A!SingleUse

\* Wrong passwords one after another lock the address (auth/account-store.ts passwordVerify).
LockHolds == A!LockHolds

\* What a sender is told agrees with what became of its message (email/service.ts handleEmailInbound).
InboundExact == E!InboundExact

\* What a message out says of itself is true, it leaves the domain only for addresses that were proven, and one verified
\* destination at most is the default (email/service.ts sendUserEmail, applyDeliveryEvents, cells/user-cell.ts).
OutboundSound == E!OutboundSound
=============================================================================
