\* One MCP client with one code, one grant and three pairs of tokens, two requests at once.  Accounts: one address, two
\* passwords, one link, two sessions and one hand-off.  Email: a message to two names, one without a
\* Message-ID and one too large, each tried twice; one message out; two destinations.
CONSTANTS
    Clients = {e1}
    Requests = {r1, r2}
    None = None
    l1 = l1
    l2 = l2
    m1 = m1
    m2 = m2
    m3 = m3
    Emails = {e1}
    Passwords = {p1, p2}
    Calls = {r1, r2}
    MaxFailures = 2
    MaxLinks = 1
    MaxSessions = 2
    MaxHandoffs = 1
    Users = {u1, u2}
    Locals = {l1, l2}
    Mails = {m1, m2, m3}
    Anonymous = {m2}
    Large = {m3}
    Recipients <- MCRecipients
    Posts = {r1, r2}
    Outs = {m1}
    Addresses = {a1, a2}
    MaxTries = 2
    MaxReceives = 1
    MaxDestCodes = 2
    MaxCodes = 1
    MaxGrants = 1
    MaxPairs = 3
SPECIFICATION MCSpec
SYMMETRY Symmetry
INVARIANTS SingleUse LockHolds FamilySound RetrySafe InboundExact OutboundSound
CHECK_DEADLOCK FALSE
