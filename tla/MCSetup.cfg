\* Two setups of different accounts at once.
CONSTANTS
    Emails = {e1, e2}
    Passwords = {p1}
    Calls = {r1, r2}
    None = None
    MaxFailures = 2
    MaxLinks = 0
    MaxSessions = 2
    MaxHandoffs = 0
SPECIFICATION Spec
PROPERTIES OneSetup
CHECK_DEADLOCK FALSE
