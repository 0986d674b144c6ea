\* Two concurrent calls; two packages of two files.
CONSTANTS
    Calls = {c1, c2}
    caller = caller
    job = job
    a = a
    b = b
    f1 = f1
    f2 = f2
    None = None
SPECIFICATION MCSpec
PROPERTIES RunSettles DueJobIsClaimed BuildEnds WaitersAnswered KeySettles
CHECK_DEADLOCK FALSE
