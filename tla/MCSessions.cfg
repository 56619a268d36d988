\* Two requests, two passwords, three sessions, two links, one token that expires.
SPECIFICATION MCSpec
CONSTANTS
    r1 = r1
    r2 = r2
    old = old
    new = new
    Requests = {r1, r2}
    Passwords = {old, new}
    MaxTokens = 3
    MaxLinks = 2
    MaxRows = 3
SYMMETRY Symmetry
INVARIANTS OneSuccessor ReplayKillsFamily OldPasswordOut ResetLinks
CHECK_DEADLOCK FALSE
