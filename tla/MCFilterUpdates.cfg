SPECIFICATION FairSpec
CONSTANTS
    Callers = {c1, c2}
    Entries = {a, b, x}
    Registered = {a, b}
    Initial = {a}
    AutoReconnect = TRUE
    MaxVersion = 3
    MaxDrops = 2
INVARIANTS TypeOK NoEditLost
PROPERTIES NewestWins Converges
CHECK_DEADLOCK FALSE
