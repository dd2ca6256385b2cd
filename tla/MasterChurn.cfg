CONSTANTS
    c1 = c1
    c2 = c2
    s1 = s1
    s2 = s2
    Conns = {c1, c2}
    Servers = {s1, s2}
    Host <- MCHost
    Keys = {}
    Prefer <- MCPrefer
    Workers = {w1}
    MaxRequests = 1
    Regimes <- MCRegimes
SPECIFICATION HistorySpec
INVARIANT
    NoGhost
PROPERTIES
    
    NewServerIsTold
CHECK_DEADLOCK FALSE
