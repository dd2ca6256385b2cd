CONSTANTS
    c1 = c1
    c2 = c2
    c3 = c3
    s1 = s1
    s2 = s2
    s3 = s3
    Conns = {c1, c2, c3}
    Servers = {s1, s2, s3}
    Host <- MCHost
    Keys = {k1}
    Prefer <- MCPrefer
    Workers = {w1, w2}
    MaxRequests = 2
    Regimes <- MCRegimes
SPECIFICATION ClusterSpec
INVARIANTS
    RegistryConsistent
    RegistersRequester
    RingsAgree
    BackupCycle
    RingsReceived
    MigratesByNewRing
    BackupsSent
CHECK_DEADLOCK FALSE
