CONSTANTS
    Workers = {w1, w2}
    Requests = {r1, r2, r3, r4}
    MaxRequests = 2
    NoRequest = none
SPECIFICATION FairSpec
INVARIANTS
    TypeOK
    NoStrandedRequest
    ExactlyOnce
PROPERTIES
    AcceptedIsServed
    ImplementsPool
