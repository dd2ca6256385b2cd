CONSTANTS
    Items = {x1, x2, x3}
    Consumers = {c1, c2}
    MaxSize = 3
    Nothing = Nothing
SPECIFICATION Spec
INVARIANTS
    TypeOK
    IndicesAgree
    NoSleepingConsumer
PROPERTY
    ImplementsBuffer
SYMMETRY Symmetry
