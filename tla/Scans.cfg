SPECIFICATION FairSpec
CONSTANTS
    outer = outer
    inner = inner
    f = f
    g = g
    Dir = {outer, inner}
    File = {f, g}
    FilesOf <- Nested
    Scan = {s1, s2}
    Worker = {w1, w2}
    Query = {q1}
    NoScan = NoScan
    MaxWakes = 2
CHECK_DEADLOCK FALSE
INVARIANTS
    TypeOK
    PendingIsWoken
    OwedIsScheduled
PROPERTY
    RequestsAreServed
