SPECIFICATION Spec
CONSTANTS
    f1 = f1
    f2 = f2
    outer = outer
    inner = inner
    a = a
    b = b
    Empty = Empty
    NoDoc = NoDoc
    NoRoot = NoRoot
    Files = {f1, f2}
    Roots = {outer, inner}
    Removable = {inner}
    Texts = {Empty, a}
    StartOutcomes = {"starting"}
    MaxTabs = 1
    MaxTasks = 1
    MaxRequests = 1
    Encl <- SiblingProjects
    Depth <- PathLength
INVARIANTS
    RecordIsNotAhead
