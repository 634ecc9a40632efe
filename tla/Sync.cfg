SPECIFICATION FairSpec
CONSTANTS
    f1 = f1
    f2 = f2
    outer = outer
    inner = inner
    a = a
    b = b
    Empty = Empty
    NoDoc = NoDoc
    NoRoot = NoRoot
    Files = {f1}
    Roots = {outer}
    Removable = {}
    Texts = {Empty, a, b}
    StartOutcomes = {"none", "starting", "unheard"}
    MaxTabs = 1
    MaxTasks = 2
    MaxRequests = 1
    Encl <- OneProject
    Depth <- PathLength
INVARIANTS
    TypeOK
    EditsAreTracked
PROPERTIES
    ImplementsSharedDocuments
    EditsReachTheServer
    EditorsBecomeExclusive
