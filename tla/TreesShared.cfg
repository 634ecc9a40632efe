SPECIFICATION Spec
CONSTANTS
    NoCtx = NoCtx
    NoFile = NoFile
    Thread = {worker, query}
    File = {f, g}
    Ctx = {c1, c2, c3, c4}
SYMMETRY Alike
CHECK_DEADLOCK FALSE
INVARIANT TreesOutliveTheirReaders
