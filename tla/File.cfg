SPECIFICATION Spec
CONSTANTS
    a = a
    b = b
    u1 = u1
    u2 = u2
    u3 = u3
    Empty = Empty
    Missing = Missing
    NoText = NoText
    NoUid = NoUid
    NoTab = NoTab
    Texts = {Empty, a}
    Uids = {u1,u2}
    Happens = {"delete", "chmod"}
    Tidy <- Verbatim
INVARIANTS
    TypeOK
    ChangesAreNoticed
    EditsSurvive
SYMMETRY NameSymmetry
