SPECIFICATION FairSpec
CONSTANTS
    a = a
    b = b
    u1 = u1
    u2 = u2
    u3 = u3
    Empty = Empty
    Missing = Missing
    NoText = NoText
    NoUid = NoUid
    NoTab = NoTab
    Texts = {Empty, a, b}
    Uids = {u1}
    Happens = {"delete", "build", "script", "hide"}
    Tidy <- Trimming
INVARIANTS
    UnmodifiedIsTheFile
PROPERTIES
    FormattingKeepsEdits
    EditsAreBackedUp
    ChangesAreShown
