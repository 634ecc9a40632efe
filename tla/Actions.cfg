SPECIFICATION FairSpec
CONSTANTS
    a = a
    b = b
    Empty = Empty
    NoText = NoText
    NoLine = NoLine
    Nothing = Nothing
    Texts = {Empty, a, b}
    Lines = {1, 2}
    Fixes <- OneFixEach
INVARIANTS
    TypeOK
    MarkIsAtTheCaret
PROPERTIES
    FixesFitTheText
    MarksCatchUp
    EchoesAreCurrent
