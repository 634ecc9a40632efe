SPECIFICATION Spec
CONSTANTS
    File <- Files
    Ident <- Letters
    Texts <- Lines
    NewName <- Longer
    FixSpans <- TwoSpans
    NoFile = NoFile
    MaxAsked = 1
    MaxLen = 3
PROPERTY
    RepliesCannotCorrupt
