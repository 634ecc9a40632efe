SPECIFICATION Spec
CONSTANTS
    NoTab = NoTab
    NoSplit = NoSplit
    Tab = {t1, t2, t3}
    Split = {s1, s2}
PROPERTY TabsGoOnlyWhenClosed
