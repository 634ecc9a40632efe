SPECIFICATION Spec
CONSTANTS
    NoTab = NoTab
    NoSplit = NoSplit
    Tab = {t1, t2, t3, t4, t5}
    Split = {s1, s2, s3}
SYMMETRY Alike
INVARIANTS
    TypeOK
    CurrentIsLive
    MenusFollowTheTab
    TabsAreReachable
    RestoredAsSaved
PROPERTIES
    EmptiedSplitsGo
    ImplementsOpenTabs
