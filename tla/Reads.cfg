SPECIFICATION FairSpec
CONSTANTS
    NoTab = NoTab
    Tabs = {tab}
    MaxSeq = 2
    Elsewhere <- ReadBounds
    MaxReloads = 1
    MaxPending = 1
INVARIANTS MarkersTruthful
PROPERTIES ReadsReachServer TabsCatchUp
