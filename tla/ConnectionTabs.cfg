SPECIFICATION FairSpec
CONSTANTS
    tab1 = tab1
    tab2 = tab2
    s1 = s1
    s2 = s2
    None = None
    Tabs = {tab1, tab2}
    Sockets = {s1, s2}
    Traffic = {}
    MaxCalls = 1
    MaxFrames = 1
    MaxDeliveries = 0
INVARIANTS OneAttempt
PROPERTIES TabsSettle RevokedCutOff
