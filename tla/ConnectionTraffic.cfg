SPECIFICATION Spec
CONSTANTS
    tab1 = tab1
    tab2 = tab2
    s1 = s1
    s2 = s2
    None = None
    Tabs = {tab1}
    Sockets = {s1, s2}
    Traffic = {"commands", "events"}
    MaxCalls = 1
    MaxFrames = 1
    MaxDeliveries = 1
SYMMETRY SocketSymmetry
INVARIANTS ServedIsRegistered NothingAfterRevocation
