SPECIFICATION Spec
CONSTANTS
    None = None
    Tabs = {tab1, tab2}
    MaxSessions = 1
    MaxRotations = 2
    Registers = TRUE
    Errands = {"revoke"}
    Leaving = {"unmount", "reload"}
    Returning = {TRUE, FALSE}
    MaxOrphans = 1
SYMMETRY TabSymmetry
CONSTRAINT CookieRaces
INVARIANTS TokenFollowsPhase NoFalseReuse NoOperationStuck
