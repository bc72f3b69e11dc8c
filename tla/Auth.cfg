SPECIFICATION FairSpec
CONSTANTS
    r1 = r1
    r2 = r2
    r3 = r3
    r4 = r4
    r5 = r5
    s1 = s1
    d1 = d1
    Requests = {r1, r2, r3, r4, r5}
    Kind <- Mix
    Devices = {d1}
    OldSessions = {s1}
    OldDevice <- SignedIn
    Free = free
    None = none
INVARIANTS ReuseRevokes LogoutEnds RevokedDeviceLoggedOut
PROPERTIES EveryRequestEnds
