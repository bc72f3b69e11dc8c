SPECIFICATION BoundedSpec
CONSTANTS
    r1 = r1
    r2 = r2
    r3 = r3
    r4 = r4
    r5 = r5
    r6 = r6
    r7 = r7
    a = a
    b = b
    none = none
    NoUser = none
    Free = free
    Requests = {r1, r2, r3, r4, r5, r6, r7}
    Kind <- Mix
    Users = {1, 2, 3}
    Devices = {1, 2, 3, 4, 5}
    Chats = {a, b}
    Members <- TwoChats
    ClientIds = {1}
    InitialOwner <- FiveDevices
    OldTargets = {}
    MaxPosition = 2
SYMMETRY MixSymmetry
CONSTRAINT FewRequests
INVARIANTS NoWaitCycle AcceptedOnce MailboxGapless ChatPositionsGapless
PROPERTIES DeliveredToCurrentDevices ReadCursorMonotone
