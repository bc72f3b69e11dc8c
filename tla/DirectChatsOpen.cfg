SPECIFICATION ChatsSpec
CONSTANTS
    Users = {1, 2, 3}
    Strangers = {4}
    Requests = {r1, r2, r3}
    None = None
INVARIANTS SameChat
SYMMETRY RequestSymmetry
