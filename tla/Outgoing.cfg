SPECIFICATION FairSpec
CONSTANTS
    tab1 = tab1
    few = few
    more = more
    Tabs = {tab1}
    DeviceSets = {few, more}
    NoCommand = none
    Confirmations = 2
    Rounds = 2
    MaxGhosts = 2
    Receipts = TRUE
INVARIANTS StatusIsTrue ReceiptNotLost
PROPERTIES EventuallyAccepted AcceptanceKept
