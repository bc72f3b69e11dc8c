SPECIFICATION FairSpec
CONSTANTS
    tab1 = tab1
    tab2 = tab2
    Tabs = {tab1}
    MaxSeq = 2
    MaxGeneration = 2
    PageLimit = 1
INVARIANTS NoRowsOfOldGeneration ReceiptIsTrue
PROPERTIES EverythingSettles
