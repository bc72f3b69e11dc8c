SPECIFICATION Spec
CONSTANTS
    tab1 = tab1
    tab2 = tab2
    Tabs = {tab1, tab2}
    MaxSeq = 2
    MaxGeneration = 1
    PageLimit = 1
INVARIANTS CursorCoversStored
PROPERTIES InboxOnlyGrows ImplementsCustody
