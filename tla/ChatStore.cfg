SPECIFICATION StoreSpec
CONSTANTS
    a = a
    b = b
    x = x
    NoChat = NoChat
    Chats = {a, b, x}
    ChatOf <- Envelopes
    MaxCachedChats = 2
    PageSize = 1
    Scenarios <- Everything
INVARIANT PreferenceFollowsSelection
INVARIANT NothingLeftLoading
INVARIANT ReadyMailShown
PROPERTY RowsOnlyImprove
PROPERTY EndedRunsAreMute
