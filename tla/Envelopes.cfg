SPECIFICATION Spec
CONSTANTS
    r1 = r1
    r2 = r2
    r3 = r3
    r4 = r4
    r5 = r5
    Requests = {r1, r2, r3, r4, r5}
    Free = free
    Envelopes <- Rows
    Messages = {"m1"}
    Recipients = {"d1", "d2"}
    MessageOf <- RowMessage
    RecipientOf <- RowRecipient
    Kind <- Transactions
    Retention = 1
    BatchSize = 1
    MaxTime = 2
SYMMETRY AckSymmetry
INVARIANTS PayloadKeptUntilDue AnswersCurrent
PROPERTIES FirstTimesKept
