\* A waiter queued by a failed claim, then a claim without it and one with it.
SPECIFICATION FairSpec
CONSTANTS
    c1 = c1
    c2 = c2
    c3 = c3
    c4 = c4
    Clients = {c1, c2, c3, c4}
    Anonymous = {c3, c4}
    CallbackKinds <- MCKinds
    WaitTypes = {"NONE", "FIFO", "LIFO"}
    MaxClaims = 2
    Null = Null
    TheResource = TheResource
PROPERTIES ClaimDequeues
