SPECIFICATION FairSpec
CONSTANTS
    t1 = t1
    t2 = t2
    u1 = u1
    u2 = u2
    a = a
    b = b
    Tags = {a, b}
    Sizes = {"empty", "full"}
    Threads = {t1, t2, u1, u2}
    Home <- MCHome
    Plans <- TwoPlans
INVARIANTS
    TypeOK
    FramesWhole
    NothingLost
    SleepJustified
PROPERTIES
    MailboxSpec
    ReceiveCompletes
    FinalizeReturnsWhenPeersDie
\* When no thread has a call to make, nothing moves.
CHECK_DEADLOCK FALSE
