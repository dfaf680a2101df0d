SPECIFICATION FairSpec
CONSTANTS
    c1 = c1
    c2 = c2
    Validators = {v1, v2, v3, v4}
    Threshold = 2
    Skip = {v4}
    Byzantine = {v3}
    Unreliable = {v3, v4}
    BatchIds = {b1}
    Ciphertexts = {c1, c2}
    NoRecord = NoRecord
    NoRound = NoRound
    Lists <- SomeLists
    OrderCounts = {1, 2}
    MaxAsked = 2
INVARIANT TypeOK
INVARIANT BatchIsFixed
INVARIANT DecryptedWasOpenable
PROPERTY ImplementsPromise
PROPERTY SealedBatchDecrypts
\* The system may stop: the coordinator asks for nothing more.
CHECK_DEADLOCK FALSE
