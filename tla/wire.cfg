CONSTANTS
    Byte <- Bytes
    ArrayHeads <- ArrayTexts
    BulkHeads <- BulkTexts
    Number <- Numbers
    Unset = Unset
    Frames <- SomeFrames
    MaxFrames = 3
    MaxCuts = 1
SPECIFICATION Spec
INVARIANTS NoLockup ServedAsSent AnsweredAsServed AppliedAsServed
CHECK_DEADLOCK FALSE
