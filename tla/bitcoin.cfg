CONSTANTS
    LastBlock = 2
    MaxHeight = 2
    MaxSource = 2
    MaxNamed = 2
    Budget = 2
    Forged = Forged
    Error = Error
    Empty = Empty
    Unknown = Unknown
    Unanswered = Unanswered
    Unset = Unset
SPECIFICATION FairSpec
INVARIANTS CompleteIsCarried FailedIsContradicted
PROPERTIES VerifyEnds
CHECK_DEADLOCK FALSE
