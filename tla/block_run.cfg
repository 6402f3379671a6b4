CONSTANTS
    MaxIndex = 2
    MaxBuilt = 3
    MaxRev = 6
    MaxDispatch = 2
    Account = Account
    NoHash = NoHash
    NoRequest = NoRequest
SPECIFICATION FairSpec
INVARIANTS TypeOK MainMatchesBase BaseOneAhead AnchoredIsKept
PROPERTIES MainGrows RequestSealed
CHECK_DEADLOCK FALSE
