CONSTANTS
    MaxIndex = 1
    MaxBuilt = 2
    MaxRev = 4
    MaxDispatch = 1
    Account = Account
    NoHash = NoHash
    NoRequest = NoRequest
SPECIFICATION Spec
INVARIANTS OneInFlight
CHECK_DEADLOCK FALSE
