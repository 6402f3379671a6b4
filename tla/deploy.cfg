CONSTANTS
    MaxTx = 3
    NonceLimit = 2
    MaxGenesis = 2
    MaxOther = 1
    MaxDeaths = 1
    None = None
    Alien = Alien
    Nothing = Nothing
SPECIFICATION FairSpec
INVARIANTS DeployedOnce RecordsTrue MainKeeps
PROPERTIES RecordedInTheEnd
CHECK_DEADLOCK FALSE
