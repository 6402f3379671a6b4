CONSTANTS
    p1 = p1
    Procs = {p1}
    NoProc = NoProc
    Account = Account
    Hashes <- MCHashes
    NoHash = NoHash
    GenesisHash <- MCGenesisHash
    MaxIndex = 2
    BlockHash <- MCBlockHash
    ForeignHashes <- MCForeign
    MaxTx = 2
    NoTx = NoTx
    MaxCrashes = 2
    Lagging = TRUE
SPECIFICATION FairSpec
INVARIANTS ReceiptTrue OneLiveTx InFlightMarked MinedIsRecorded MarkerAgrees
PROPERTIES AnchoredIsReceipted MarkerCleared
CHECK_DEADLOCK FALSE
