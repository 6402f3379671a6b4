CONSTANTS
    a1 = a1
    a2 = a2
    a3 = a3
    h1 = h1
    h2 = h2
    h3 = h3
    Accounts <- MCAccounts
    Hashes <- MCHashes
    NoHash = NoHash
    GenesisHash = h1
    MaxIndex = 5
SPECIFICATION ContractSpec
INVARIANTS Contiguous
PROPERTIES ImplementsLog
