CONSTANTS
    p1 = p1
    p2 = p2
    n1 = n1
    n2 = n2
    n3 = n3
    mac = mac
    phone = phone
    k1 = k1
    k2 = k2
    v1 = v1
    v2 = v2
    Procs = {p1, p2}
    MaxIndex = 2
    MaxBuilt = 4
    MaxTime = 3
    Nonces = {n1, n2}
    NoNonce = NoNonce
    Devices = {mac}
    Keys = {k1, k2}
    NoKey = NoKey
    Validators = {v1, v2}
    Key = v1
    MaxCrashes = 1
    MaxRotations = 1
    NoFile = NoFile
    Torn = Torn
    NoBlock = NoBlock
SYMMETRY MCSymmetry
SPECIFICATION Spec
INVARIANTS TypeOK WriterPassesVerify BlocksSound HeadLags
PROPERTIES ImplementsLog
CHECK_DEADLOCK FALSE
