CONSTANTS
    p1 = p1
    p2 = p2
    n1 = n1
    n2 = n2
    n3 = n3
    mac = mac
    phone = phone
    k1 = k1
    k2 = k2
    v1 = v1
    v2 = v2
    Procs = {p1}
    MaxIndex = 1
    MaxBuilt = 2
    MaxTime = 2
    Nonces = {n1, n2}
    NoNonce = NoNonce
    Devices = {mac}
    Keys = {k1}
    NoKey = NoKey
    Validators = {v1}
    Key = v1
    MaxCrashes = 0
    MaxRotations = 1
    NoFile = NoFile
    Torn = Torn
    NoBlock = NoBlock
SPECIFICATION Spec
PROPERTIES DroppedDeviceHarmless
CHECK_DEADLOCK FALSE
