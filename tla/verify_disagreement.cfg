CONSTANTS
    n1 = n1
    n2 = n2
    n3 = n3
    Nodes = {n1, n2, n3}
    MaxFaulty = 0
    MaxHeight = 2
    MaxIndex = 1
    Silence = Silence
SYMMETRY MCSymmetry
SPECIFICATION Spec
INVARIANTS DisagreementNeverSuccess
CHECK_DEADLOCK FALSE
