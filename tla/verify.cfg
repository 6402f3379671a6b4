CONSTANTS
    n1 = n1
    n2 = n2
    n3 = n3
    Nodes = {n1, n2, n3}
    MaxFaulty = 1
    MaxHeight = 3
    MaxIndex = 1
    Silence = Silence
SYMMETRY MCSymmetry
SPECIFICATION Spec
INVARIANTS VerifiedIsAnchored VerdictFresh
CHECK_DEADLOCK FALSE
