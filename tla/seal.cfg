CONSTANTS
    m1 = m1
    m2 = m2
    d1 = d1
    d2 = d2
    acceptance = acceptance
    invoice = invoice
    Machines = {m1, m2}
    Docs = {d1, d2}
    Kinds = {acceptance, invoice}
    Lines <- MCLines
    MaxBlocks = 2
    MaxAccidents = 1
    NoFile = NoFile
    Torn = Torn
    NoLine = NoLine
SPECIFICATION FairSpec
INVARIANTS SealedOnce RequestsKnow ReportsTrue
PROPERTIES ReportedInTheEnd
CHECK_DEADLOCK FALSE
