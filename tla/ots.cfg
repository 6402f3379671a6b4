CONSTANTS
    MaxStamps = 2
    Complete = 2
    MaxCrashes = 2
SPECIFICATION FairNightSpec
INVARIANTS NightTypeOK BackupIsOlder FailureLeavesNothing AnswerTrue
PROPERTIES NoProofLost MainProofKept WitnessedInTheEnd
CHECK_DEADLOCK FALSE
