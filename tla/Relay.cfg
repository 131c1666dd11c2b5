SPECIFICATION Spec
CONSTANTS
    Ints <- MCInts
    Documents <- MCDocuments
    MaxIds = 3
    MaxStarts = 3
INVARIANTS
    RelayKeepsTheIntent
    ChainsApart
    AnswersReachTheChain
    ParseReadsTheUri
    AccessAgrees
CHECK_DEADLOCK FALSE
