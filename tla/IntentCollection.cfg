SPECIFICATION FairSpec
CONSTANTS
    Split <- MCSplit
    KeyRank <- MCKeyRank
    Callers <- TwoPlaces
    ClientIds = {}
    Bodies <- MCBodies
    Directories <- ComesAndGoes
    MaxIds = 1
    MaxStarts = 2
    MaxPending = 2
    MaxRestarts = 1
    TokenClash = FALSE
INVARIANTS
    NoSilentLoss
PROPERTIES
    ImplementsLedger
    AbandonedIntentsCollected
