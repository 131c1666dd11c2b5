SPECIFICATION Spec
CONSTANTS
    Split <- MCSplit
    KeyRank <- MCKeyRank
    Callers <- TwoNames
    ClientIds = {2}
    Bodies <- MCBodies
    Directories <- HostOnly
    MaxIds = 2
    MaxStarts = 2
    MaxPending = 2
    MaxRestarts = 0
    TokenClash = FALSE
INVARIANTS
    TypeOK
    ResultCorrelation
    IntentsEndForACause
    NoSilentLoss
    NoMissedDeparture
PROPERTIES
    ImplementsLedger
    VerdictIsFinal
