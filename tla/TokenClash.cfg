SPECIFICATION Spec
CONSTANTS
    Split <- MCSplit
    KeyRank <- MCKeyRank
    Callers <- TwoNames
    ClientIds = {}
    Bodies <- MCBodies
    Directories <- HostOnly
    MaxIds = 2
    MaxStarts = 2
    MaxPending = 2
    MaxRestarts = 0
    TokenClash = TRUE
INVARIANTS
    NoMissedDeparture
