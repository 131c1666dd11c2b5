SPECIFICATION Spec
CONSTANTS
    Split <- MCSplit
    KeyRank <- MCKeyRank
    Callers <- TwoPlaces
    ClientIds = {}
    Bodies <- MCBodies
    Directories <- BothSessions
    MaxIds = 2
    MaxStarts = 2
    MaxPending = 2
    MaxRestarts = 0
    TokenClash = FALSE
INVARIANTS
    IntentsEndForOwnCause
