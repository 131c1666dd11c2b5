SPECIFICATION Spec
CONSTANTS
    Split <- MCSplit
    KeyRank <- MCKeyRank
    EnableSession = FALSE
    SessionIds <- NoSessions
    AppIds = {"notes", "viewer"}
    Manifest <- MCManifest
    Conf <- MCConf
    MayRefuse = FALSE
    MaxQueue = 1
    MaxListed = 1
INVARIANTS
    HandlersHaveTheirOwnFilters
