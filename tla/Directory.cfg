SPECIFICATION Spec
CONSTANTS
    Split <- MCSplit
    KeyRank <- MCKeyRank
    EnableSession = TRUE
    SessionIds <- HostAndUser
    AppIds = {"notes"}
    Manifest <- MCManifest
    Conf <- MCConf
    MayRefuse = TRUE
    MaxQueue = 2
    MaxListed = 3
INVARIANTS
    TypeOK
    NoOrphanHandlers
    HandlersMirrorApps
    SessionsFollowAccount
    NothingOutlivesItsService
PROPERTIES
    SurvivorsKeepHandlers
