SPECIFICATION RecoverySpec
CONSTANTS
    Split <- MCSplit
    KeyRank <- MCKeyRank
    EnableSession = TRUE
    SessionIds <- OneSession
    AppIds = {"notes", "browser"}
    Manifest <- MCManifest
    Conf <- MCConf
    MayRefuse = TRUE
    MaxQueue = 2
    MaxListed = 3
INVARIANTS
    DeclaredFiltersAreOwn
PROPERTIES
    AppsBecomeLaunchable
    StaleHandlersGo
    ImplementsCatalog
