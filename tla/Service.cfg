SPECIFICATION FairServiceSpec
CONSTANTS
    Split <- MCSplit
    KeyRank <- ServiceRank
    EnableSession = TRUE
    SessionIds <- OneSession
    AppIds = {"browser"}
    Manifest <- MCManifest
    Conf <- MCConf
    MayRefuse = FALSE
    MaxQueue = 2
    MaxListed = 1
    Callers <- Requester
    ClientIds = {}
    Bodies <- MCBodies
    MaxIds = 1
    MaxStarts = 1
    MaxPending = 1
    MaxRestarts = 1
    TokenClash = FALSE
PROPERTIES
    LaunchesAreOfInstalledApps
    IntentsBecomeStartable
