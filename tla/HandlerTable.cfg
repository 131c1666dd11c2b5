SPECIFICATION Spec
CONSTANTS
    Split <- MCSplit
    KeyRank <- MCKeyRank
    Candidates <- MCCandidates
    Probes <- MCProbes
INVARIANTS
    TypeOK
    KeysIdentifyApps
    FirstAddedStays
    FilterMeaning
