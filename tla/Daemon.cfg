SPECIFICATION FairSpec
CONSTANT MaxRespawns = 1
INVARIANTS
    TypeOK
    DestructorsFindTheirSingletons

    
CHECK_DEADLOCK FALSE
