SPECIFICATION FairSpec
CONSTANTS
    Agents <- MCAgents
    Kinds <- MCKinds
    Configs <- MCConfigs
    MaxFaults = 1
INVARIANTS
    
    AcceptedServes
    RootLabelIsTheRoots
    ProvidersStartHigher
PROPERTY
    AnnouncedGetsSealed
CHECK_DEADLOCK FALSE
