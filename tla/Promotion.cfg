SPECIFICATION FairSpec
CONSTANTS
    Canaries = {1}
    Steps = {25, 50}
    StartWeights = {5}
    Worlds <- MCWorlds
    Capacity = 1
    MaxRestarts = 1
    NoConfig = NoConfig
    NoPatch = NoPatch
PROPERTY HeardRollbackSticks WeightsFollowSteps 
