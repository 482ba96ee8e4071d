SPECIFICATION FairSpec
CONSTANTS
    Remote = {"r1", "r2", "r3"}
    Me = "me"
    Dist <- MCDist
    Host <- MCHost
    TargetSize = 2
    Networks <- MCNetworks
    Policies <- MCPolicies
    SeedLists <- MCSeedLists
INVARIANTS BootInv WorldExhausted NeighboursExhausted
PROPERTIES RoundEnds Joins
