SPECIFICATION FairSpec
CONSTANTS
    me = me
    n1 = n1
    n2 = n2
    n3 = n3
    NoRow = NoRow
    NoPlan = NoPlan
    NodeId <- TwoNodes
    Me = me
    Location <- NeighbourhoodLocations
    MyLocation = "home"
    Places <- FixedPlaces
    Dist <- MCDist
    Bubble <- MCBubble
    Threads = {"reactor", "maintenance"}
    TargetSize = 1
    Lifetime = 1
    IAmSeed = FALSE
    MergeCount = 0
    DiscoveryAttempts = 0
    MaxRestarts = 0
INVARIANTS
    TypeOK
    ExpiredStillStored
PROPERTIES
    ExcessNeighboursExpire
    DowngradeNeedsRace
    ImplementsNodeTable
