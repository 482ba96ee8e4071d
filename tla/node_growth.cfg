SPECIFICATION Spec
CONSTANTS
    me = me
    n1 = n1
    n2 = n2
    n3 = n3
    NoRow = NoRow
    NoPlan = NoPlan
    NodeId <- TwoNodes
    Me = me
    Location <- NeighbourhoodLocations
    MyLocation = "home"
    Places <- MovingPlaces
    Dist <- MCDist
    Bubble <- MCBubble
    Threads = {"reactor", "discovery", "renewer"}
    TargetSize = 1
    Lifetime = 1
    IAmSeed = TRUE
    MergeCount = 1
    DiscoveryAttempts = 1
    MaxRestarts = 1
CONSTRAINTS
    OneAtATime
    NoTimePasses
INVARIANTS
    SelfUntouched
    NoHearsay
    ReactorNeverAsks
    IInv
