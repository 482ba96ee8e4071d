SPECIFICATION FairSpec
CONSTANTS
    me = me
    n1 = n1
    n2 = n2
    n3 = n3
    NoRow = NoRow
    NoPlan = NoPlan
    NodeId <- ThreeNodes
    Me = me
    Location <- WorldLocations
    MyLocation = "home"
    Places <- WorldPlaces
    Dist <- MCDist
    Bubble <- MCBubble
    Threads = {"main", "reactor"}
    TargetSize = 1
    Lifetime = 1
    IAmSeed = TRUE
    MergeCount = 0
    DiscoveryAttempts = 0
    MaxRestarts = 0
PROPERTIES
    NewColleagueOverlapsNone
