SPECIFICATION FairSpec
CONSTANTS
    n1 = n1
    n2 = n2
    NoRow = NoRow
    NoCall = NoCall
    Node <- TwoNodes
    Info = {"plain"}
    Lifetime = 2
    EventsPerPeriod = 2
INVARIANTS
    TypeOK
    CrossingCallsAgree
    PeersInv
PROPERTIES
    ExpiresOnlyBroken
    RelationsSettle
    NodesKeepServing
