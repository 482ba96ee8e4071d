SPECIFICATION FairSpec
CONSTANTS
    n1 = n1
    n2 = n2
    NoRow = NoRow
    NoCall = NoCall
    Node <- TwoNodes
    Info = {"plain", "service"}
    Lifetime = 2
    EventsPerPeriod = 1
PROPERTIES
    ExploreHearsAnswers
