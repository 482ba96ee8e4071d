SPECIFICATION Spec
CONSTANTS
    me = me
    n1 = n1
    s1 = s1
    NodeId <- OneNode
    Me = me
    Service <- OneService
    Threads = {"reactor", "maintenance"}
    MaxRestarts = 1
INVARIANTS
    DbInv
    UncontendedCall
    AloneInv
    RemovalsFindTheirRow
PROPERTIES
    ServiceLostByRace
    ImplementsNodeTable
