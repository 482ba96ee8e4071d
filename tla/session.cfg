SPECIFICATION Spec
CONSTANTS
    Senders = {"reactor", "maintenance"}
    PeerRequests = {"plain", "subscribe", "failing"}
    MaxRequests = 5
INVARIANTS
    SessionInv
    ResponseMeetsItsRequest
    OpenConnectionIsRead
    PendingUnanswered
PROPERTIES
    PromiseSetOnce
CHECK_DEADLOCK FALSE
