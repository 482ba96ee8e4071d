SPECIFICATION Spec
CONSTANTS
    Session = {"first", "second"}
    Threads = {"reactor", "maintenance"}
    MaxListeners = 3
INVARIANTS LeftIsGone
