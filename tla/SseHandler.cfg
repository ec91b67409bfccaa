\* A channel of two messages and a logic that sends up to four, every choice
\* of messages that do not marshal.
SPECIFICATION FairSpec
CONSTANTS
    Capacity = 2
    MaxSent = 4
INVARIANTS
    WrittenInOrder
    ClosedDeliversAll
PROPERTIES
    HandlerLeaves
    LeakOnlyWhenFull
    ImplementsStream
