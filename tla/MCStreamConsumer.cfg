SPECIFICATION Spec
CONSTANTS
    ReadCount = 2
    MaxLen = 2
    MaxEntries = 4
INVARIANTS
    NoneForgotten
    RunInOrder
    OldestRetried
PROPERTIES
    ImplementsAtLeastOnce
    EveryEntryReached
