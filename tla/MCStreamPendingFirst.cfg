SPECIFICATION Spec
CONSTANTS
    ReadCount = 2
    MaxLen = 4
    MaxEntries = 4
INVARIANT PendingFirst
