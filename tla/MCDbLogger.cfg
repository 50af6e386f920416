SPECIFICATION DbSpec
CONSTANTS
    ReadCount = 2
    MaxLen = 3
    MaxEntries = 3
    Row = {1, 2, 3}
    BatchSize = 2
    LockKinds = {"Lock", "RLock"}
INVARIANTS
    DbSound
PROPERTY AutoFlushReentrant
