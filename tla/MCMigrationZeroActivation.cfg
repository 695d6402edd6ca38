\* A proposal with ActivationPeriod 0: startMigration makes the resolving
\* block the StartHeight, so StartHeight - 1 is already committed.
CONSTANTS
    Validators <- MCValidators
    Declarations <- MCZeroActivation
    ExpiryBlocks = 2
    MaxHeight = 2
    MaxCrashes = 0
    HeightBits = 8
    NoMigration = NoMigration
SPECIFICATION Spec
CHECK_DEADLOCK FALSE
INVARIANT SnapshotBeforeStart
