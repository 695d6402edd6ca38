CONSTANTS
    Validators <- MCValidators
    Declarations <- MCDeclarations
    ExpiryBlocks = 2
    MaxHeight = 4
    MaxCrashes = 2
    HeightBits = 8
    NoMigration = NoMigration
SPECIFICATION Spec
\* The old network halts block production at MigrationCompleted.
CHECK_DEADLOCK FALSE
INVARIANTS
    ChangesetsComplete
PROPERTIES
    LifecycleRefined
    NoChangesetRewrite
    MigrationCompletes
