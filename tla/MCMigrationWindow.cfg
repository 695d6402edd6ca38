\* A proposal with Duration 0: startMigration neither checks the Duration
\* nor the sums it forms.
CONSTANTS
    Validators <- MCValidators
    Declarations <- MCZeroDuration
    ExpiryBlocks = 2
    MaxHeight = 2
    MaxCrashes = 0
    HeightBits = 8
    NoMigration = NoMigration
SPECIFICATION Spec
CHECK_DEADLOCK FALSE
INVARIANT WindowWellFormed
