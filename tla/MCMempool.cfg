CONSTANTS
    Accounts <- MCAccounts
    Validators <- MCValidators
    LocalNode <- MCLocalNode
    ResolutionIDs <- MCResolutionIDs
    StartMigration = StartMigration
    OtherResolution = OtherResolution
    MaxNonce = 2
    MaxBalance = 2
    Fees <- MCFees
    Amounts <- MCAmounts
    TxKinds <- MCAccountKinds
    MaxVotesPerTx = 1
    DisabledGasCosts = FALSE
    InitialStatuses <- MCGenesisStart
SPECIFICATION Spec
INVARIANTS
    TypeOK
    PendingNoncesContiguous
    TransfersFunded
