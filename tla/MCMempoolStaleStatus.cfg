\* applyTransaction reads the status before it takes acctsMtx; a block
\* commit that moves the status may come in between.
CONSTANTS
    Accounts <- MCAccounts
    Validators <- MCValidators
    LocalNode <- MCLocalNode
    ResolutionIDs <- MCResolutionIDs
    StartMigration = StartMigration
    OtherResolution = OtherResolution
    MaxNonce = 1
    MaxBalance = 1
    Fees <- MCNoFees
    Amounts <- MCAmounts
    TxKinds <- MCFirewallKinds
    MaxVotesPerTx = 1
    DisabledGasCosts = TRUE
    InitialStatuses <- MCAnyStart
SPECIFICATION Spec
INVARIANT FirewallAtAcceptance
