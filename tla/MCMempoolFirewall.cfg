\* The firewall of applyTransaction held to the table of spec §4.F, through
\* every migration phase of the old network and the new network's genesis.
CONSTANTS
    Accounts <- MCAccounts
    Validators <- MCValidators
    LocalNode <- MCLocalNode
    ResolutionIDs <- MCResolutionIDs
    StartMigration = StartMigration
    OtherResolution = OtherResolution
    MaxNonce = 1
    MaxBalance = 1
    Fees <- MCNoFees
    Amounts <- MCAmounts
    TxKinds <- MCFirewallKinds
    MaxVotesPerTx = 1
    DisabledGasCosts = TRUE
    InitialStatuses <- MCAnyStart
SPECIFICATION Spec
INVARIANT MigrationFirewallAsSpecified
