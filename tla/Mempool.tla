------------------------------ MODULE Mempool ------------------------------
(***************************************************************************)
(* The transaction admission logic of node/txapp/mempool.go.              *)
(*                                                                         *)
(* applyTransaction is the gate every transaction passes before it enters  *)
(* the node's mempool.  It first applies the migration firewall (which     *)
(* payload kinds the current MigrationStatus forbids), then the payload    *)
(* checks, then, under acctsMtx, the per-account bookkeeping: a cache      *)
(* `accounts` of unconfirmed nonce and balance, filled from the committed  *)
(* account store on first use and cleared by reset() at block commit.     *)
(*                                                                         *)
(* The environment of the gate is the chain: a block commit executes the   *)
(* transactions of this mempool together with transactions another        *)
(* proposer took from another node's mempool, may move MigrationStatus one *)
(* phase forward, and ends with reset().  Block execution itself is not    *)
(* code of this repository's src/ and is modelled from the spec.           *)
(***************************************************************************)
EXTENDS Integers, Sequences, FiniteSets, SequencesExt

CONSTANTS
    Accounts,          \* transaction senders (model values)
    Validators,        \* senders with validator power > 0
    LocalNode,         \* the account of this node's signer (nodeIdent)
    ResolutionIDs,     \* resolution ids a transaction may name
    StartMigration,    \* voting.StartMigrationEventType
    OtherResolution,   \* any other resolution type
    MaxNonce,          \* bound on transaction nonces
    MaxBalance,        \* bound on initial committed balances
    Fees,              \* fees a transaction may carry
    Amounts,           \* transfer amounts, negative ones included
    TxKinds,           \* the payload types the model submits
    MaxVotesPerTx,     \* NetworkParameters.MaxVotesPerTx
    DisabledGasCosts,  \* NetworkParameters.DisabledGasCosts
    InitialStatuses    \* the status the chain starts in: an ordinary network or a migration's new one

ASSUME Validators \subseteq Accounts /\ LocalNode \in Validators
ASSUME MaxNonce \in Nat \ {0} /\ MaxBalance \in Nat /\ Fees \subseteq Nat
ASSUME Amounts \subseteq Int /\ DisabledGasCosts \in BOOLEAN
ASSUME InitialStatuses \subseteq {"NoActiveMigration", "GenesisMigration"}

VARIABLES
    status,        \* NetworkParameters.MigrationStatus of the last committed block
    prevStatus,    \* the status before the last commit
    db,            \* committed account store: account -> [nonce, balance]
    accounts,      \* mempool.accounts: the unconfirmed-account cache
    pool,          \* accepted transactions, with the status they were accepted under
    resolutions,   \* pending resolutions: id -> type (resolutionByID)
    rebroadcast    \* resolution ids marked by Rebroadcaster.MarkRebroadcast

vars == <<status, prevStatus, db, accounts, pool, resolutions, rebroadcast>>

-----------------------------------------------------------------------------
(* MigrationStatus values and the predicates of applyTransaction.         *)

NoActiveMigration   == "NoActiveMigration"
ActivationPeriod    == "ActivationPeriod"
MigrationInProgress == "MigrationInProgress"
MigrationCompleted  == "MigrationCompleted"
GenesisMigration    == "GenesisMigration"
Statuses == {NoActiveMigration, ActivationPeriod, MigrationInProgress,
             MigrationCompleted, GenesisMigration}

\* status.Active(): an approved migration that has not completed.
Active(s) == s \in {ActivationPeriod, MigrationInProgress}
InMigration(s) == s \in {MigrationInProgress, MigrationCompleted}

\* Payload types.  The validator-set, raw-statement and transfer kinds that
\* the firewall switch lists are represented by one member each where the
\* rest of applyTransaction treats them alike.
ValidatorJoin == "validator_join"
RawStatement  == "raw_statement"
Transfer      == "transfer"
VoteIDs       == "validator_vote_ids"
VoteBodies    == "validator_vote_bodies"
CreateRes     == "create_resolution"
ApproveRes    == "approve_resolution"
Execute       == "execute"

BlockedInMigration == {ValidatorJoin, RawStatement, Transfer, VoteIDs, VoteBodies}

PayloadTypes == {ValidatorJoin, RawStatement, Transfer, VoteIDs, VoteBodies,
                 CreateRes, ApproveRes, Execute}

Tx == [sender : Accounts, nonce : 1..MaxNonce, fee : Fees,
       type : TxKinds \cap {ValidatorJoin, RawStatement, Execute, VoteBodies}]
      \cup [sender : Accounts, type : TxKinds \cap {Transfer}, nonce : 1..MaxNonce,
            fee : Fees, amount : Amounts]
      \cup [sender : Accounts, type : TxKinds \cap {CreateRes}, nonce : 1..MaxNonce,
            fee : Fees, resType : {StartMigration, OtherResolution}]
      \cup [sender : Accounts, type : TxKinds \cap {ApproveRes}, nonce : 1..MaxNonce,
            fee : Fees, resID : ResolutionIDs]
      \cup [sender : Accounts, type : TxKinds \cap {VoteIDs}, nonce : 1..MaxNonce,
            fee : Fees, voteIDs : SUBSET ResolutionIDs]

AccountState == [nonce : 0..MaxNonce, balance : 0..MaxBalance]

-----------------------------------------------------------------------------
(* The checks applyTransaction makes before it takes acctsMtx: each is a  *)
(* return of an error, leaving the mempool state as it was.               *)

\* resolutionByID: the type of a pending resolution, or NotFound.
NotFound == "not_found"
ResolutionType(id) == IF id \in DOMAIN resolutions THEN resolutions[id] ELSE NotFound

\* The migration firewall: the kinds the status s disallows.
Disallowed(tx, s) ==
    \/ InMigration(s) /\ tx.type \in BlockedInMigration
    \/ /\ tx.type = CreateRes
       /\ (Active(s) \/ s = GenesisMigration) /\ tx.resType = StartMigration
    \/ /\ tx.type = ApproveRes
       /\ Active(s) \/ s = GenesisMigration
       /\ ResolutionType(tx.resID) = StartMigration

\* The migration firewall and the payload checks, in the order of the code.
RejectedBeforeLock(tx, s) ==
    \/ Disallowed(tx, s)
    \/ tx.type = ApproveRes /\ ResolutionType(tx.resID) = NotFound
    \/ /\ tx.type = VoteIDs
       /\ \/ tx.sender \notin Validators
          \/ Cardinality(tx.voteIDs) > MaxVotesPerTx
    \/ tx.type = VoteBodies

\* accountInfo: the cached entry if there is one, else the committed account.
AccountInfo(a) == IF a \in DOMAIN accounts THEN accounts[a] ELSE db[a]

\* accountInfo stores a freshly read account in the cache.
CacheFill(a) == (a :> AccountInfo(a)) @@ accounts

\* The gas check: an account that never sent and holds nothing is refused.
\* Its delete(m.accounts, string(tx.Sender)) names the raw sender, not the
\* marshalled AccountID the cache is keyed by, so the filled entry remains.
Unfunded(acct) == ~DisabledGasCosts /\ acct.nonce = 0 /\ acct.balance = 0

\* Mutant: the balance check of a transfer is dropped.
TransferRejectedNoBalance(tx, acct) == tx.type = Transfer /\ tx.amount < 0

\* The transfer checks after the nonce check.
TransferRejected(tx, acct) ==
    tx.type = Transfer /\ (tx.amount < 0 \/ tx.amount > acct.balance)

Spend(tx) == tx.fee + (IF tx.type = Transfer THEN tx.amount ELSE 0)

\* Mutant: the pending balance is reduced without the floor at zero.
AppliedNoFloor(tx, acct) ==
    [nonce |-> tx.nonce, balance |-> acct.balance - Spend(tx)]

\* The pending balance is reduced by the spend, but no lower than zero,
\* and the nonce becomes the transaction's.
Applied(tx, acct) ==
    [nonce   |-> tx.nonce,
     balance |-> IF Spend(tx) > acct.balance THEN 0 ELSE acct.balance - Spend(tx)]

-----------------------------------------------------------------------------
(* applyTransaction(tx): one action, the whole function.  The status s is *)
(* the one it reads from the block context (line 68) before it takes       *)
(* acctsMtx: the current one, or, for a request that read its context      *)
(* before the last commit and took the lock after that commit's reset(),  *)
(* the one before.                                                         *)

ApplyTransaction(tx, s) ==
    LET a    == tx.sender
        acct == AccountInfo(a)
    IN
    \/ /\ RejectedBeforeLock(tx, s)
       /\ UNCHANGED vars
    \/ /\ ~RejectedBeforeLock(tx, s)
       /\ Unfunded(acct)
       /\ accounts' = CacheFill(a)
       /\ UNCHANGED <<status, prevStatus, db, pool, resolutions, rebroadcast>>
    \/ /\ ~RejectedBeforeLock(tx, s)
       /\ ~Unfunded(acct)
       /\ tx.nonce # acct.nonce + 1
       /\ accounts' = CacheFill(a)
       \* the local node's own vote ids are marked for rebroadcast
       /\ rebroadcast' = IF tx.type = VoteIDs /\ a = LocalNode
                         THEN rebroadcast \cup tx.voteIDs ELSE rebroadcast
       /\ UNCHANGED <<status, prevStatus, db, pool, resolutions>>
    \/ /\ ~RejectedBeforeLock(tx, s)
       /\ ~Unfunded(acct)
       /\ tx.nonce = acct.nonce + 1
       /\ TransferRejected(tx, acct)
       /\ accounts' = CacheFill(a)
       /\ UNCHANGED <<status, prevStatus, db, pool, resolutions, rebroadcast>>
    \/ /\ ~RejectedBeforeLock(tx, s)
       /\ ~Unfunded(acct)
       /\ tx.nonce = acct.nonce + 1
       /\ ~TransferRejected(tx, acct)
       /\ accounts' = [CacheFill(a) EXCEPT ![a] = Applied(tx, acct)]
       /\ pool' = Append(pool, [tx |-> tx, at |-> status])
       /\ UNCHANGED <<status, prevStatus, db, resolutions, rebroadcast>>

\* accountInfoSafe(a): accountInfo under acctsMtx, for a caller outside
\* applyTransaction; it fills the cache with a committed account not yet
\* in it.
AccountInfoSafe(a) ==
    /\ accounts' = CacheFill(a)
    /\ UNCHANGED <<status, prevStatus, db, pool, resolutions, rebroadcast>>

\* Mutant: reset() leaves the cache as it is.
ResetKeepsCache == accounts' = accounts

\* reset(): clears the unconfirmed account states at the end of block commit.
Reset == accounts' = <<>>

-----------------------------------------------------------------------------
(* The chain around the mempool (spec §4.E, §4.H; block execution is not  *)
(* under src/).  A block executes, in order, transactions other proposers *)
(* took from other mempools and then every transaction of this pool; a    *)
(* transaction whose nonce is not the next one of its account is skipped. *)
(* NotifyHeight may then move the status one phase forward; the old       *)
(* network halts at MigrationCompleted.                                   *)

\* Executing one transaction against the account store: the nonce always
\* advances, the fee is charged, a transfer moves its amount when funded.
ExecuteTx(d, tx) ==
    LET a   == tx.sender
        bal == d[a].balance
        fee == IF tx.fee > bal THEN bal ELSE tx.fee
        amt == IF tx.type = Transfer /\ tx.amount >= 0 /\ tx.amount <= bal - fee
               THEN tx.amount ELSE 0
    IN  IF tx.nonce # d[a].nonce + 1 THEN d
        ELSE [d EXCEPT ![a] = [nonce |-> tx.nonce, balance |-> bal - fee - amt]]

\* A transaction of another node's mempool: the next nonce, any spend.
ForeignTxs(d) ==
    UNION {{[sender |-> a, type |-> Transfer, nonce |-> d[a].nonce + 1, fee |-> 0,
             amount |-> x] : x \in 0..d[a].balance} :
           a \in {b \in Accounts : d[b].nonce < MaxNonce}}

\* The phase NotifyHeight may move to at the end of a block.
NextStatus(s) ==
    CASE s = NoActiveMigration   -> {NoActiveMigration, ActivationPeriod}
      [] s = ActivationPeriod    -> {ActivationPeriod, MigrationInProgress}
      [] s = MigrationInProgress -> {MigrationInProgress, MigrationCompleted}
      [] s = GenesisMigration    -> {GenesisMigration}

CommitBlock ==
    /\ status # MigrationCompleted
    /\ \E foreign \in SUBSET ForeignTxs(db), s \in NextStatus(status) :
         /\ \A f, g \in foreign : f.sender = g.sender => f = g
         /\ db' = FoldLeft(ExecuteTx,
                           FoldSet(LAMBDA f, d : ExecuteTx(d, f), db, foreign),
                           [i \in 1..Len(pool) |-> pool[i].tx])
         /\ status' = s
    /\ prevStatus' = status
    /\ pool' = <<>>
    /\ Reset
    /\ UNCHANGED <<resolutions, rebroadcast>>

-----------------------------------------------------------------------------

Init ==
    /\ status \in InitialStatuses
    /\ prevStatus = status
    /\ db \in [Accounts -> [nonce : {0}, balance : 0..MaxBalance]]
    /\ accounts = <<>>
    /\ pool = <<>>
    /\ resolutions \in UNION {[S -> {StartMigration, OtherResolution}] :
                                  S \in SUBSET ResolutionIDs}
    /\ rebroadcast = {}

Next ==
    \/ \E tx \in Tx, s \in {status, prevStatus} : ApplyTransaction(tx, s)
    \/ \E a \in Accounts : AccountInfoSafe(a)
    \/ CommitBlock

Spec == Init /\ [][Next]_vars

-----------------------------------------------------------------------------
(* Properties.                                                            *)

TypeOK ==
    /\ {status, prevStatus} \subseteq Statuses
    /\ db \in [Accounts -> AccountState]
    /\ DOMAIN accounts \subseteq Accounts
    /\ \A a \in DOMAIN accounts : accounts[a] \in AccountState
    /\ pool \in Seq([tx : Tx, at : Statuses])
    /\ rebroadcast \subseteq ResolutionIDs

\* The nonces of the pending transactions of account a, in pool order.
PendingNonces(a) ==
    LET mine == SelectSeq(pool, LAMBDA e : e.tx.sender = a)
    IN  [i \in 1..Len(mine) |-> mine[i].tx.nonce]

\* The nonce bookkeeping of applyTransaction and reset stays in step with
\* the account store across commits that include other nodes' transactions:
\* an account's pending transactions carry exactly the nonces after its
\* committed one, without gap or repeat, and its cached nonce is the last
\* of them (the comment before `acct.Nonce = ...` states this intent).
PendingNoncesContiguous ==
    \A a \in Accounts :
        /\ PendingNonces(a) = [i \in 1..Len(PendingNonces(a)) |-> db[a].nonce + i]
        /\ a \in DOMAIN accounts =>
               accounts[a].nonce = db[a].nonce + Len(PendingNonces(a))
        /\ a \notin DOMAIN accounts => PendingNonces(a) = <<>>

\* Sum of the amounts of account a's pending transfers.
PendingTransferTotal(a) ==
    FoldLeft(LAMBDA acc, e : acc + IF e.tx.sender = a /\ e.tx.type = Transfer
                                  THEN e.tx.amount ELSE 0, 0, pool)

\* "Transfers must be funded regardless of transaction gas requirement":
\* whatever sequence of transactions the mempool accepted, the transfers an
\* account has pending never add up to more than its committed balance, and
\* the cached balance never exceeds the committed one.
TransfersFunded ==
    \A a \in Accounts :
        /\ PendingTransferTotal(a) <= db[a].balance
        /\ a \in DOMAIN accounts => accounts[a].balance <= db[a].balance

\* The firewall table of spec §4.F, as the reference the code is held to:
\* with active = {ActivationPeriod, MigrationInProgress} and inMigration =
\* {MigrationInProgress, MigrationCompleted}, validator, vote, raw-statement
\* and transfer payloads are blocked when inMigration, and proposals or
\* approvals of a StartMigration resolution when active, inMigration or in
\* GenesisMigration.
SpecFirewallAllows(tx, s) ==
    LET active  == s \in {ActivationPeriod, MigrationInProgress}
        inMig   == s \in {MigrationInProgress, MigrationCompleted}
        migRes  == \/ tx.type = CreateRes /\ tx.resType = StartMigration
                   \/ tx.type = ApproveRes /\ ResolutionType(tx.resID) = StartMigration
    IN  /\ tx.type \in BlockedInMigration => ~inMig
        /\ migRes => ~(active \/ inMig \/ s = GenesisMigration)

\* The table of §4.F against applyTransaction's firewall: in every phase
\* the chain goes through, a transaction that passes the checks before
\* acctsMtx is one §4.F allows in that phase.
MigrationFirewallAsSpecified ==
    \A tx \in Tx : ~RejectedBeforeLock(tx, status) => SpecFirewallAllows(tx, status)

\* Spec invariant 6 as applyTransaction's own firewall states it: no
\* transaction of a kind disallowed in the current phase is ever accepted,
\* whatever commit and reset() happen between the read of the block
\* context's status (line 68) and acctsMtx (line 161).
FirewallAtAcceptance ==
    \A i \in 1..Len(pool) : ~Disallowed(pool[i].tx, pool[i].at)
=============================================================================
