# TLA+ models of kwil-db's mempool admission, migration and boot logic

This directory holds TLA+ specifications of the parts of kwil-db whose
correctness depends on the order of steps: transaction admission into the
mempool, the zero-downtime migration of the old network, action modifier
parsing, node database bootstrap and the validator workflow.
Every module is checked with TLC through the configurations listed below;
`PROJECT.json` records the runs, the source lines each definition translates,
the mutants each property must catch, the findings and the hazards.

## The system and how its parts interact

| Part | Code | State it keeps | Operations |
|---|---|---|---|
| Mempool admission | `src/node/txapp/mempool.go` | `accounts`: cache of unconfirmed nonce and balance per account, under `acctsMtx` | `applyTransaction` (firewall, payload checks, nonce and balance bookkeeping), `accountInfo` and `accountInfoSafe` (cache fill), `reset` (clear at block commit) |
| Migration (old network) | resolve callback `startMigration` of package migrations, kept in `src/.github/workflows/kgw-test-reuse.yaml`; Migrator, vote and changeset stores from spec.md 4.B-4.E; tests in `src/test/specifications/migration.go` | `MigrationStatus`, the active migration `[StartHeight, EndHeight)`, pending StartMigration resolutions, the changeset store | create/approve resolution, resolve callback, `NotifyHeight` per committed block, changeset drain and `.committed` sentinel |
| Genesis snapshot / node boot | `src/unnamed/part_002` (`buildDB`, `restoreDB`, `isDbInitialized`) | the local database, the `kwild_voting` schema | restore from statesync or genesis snapshot, resolution cleanup, replica identity |
| Action modifiers | `src/unnamed/part_001` (`action.FromAST`, `stringToMod`) | none (pure) | parse the modifier list of CREATE ACTION |
| Validator workflow | `src/unnamed/part_000` (test specifications) | validator set, join requests, removal votes | join, approve, leave, remove, expiry |
| Declaration codec | `MarshalBinary`, `UnmarshalBinary` in `src/.github/workflows/kgw-test-reuse.yaml`; byte order and string prefix from spec.md 3 | none (pure) | `encode`, `decode`, the payload byte order of the resolution tie-break |
| Admin CLI, client and store options (not modelled) | `src/app/rpc/dump-cfg.go`, `src/cmd/kwil-cli/cmds/utils/chain_info.go`, `src/core/rpc/client/opts.go`, `src/node/store/_v1/opts.go` | the message printed, `ActionCallOpts.AuthCookies`, the store's `options.logger` | `dump-config`, `chain-info`, `WithAuthCookie`, `WithLogger`, `badgerLogger`'s four log methods |
| Other glue | spamd, the CI jobs, the block processor interfaces | none | process launch |

The parts meet at the block commit. A block's transactions were admitted by
`applyTransaction` under the `MigrationStatus` of the last block. The commit
executes them, processes resolutions (a confirmed StartMigration resolution
fixes the migration window), runs `NotifyHeight` (status change, genesis
snapshot at `StartHeight - 1`, changeset drain in the window), and finally
calls the mempool's `reset`. The new network boots from the genesis snapshot
through `restoreDB`.

## Modules

### `Mempool.tla`, `MCMempool.tla`

Models `mempool.go`.

- **State.** The mempool cache `accounts` and the pool of accepted
  transactions, each with the status it was admitted under. Around them, the
  committed account store `db`, `status` and the status before the last
  commit (`prevStatus`), the pending `resolutions` (what `resolutionByID`
  reads) and the ids marked by `MarkRebroadcast`.
- **`ApplyTransaction(tx, s)`** is the whole of `applyTransaction`: one
  disjunct per outcome, in the code's order.
  - `s` is the status the function reads from its block context at line 68,
    before it takes `acctsMtx` at line 161. It is the current status, or the
    one before the last commit: a request may read its context, then wait
    for the lock while the commit's `reset` holds it.
  - `Disallowed(tx, s)` is the migration firewall.
  - The checks after the firewall are in `RejectedBeforeLock`.
  - The firewall and payload checks before the lock (`RejectedBeforeLock`)
    leave everything unchanged.
  - The unfunded and bad-nonce returns still keep the cache entry that
    `accountInfo` stored. The `delete` at line 172 names the raw sender, not
    the cache key, so the entry stays.
  - A bad nonce on the node's own vote-ids transaction marks its ids for
    rebroadcast.
  - On acceptance the pending balance drops by the spend, floored at 0, and
    the nonce becomes the transaction's.
- **`AccountInfoSafe(a)`** is `accountInfoSafe`: `accountInfo` under
  `acctsMtx`, for callers outside this file. It fills the cache like
  `accountInfo`.
- **`CommitBlock`** is the environment (spec-modelled).
  - It executes transactions other proposers took from other mempools, then
    this pool, skipping a transaction whose nonce is not next.
  - It may move the status one phase forward.
  - It ends with `Reset`, as the comment of `reset` requires.

### `Migration.tla`, `MigrationLifecycle.tla`, `MCMigration.tla`

Models the old network's side of a migration.
- The resolve callback `startMigration` of package migrations is kept in
  `src/.github/workflows/kgw-test-reuse.yaml`, and is translated from
  there: `CanStartMigration`, `Int64`, `AddI64`, `NewMigration`, and the
  deletion of the pending StartMigration resolutions in `CommitBlock`.
- The Migrator, the vote store and the changeset store are not under
  `src/`; they are modelled from spec.md.
- The proposal and approval steps follow the migration test
  specifications.

- A block `height+1` of the window is committed in three actions, because
  the changeset files are written before the SQL commit:
  1. `DrainChangeset` writes the chunks. If the `.committed` sentinel already
     exists, it skips them.
  2. `SealChangeset` writes the sentinel.
  3. `CommitBlock` runs the block's proposals and approvals, resolves
     confirmed resolutions in payload order (`FirstPayload`, which compares
     the encodings of `DeclarationCodec` byte by byte), drops expired
     ones and runs `NotifyHeight` (`NotifyStatus`, `NotifySnapshot`).
- `Crash` may happen between any two of these steps; the block is then
  executed again.
- Heights are i64, scaled to `HeightBits` bits.
  - `Int64` is Go's `int64(x)` of a uint64 field, and `AddI64` is i64
    addition. Both wrap around in two's complement.
  - `startMigration` checks neither the Duration nor the sums.
  - The first confirmed resolution in payload order starts the migration.
    Its deletion of the StartMigration resolutions removes the others.
- `MigrationLifecycle` is the abstract specification.
  - The status is `NoActiveMigration` until a window is fixed, at most once.
  - From then on the status is a function of the committed height.
  - `Migration` refines it under the mapping window = active record.

### `ActionModifiers.tla`

Models `FromAST`'s modifier loop as a RECURSIVE operator, with
`stringToMod`'s case-insensitive mapping. A modifier string is modelled as
its lower-case word plus whether it was written in upper case, so `ToLower`
is the projection on the word. `ReferenceModifiers` states what the error
messages promise, independently of the loop:
- every string names a modifier;
- exactly one PUBLIC, PRIVATE or SYSTEM occurs, counting repeats;
- the result keeps each modifier once, in order of first occurrence.

### `NodeBoot.tla`

Models `buildDB`, `restoreDB`, `isDbInitialized`/`schemaExists` and
`failBuild` (`src/unnamed/part_002`).

- **State.** The configuration, fixed across restarts: statesync enabled,
  StateHash set, snapshot file given, hash matching. The database is the
  `kwild_voting` schema flag plus its content: empty, partial, snapshot or
  synced. The process keeps its step and the local `fromGenesisSnapshot`
  flag, which is lost on restart.
- **Actions**, one per decision of the code:
  - `CheckInitialized`;
  - `DoStatesync`: success, no success, or error;
  - `RestoreGenesis`: no StateHash, a fatal configuration, or a completed
    restore;
  - `RestoreInterrupted`;
  - `OpenDB`, which may fail;
  - `CleanupResolutions` and `EnsureReplicaIdentity`;
  - `Restart`, a crash at any step or the operator's restart after
    `failBuild`.
- **Interrupted restore.** A logical dump creates its schemas before it
  loads rows, so `RestoreInterrupted` chooses whether `kwild_voting`
  already exists.

### `Validators.tla`, `MCValidators.tla`

Models the validator workflow that the validator test specifications of
`src/unnamed/part_000` fix:
- a join request has a board (the validators at request time) and starts
  with 0 approvals;
- an existing validator cannot join;
- board members approve, and at 2/3 the joiner is admitted and the request
  removed;
- the leader cannot leave or be removed, and non-validators can do neither;
- removal needs votes from more than 2/3 of the validators: 2 of 4 do not
  remove, 3 of 4 do;
- a join request expires after `JoinExpiry` blocks.

The vote store is not under `src/`. The model drops a leaving validator's
removal votes and the votes against it; that is an assumption.

No validator implementation is under `src/`: the test expectations above
are the guards of the actions. A property about them would restate a
guard, so the run checks only the type invariant. For example, an existing
validator never has a pending join request.

### `DeclarationCodec.tla`

Models `MigrationDeclaration.MarshalBinary` and `UnmarshalBinary` of package
migrations, kept in `src/.github/workflows/kgw-test-reuse.yaml`.
- The binary form is the uint16 version, ActivationPeriod and Duration as
  uint64, then `types.WriteString` of the Timestamp. `types` is not under
  `src/`, so the little-endian byte order and the length prefix are those of
  spec 3.
- `Encode` writes the fields in that order.
- `Decode` reads them back. It fails with `Truncated` on a short read, or
  with `UnknownVersion` on a version other than 0. Like the code, it never
  looks at what follows the Timestamp.
- `BytesLess` is ascending byte order. `Migration`'s tie-break uses it
  through `Codec == INSTANCE DeclarationCodec WITH ...`, with 256 byte
  values and two-byte words.
  - For fields below 256^2 the six high bytes of a uint64 are zero, so they
    do not change the order.
  - TLC's integers could not hold 256^7.
- The module's own check has one variable, `payload`, chosen among every
  byte string up to a bound. Nothing changes it.
- `Canonical` (spec 4.A): a payload that decodes is the encoding of what it
  decodes to. Without it, two byte strings that the vote store tells apart
  are one declaration.

## Runs

| Run | Config | Expect | What it shows |
|---|---|---|---|
| `mempool_accounts` | `MCMempool.cfg` | pass | The checks below hold across any interleaving of admissions and commits that include other nodes' transactions. |
| `mempool_firewall_spec` | `MCMempoolFirewall.cfg` | violation | `applyTransaction`'s firewall passes a StartMigration proposal in `MigrationCompleted`; spec 4.F forbids it. |
| `mempool_stale_status` | `MCMempoolStaleStatus.cfg` | violation | A request that read the status before a commit is accepted after it, in a phase that disallows it. |
| `migration` | `MCMigration.cfg` | pass | See below. |
| `migration_zero_activation` | `MCMigrationZeroActivation.cfg` | violation | A declaration with ActivationPeriod 0 makes the resolving block the StartHeight; the status reaches MigrationInProgress without the genesis snapshot. |
| `migration_window` | `MCMigrationWindow.cfg` | violation | `startMigration` creates a migration with EndHeight = StartHeight from a declaration with Duration 0. |
| `node_boot` | `MCNodeBoot.cfg` | pass | Over all 16 configurations and up to two restarts: a database with a complete state is never restored over, and the post-restore steps run only on a genesis-restored database. |
| `node_boot_cleanup` | `MCNodeBootCleanup.cfg` | violation | A restart between the genesis restore and the resolution cleanup brings the node up without cleanup. |
| `node_boot_partial` | `MCNodeBootPartial.cfg` | violation | An interrupted restore that already created `kwild_voting` is taken as an initialized database. |
| `validators` | `MCValidators.cfg` | pass | Across joins, approvals, leaves, removals and expiry, the validator state keeps its type; an existing validator never has a pending join request. |
| `declaration_codec` | `MCDeclarationCodec.cfg` | violation | `UnmarshalBinary` accepts a declaration followed by an unread byte, which is not the encoding of what it decodes to. |
| `action_modifiers` | `MCActionModifiers.cfg` | pass | `FromAST` agrees with the reference on every statement of up to 3 modifiers. |

`mempool_accounts` checks that:
- pending nonces stay contiguous after the committed nonce;
- the cached nonce is the last pending one;
- pending transfers never exceed the committed balance.

`migration` checks that:
- the implementation refines the abstract lifecycle;
- every committed window block has exactly one sealed changeset, and no
  other block has one;
- a sealed changeset is never rewritten;
- an approved migration completes.

These hold with two competing proposals passing in one block and with two
crashes. The snapshot and window checks are not part of this run. Its
declarations have ActivationPeriod >= 1 and Duration >= 1, where both
checks only repeat the arithmetic of `NewMigration`. The two violation runs
check them on the boundary values that `startMigration` accepts.

### Bounds and why they suffice

- **Mempool.**
  - The accounts run starts from a new network's `GenesisMigration`, a
    status that never changes. For the account kinds (execute, transfer,
    vote ids), the status only decides a rejection before the lock, and the
    two firewall runs check that part. With the status moving, the state
    space is four times larger, and the run takes over two minutes.
  - Two accounts: the local validator node and a user.
  - Nonces up to 2, committed balances 0..2, fees {0, 1}.
  - Transfer amounts {-1, 2}. A negative amount is refused; 2 exceeds some
    balances and equals others.
  - One resolution id.
  - Two nonces per account are enough for a pending chain, and so for a gap
    or repeat. Balance 0 with nonce 0 reaches the unfunded path.
  - The firewall runs start from either initial status and walk through
    every phase, with the three kinds whose treatment depends on the phase
    or on a resolution.
- **Migration.**
  - Three validators, so all three must approve (3·3 > 2·3, but 3·2 is not).
  - Three declarations. Two share an ActivationPeriod and differ in
    duration, so the tie-break in payload order matters.
  - Expiry after 2 blocks; proposals accepted up to height 4.
  - Up to 2 crashes: enough for a crash after the drain and one after the
    seal of the same block.
  - Heights of 8 bits, which the heights of this run never reach. The code
    rejects no window, so a run with smaller heights would only show
    another violation of `WindowWellFormed`.
  - The window run: one declaration with Duration 0 beside one with
    Duration 1, no crashes, proposals up to height 2.
  - The zero-activation run: one declaration (0, 1), no crashes, proposals
    up to height 2.

- **NodeBoot.** Every combination of the four configuration flags, and 2
  restarts. That allows a crash in the restore followed by a crash after
  it.
- **DeclarationCodec.** The codec is scaled down:
  - three byte values, a one-byte version, two-byte words and a one-byte
    length;
  - every byte string of up to 7 bytes: the 6-byte header plus one byte,
    which is a one-byte Timestamp or one unread byte;
  - version values 1 and 2 are unknown.
- **Validators.**
  - Three genesis validators and one joiner. Once admitted there are four,
    so both removal thresholds of the tests (2 of 4 short, 3 of 4 enough)
    are reached.
  - Join expiry of 2 blocks.
  - Four genesis validators plus a joiner give 1.7M states and take over
    four minutes; that is checked by hand, not in the run list.

### Fairness

`Migration` assumes weak fairness of `DrainChangeset`, `SealChangeset` and
`Commit`. Consensus keeps committing blocks while the network runs, and the
Migrator finishes a drain it has begun. Crashes are not fair; they are only
bounded.

The liveness property is `MigrationCompletes`.

## Findings

1. **Firewall in `MigrationCompleted`** (`mempool.go:100`, `:117`).
   - The code blocks StartMigration proposals and approvals only when
     `status.Active()` or GenesisMigration.
   - Spec 4.F also blocks them when `inMigration`, which includes
     `MigrationCompleted`.
   - The firewall run shows the path: NoActive, then Activation, then
     InProgress, then Completed, then a proposal is admitted.
2. **Declaration decoding ignores trailing bytes**
   (`kgw-test-reuse.yaml:374`).
   - `UnmarshalBinary` returns after the Timestamp and never checks that
     the reader is exhausted.
   - A resolution body with bytes after the Timestamp decodes to the same
     declaration as the body without them, while the vote store keeps the
     two as distinct proposals.
   - Spec 4.A requires a `TrailingBytes` error, and `encode(decode(x)) = x`
     for every accepted payload.

3. **Post-restore steps lost on restart** (`part_002:245`).
   - `buildDB` cleans up resolutions and enables replica identity only in
     the process whose `restoreDB` returned true.
   - After `node.RestoreDB` the database holds `kwild_voting`, so a restart
     takes the initialized path and the steps never run.
   - A `dbOpener` failure (`failBuild`) between them is enough.
4. **Partial restore counted as initialized** (`part_002:278`).
   - The only completeness marker is the existence of the schema, which a
     dump creates first.

5. **Firewall decided on a stale status** (`mempool.go:68`).
   - `applyTransaction` reads the status from the block context it was
     handed and applies the firewall before it takes `acctsMtx`.
   - `reset`, at the end of a block commit, takes the same lock, so a commit
     can move the status between the check and the acceptance.
   - The trace: a StartMigration proposal reads `NoActiveMigration`. The
     block that passes the first proposal commits, and the status becomes
     `ActivationPeriod`. The proposal is then accepted.
   - Spec invariant 6 says no transaction of a kind blocked in the current
     phase is ever accepted.
   - The model assumes the caller does not hold the commit out while
     `applyTransaction` runs; the caller is not under `src/`.
6. **Window without checks** (`kgw-test-reuse.yaml:415`, `:424`).
   - `startMigration` sets `StartHeight = block.Height +
     int64(ActivationPeriod)` and `EndHeight = StartHeight +
     int64(Duration)`.
   - It checks neither the Duration nor either sum.
   - A declaration with Duration 0 yields `EndHeight = StartHeight`, and
     one with a large ActivationPeriod wraps.
   - Spec 3 requires Duration >= 1 and `EndHeight > StartHeight`; spec 9
     requires the overflow to be rejected at resolve time.

7. **ActivationPeriod 0** (`kgw-test-reuse.yaml:423`).
   - `startMigration` accepts it, and spec 3 allows it.
   - `StartHeight` is then the resolving block, so `StartHeight - 1` was
     committed before the window existed.
   - The Migrator of spec 4.E never produces the genesis snapshot, and the
     status reaches MigrationInProgress without it. Spec 4.G requires the
     snapshot before changesets are forwarded.

An observation not checked by a run of its own:
- `accountInfoSafe` returns the cached `*types.Account` after releasing
  `acctsMtx`, and `applyTransaction` later changes that object in place.
  Its callers are not under `src/`.

## Not modelled, and why

- **The changeset codec** (ChangesetEntry, framing, SHA-256 of a
  changeset) is not under `src/`. Its content is data, not control, and a
  hash has no finite model worth checking. The p2p message marshal tests are
  byte layout only.
- **Node wiring** (`buildServer`, P2P, consensus, RPC, TLS): construction
  in a fixed order, where any error is fatal.
- **spamd, the CI jobs and the block processor interfaces** of the
  workflow file: process launch, job definitions and interface
  declarations, with no state.
- **The block processor's error handling.** `startMigration` has written
  the migration record and set the status when `DeleteResolutionsByType`
  can still fail. Whether the block is then rolled back is the block
  processor's decision, and it is not under `src/`. The model takes the
  resolve callback as atomic with the block commit; `PROJECT.json` lists
  this as a hazard without a property.
- **The admin CLI commands and the client and store options**
  (`dump-config`, `chain-info`, `WithAuthCookie`, `WithLogger`,
  `badgerLogger`).
  - Each `RunE` is a fixed sequence of calls, and the first error is
    printed.
  - The options set or append one field.
  - The adapter forwards each of four log calls to one fixed method.
  - None of them interleaves, keeps state across calls or is described in
    the spec. A property of them could only restate one line of the code.
- **Mempool recheck after commit** and **rebroadcast delivery**: not under
  `src/`. So nothing states that the ids marked for rebroadcast reach the
  network. Note that the unfunded return drops the node's own vote-ids
  transaction before the mark.

## Plan

1. Done: `Mempool`, `Migration` with its lifecycle refinement, and
   `ActionModifiers`.
2. Done: `NodeBoot` and `Validators`.
3. Done: the firewall on a stale status.
4. Compose `Validators` with the mempool firewall: validator payloads are
   blocked once the migration is in progress.
5. A composed `Node` module: mempool admission with the migration status
   driven by `Migration`.
6. Done: the declaration codec, used by the migration tie-break.
7. Done: the resolve callback and the codec translated from package
   migrations, and `accountInfoSafe`.
8. The CLI glue and the validator expectations were dropped from the
   checked properties, because each property restated a guard.
