----------------------------- MODULE Migration -----------------------------
(***************************************************************************)
(* The migration subsystem of the old network (spec §4.B-§4.E, §4.H): the  *)
(* StartMigration resolution voted by validators, its resolve callback,    *)
(* the Migrator's NotifyHeight at every committed block, and the changeset *)
(* store it drains each block of the migration window into.  The resolve   *)
(* callback startMigration and the declaration codec are package           *)
(* migrations (src/.github/workflows/kgw-test-reuse.yaml); the Migrator,   *)
(* the changeset store and the vote store are not under src/ and are       *)
(* modelled from the spec.                                                 *)
(*                                                                         *)
(* A block b = height + 1 is committed in up to three steps, because the   *)
(* changeset of a block in the window is written to files before the SQL   *)
(* commit: DrainChangeset writes the chunks, SealChangeset writes the      *)
(* .committed sentinel, CommitBlock executes the block's transactions,     *)
(* processes resolutions, calls NotifyHeight and commits atomically.  A    *)
(* crash between any two of them loses nothing durable but the progress    *)
(* of the block, which consensus then executes again.                      *)
(***************************************************************************)
EXTENDS Integers, FiniteSets, Sequences, TLC

CONSTANTS
    Validators,     \* validator keys, each of voting power 1
    Declarations,   \* MigrationDeclaration payloads that may be proposed
    ExpiryBlocks,   \* resolution lifetime, in blocks
    MaxHeight,      \* no new migration is voted in after this height
    MaxCrashes,     \* bound on process crashes
    HeightBits,     \* width of the i64 heights, scaled down for TLC
    NoMigration     \* model value: no active migration record

ASSUME Declarations \subseteq [activation : Nat, duration : Nat, ts : Seq(0..255)]
ASSUME ExpiryBlocks \in Nat \ {0} /\ MaxHeight \in Nat /\ MaxCrashes \in Nat
ASSUME HeightBits \in 2..16

VARIABLES
    height,       \* last committed block height
    status,       \* NetworkParameters.MigrationStatus
    active,       \* the active migration record [start, end], or NoMigration
    resolutions,  \* pending StartMigration resolutions: payload -> [approvals, expires]
    processed,    \* resolution payloads already resolved, rejected or expired
    changesets,   \* changeset store: height -> "partial" | "committed"
    snapshot,     \* height at which the genesis snapshot was produced, or -1
    stage,        \* progress of block height+1: "exec", "drained", "sealed"
    crashes       \* number of crashes so far

vars == <<height, status, active, resolutions, processed, changesets,
          snapshot, stage, crashes>>

Statuses == {"NoActiveMigration", "ActivationPeriod", "MigrationInProgress",
             "MigrationCompleted"}

-----------------------------------------------------------------------------

\* Strictly more than 2/3 of the total validator power approved.
Confirmed(approvals) == 3 * Cardinality(approvals) > 2 * Cardinality(Validators)

\* The declaration codec with bytes of 256 values.  Words are two bytes
\* wide: the fields of the modelled declarations stay below 256^2, where
\* the six high bytes of a uint64 are zero and do not change the order.
\* The bound and the byte string of the codec's own check are unused here.
Codec == INSTANCE DeclarationCodec
         WITH Base <- 256, VersionBytes <- 2, WordBytes <- 2, LenBytes <- 2,
              MaxPayload <- 0, payload <- <<>>

\* The first of a set of payloads in ascending order of their serialized
\* bytes.
FirstPayload(S) ==
    CHOOSE d \in S : \A e \in S \ {d} : Codec!BytesLess(Codec!Encode(d), Codec!Encode(e))

\* The block under construction.
NextBlock == height + 1

\* Block b lies in the changeset window [StartHeight, EndHeight).
InWindow(b, act) == act # NoMigration /\ act.start <= b /\ b < act.end

\* Mutant: the resolve callback does not check for an existing migration.
CanStartMigrationUnchecked(act) == TRUE

\* startMigration's guards: MigrationParams is nil on the old network, and
\* it fails with "only one migration can be active at a time" when
\* migrationActive finds a record.
CanStartMigration(act) == act = NoMigration

\* The largest height an i64 of HeightBits bits holds.
MaxInt == 2^(HeightBits - 1) - 1

\* Two's complement wrap to HeightBits bits: the conversion int64(x) of a
\* uint64, and the result of an i64 addition.
Int64(x) == ((x + MaxInt + 1) % 2^HeightBits) - (MaxInt + 1)
AddI64(x, y) == Int64(x + y)

\* The activeMigration record startMigration creates for a declaration
\* passed at block b: StartHeight = b + int64(ActivationPeriod), EndHeight =
\* that + int64(Duration), with no check of either sum or of the Duration.
NewMigration(d, b) ==
    [start |-> AddI64(b, Int64(d.activation)),
     end   |-> AddI64(AddI64(b, Int64(d.activation)), Int64(d.duration))]

\* NotifyHeight(b): the status the Migrator leaves after block b.
NotifyStatus(b, st, act) ==
    IF act = NoMigration THEN st
    ELSE IF b = act.end THEN "MigrationCompleted"
    ELSE IF b = act.start THEN "MigrationInProgress"
    ELSE st

\* NotifyHeight(b): the genesis snapshot is produced at StartHeight - 1.
NotifySnapshot(b, snap, act) ==
    IF act # NoMigration /\ b = act.start - 1 THEN b ELSE snap

\* Mutant: the block commit does not wait for the changeset.
ChangesetReadyUnchecked(b) == stage \in {"exec", "sealed"}

\* "On drain error, the entire block commit aborts": a block of the window
\* commits only once its changeset is sealed.
ChangesetReady(b) == stage = "sealed" \/ (stage = "exec" /\ ~InWindow(b, active))

-----------------------------------------------------------------------------
(* Steps of a block.                                                      *)

\* Mutant: the sentinel is ignored and the changeset written again.
DrainChangesetRewrite ==
    /\ stage = "exec"
    /\ status # "MigrationCompleted"
    /\ InWindow(NextBlock, active)
    /\ changesets' = (NextBlock :> "partial") @@ changesets
    /\ stage' = "drained"
    /\ UNCHANGED <<height, status, active, resolutions, processed, snapshot, crashes>>

\* Mutant: an existing changeset makes the drain fail, so the block cannot
\* be committed again after a crash.
DrainChangesetRejectExisting ==
    /\ stage = "exec"
    /\ status # "MigrationCompleted"
    /\ InWindow(NextBlock, active)
    /\ NextBlock \notin DOMAIN changesets
    /\ changesets' = (NextBlock :> "partial") @@ changesets
    /\ stage' = "drained"
    /\ UNCHANGED <<height, status, active, resolutions, processed, snapshot, crashes>>

\* The Migrator drains the block's changeset channel into the store, unless
\* a sentinel shows the changeset was already written by an earlier
\* execution of this block.
DrainChangeset ==
    /\ stage = "exec"
    /\ status # "MigrationCompleted"
    /\ InWindow(NextBlock, active)
    /\ IF NextBlock \in DOMAIN changesets /\ changesets[NextBlock] = "committed"
       THEN /\ stage' = "sealed"
            /\ UNCHANGED changesets
       ELSE /\ changesets' = (NextBlock :> "partial") @@ changesets
            /\ stage' = "drained"
    /\ UNCHANGED <<height, status, active, resolutions, processed, snapshot, crashes>>

\* The .committed sentinel is written after every chunk.
SealChangeset ==
    /\ stage = "drained"
    /\ changesets' = [changesets EXCEPT ![NextBlock] = "committed"]
    /\ stage' = "sealed"
    /\ UNCHANGED <<height, status, active, resolutions, processed, snapshot, crashes>>

\* The pending resolutions once the block's proposals are created: a new
\* proposal starts with no approval and expires ExpiryBlocks later.
Proposed(creates) ==
    [d \in creates |-> [approvals |-> {}, expires |-> NextBlock + ExpiryBlocks]]
      @@ resolutions

\* The block's approvals recorded on the pending resolutions; an approval
\* by a key without validator power is refused.
Approved(creates, votes) ==
    LET pending == Proposed(creates) IN
    [d \in DOMAIN pending |->
        [pending[d] EXCEPT !.approvals = @ \cup {v \in Validators : <<v, d>> \in votes}]]

\* The block commit: the block's resolution transactions (creations of new
\* payloads, approvals by validators before expiry) are executed, confirmed
\* resolutions are resolved in payload order (the first starts the
\* migration unless a record exists, and the rest fail on the record it
\* created), expired ones dropped, then NotifyHeight runs and everything
\* commits in one SQL transaction.
CommitBlock(creates, votes) ==
    LET b        == NextBlock
        pending  == Proposed(creates)
        voted    == Approved(creates, votes)
        passed   == {d \in DOMAIN voted : Confirmed(voted[d].approvals)}
        winner   == FirstPayload(passed)
        starts   == passed # {} /\ CanStartMigration(active)
        act      == IF starts THEN NewMigration(winner, b) ELSE active
        st       == IF starts THEN "ActivationPeriod" ELSE status
        \* the winner's resolve deletes all other StartMigration resolutions
        removed  == IF starts THEN DOMAIN voted
                    ELSE passed \cup {d \in DOMAIN voted : voted[d].expires <= b}
    IN
    /\ status # "MigrationCompleted"
    /\ b <= MaxHeight \/ active # NoMigration
    /\ ChangesetReady(b)
    /\ creates \subseteq Declarations \ (DOMAIN resolutions \cup processed)
    /\ \A <<v, d>> \in votes : d \in DOMAIN pending /\ b < pending[d].expires
    /\ height' = b
    /\ active' = act
    /\ status' = NotifyStatus(b, st, act)
    /\ snapshot' = NotifySnapshot(b, snapshot, act)
    /\ resolutions' = [d \in DOMAIN voted \ removed |-> voted[d]]
    /\ processed' = processed \cup removed
    /\ stage' = "exec"
    /\ UNCHANGED <<changesets, crashes>>

\* The process dies; the block in progress is executed again after restart.
Crash ==
    /\ crashes < MaxCrashes
    /\ stage # "exec"
    /\ stage' = "exec"
    /\ crashes' = crashes + 1
    /\ UNCHANGED <<height, status, active, resolutions, processed, changesets, snapshot>>

-----------------------------------------------------------------------------

Init ==
    /\ height = 0
    /\ status = "NoActiveMigration"
    /\ active = NoMigration
    /\ resolutions = <<>>
    /\ processed = {}
    /\ changesets = <<>>
    /\ snapshot = -1
    /\ stage = "exec"
    /\ crashes = 0

\* Each block carries at most one new proposal and any approvals.
BlockTxs ==
    {creates \in SUBSET Declarations : Cardinality(creates) <= 1}
      \X SUBSET (Validators \X Declarations)

Commit == \E txs \in BlockTxs : CommitBlock(txs[1], txs[2])

Next ==
    \/ DrainChangeset
    \/ SealChangeset
    \/ Commit
    \/ Crash

\* Consensus keeps committing blocks and the Migrator finishes each step it
\* starts; crashes are not fair.
Fairness == WF_vars(DrainChangeset) /\ WF_vars(SealChangeset) /\ WF_vars(Commit)

Spec == Init /\ [][Next]_vars /\ Fairness

-----------------------------------------------------------------------------
(* Properties.                                                            *)

\* The status the code keeps agrees with the abstract lifecycle: it moves
\* only forward, is fixed by the committed height once the window is set,
\* and the window, once set, never changes.
Lifecycle == INSTANCE MigrationLifecycle WITH
    window <- IF active = NoMigration THEN NoMigration ELSE active,
    NoWindow <- NoMigration

LifecycleRefined == Lifecycle!Spec

\* Spec invariant 2 and the at-most-once invariant of §4.E, across crashes
\* between chunk, sentinel and commit: every committed block of the window
\* has a sealed changeset, no committed block outside it has one, and the
\* only changeset that may be partial or sealed ahead of the chain is that of
\* the block being executed.
ChangesetsComplete ==
    /\ \A h \in 1..height :
           InWindow(h, active) <=> (h \in DOMAIN changesets /\ changesets[h] = "committed")
    /\ \A h \in DOMAIN changesets : h <= NextBlock /\ InWindow(h, active)
    /\ \A h \in DOMAIN changesets : changesets[h] = "partial" => h = NextBlock

\* §4.G: the new network's genesis snapshot exists before the old network
\* starts forwarding changesets, and was taken at StartHeight - 1.
SnapshotBeforeStart ==
    status \in {"MigrationInProgress", "MigrationCompleted"} =>
        snapshot = active.start - 1

\* §6 "no file is ever rewritten in place": a sealed changeset stays as it
\* is, also when the block is executed again after a crash.
NoChangesetRewrite ==
    [][\A h \in DOMAIN changesets :
          changesets[h] = "committed" =>
              h \in DOMAIN changesets' /\ changesets'[h] = "committed"]_changesets

\* The ActiveMigration constraint EndHeight > StartHeight (§3), and the
\* window begins no earlier than the block that resolved it: an approved
\* declaration close to the i64 limit must not wrap the window around.
WindowWellFormed ==
    active # NoMigration => 0 < active.start /\ active.start < active.end

\* Once a migration is approved, the old network reaches MigrationCompleted.
MigrationCompletes == active # NoMigration ~> status = "MigrationCompleted"
=============================================================================
