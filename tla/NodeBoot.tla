------------------------------ MODULE NodeBoot ------------------------------
(***************************************************************************)
(* The database bootstrap of a node (src/unnamed/part_002: buildDB,        *)
(* restoreDB, isDbInitialized, schemaExists), across process restarts.     *)
(*                                                                         *)
(* restoreDB decides whether the database must be filled: not if the       *)
(* kwild_voting schema exists; else by statesync if enabled and it         *)
(* succeeds; else from the genesis snapshot if the genesis StateHash is    *)
(* set, failing the build when no file is given or its hash differs.       *)
(* buildDB then opens the database and, only when restoreDB restored the   *)
(* genesis snapshot, cleans up the resolutions and enables full replica    *)
(* identity.  Any error is failBuild, a panic: the operator restarts the   *)
(* node.  A process may also die at any point; the database keeps what was *)
(* written, the local flag fromGenesisSnapshot is lost.                    *)
(*                                                                         *)
(* node.RestoreDB streams a logical dump into the database.  A dump        *)
(* creates its schemas before it loads their rows, so a restore that dies  *)
(* midway leaves a partial database that may or may not hold kwild_voting; *)
(* the model chooses either.                                               *)
(***************************************************************************)
EXTENDS Naturals

CONSTANT MaxRestarts   \* bound on crashes and restarts after failBuild

VARIABLES
    cfg,          \* node and genesis configuration, fixed across restarts
    pc,           \* the step of buildDB the process is at
    schema,       \* the kwild_voting schema exists
    data,         \* database content: "empty", "partial", "snapshot", "synced"
    cleaned,      \* CleanupResolutionsAfterMigration has run
    replica,      \* EnsureFullReplicaIdentityDatasets has run
    fromGenesis,  \* restoreDB's result in the running process
    restarts

vars == <<cfg, pc, schema, data, cleaned, replica, fromGenesis, restarts>>

\* statesync: StateSync.Enable; stateHash: genesis StateHash non-empty;
\* file: GenesisState names a readable file; matches: its hash is StateHash.
Configs == [statesync : BOOLEAN, stateHash : BOOLEAN, file : BOOLEAN, matches : BOOLEAN]

Steps == {"restore", "statesync", "genesis", "open", "cleanup", "replica",
          "running", "failed"}

Goto(step) == pc' = step

-----------------------------------------------------------------------------
(* restoreDB                                                              *)

\* isDbInitialized / schemaExists: the database counts as initialized when
\* the kwild_voting schema exists.
Initialized == schema

\* Mutant: the isDbInitialized check is skipped.
CheckInitializedSkipped ==
    /\ pc = "restore"
    /\ Goto(IF cfg.statesync THEN "statesync" ELSE "genesis")
    /\ UNCHANGED <<cfg, schema, data, cleaned, replica, fromGenesis, restarts>>

\* isDbInitialized: an existing kwild_voting schema means the node is not
\* new; otherwise statesync is tried first when enabled.
CheckInitialized ==
    /\ pc = "restore"
    /\ IF Initialized
       THEN Goto("open") /\ fromGenesis' = FALSE
       ELSE Goto(IF cfg.statesync THEN "statesync" ELSE "genesis")
            /\ UNCHANGED fromGenesis
    /\ UNCHANGED <<cfg, schema, data, cleaned, replica, restarts>>

\* Mutant: a statesync that leaves the kwild_voting schema out.
DoStatesyncNoSchema ==
    /\ pc = "statesync"
    /\ \/ /\ data' = "synced" /\ UNCHANGED schema
          /\ Goto("open") /\ fromGenesis' = FALSE
       \/ Goto("genesis") /\ UNCHANGED <<data, schema, fromGenesis>>
       \/ Goto("failed") /\ UNCHANGED <<data, schema, fromGenesis>>
    /\ UNCHANGED <<cfg, cleaned, replica, restarts>>

\* Mutant: statesync success is reported as a genesis restore.
DoStatesyncAsGenesis ==
    /\ pc = "statesync"
    /\ \/ /\ data' = "synced" /\ schema' = TRUE
          /\ Goto("open") /\ fromGenesis' = TRUE
       \/ Goto("genesis") /\ UNCHANGED <<data, schema, fromGenesis>>
       \/ Goto("failed") /\ UNCHANGED <<data, schema, fromGenesis>>
    /\ UNCHANGED <<cfg, cleaned, replica, restarts>>

\* ss.DoStatesync: an error fails the build; success means the database was
\* synced and restoreDB returns false; no success falls through to the
\* genesis snapshot.
DoStatesync ==
    /\ pc = "statesync"
    /\ \/ /\ data' = "synced" /\ schema' = TRUE
          /\ Goto("open") /\ fromGenesis' = FALSE
       \/ Goto("genesis") /\ UNCHANGED <<data, schema, fromGenesis>>
       \/ Goto("failed") /\ UNCHANGED <<data, schema, fromGenesis>>
    /\ UNCHANGED <<cfg, cleaned, replica, restarts>>

\* The genesis snapshot branch: no StateHash means nothing to restore; a
\* missing file or a hash mismatch is failBuild with the database untouched;
\* otherwise the restore completes and restoreDB returns true.
RestoreGenesis ==
    /\ pc = "genesis"
    /\ CASE ~cfg.stateHash ->
              Goto("open") /\ fromGenesis' = FALSE /\ UNCHANGED <<data, schema>>
         [] ~cfg.file \/ ~cfg.matches ->
              Goto("failed") /\ UNCHANGED <<data, schema, fromGenesis>>
         [] OTHER ->
              /\ data' = "snapshot" /\ schema' = TRUE
              /\ Goto("open") /\ fromGenesis' = TRUE
    /\ UNCHANGED <<cfg, cleaned, replica, restarts>>

\* The process dies while node.RestoreDB is streaming the snapshot.
RestoreInterrupted ==
    /\ pc = "genesis"
    /\ cfg.stateHash /\ cfg.file /\ cfg.matches
    /\ restarts < MaxRestarts
    /\ data' = "partial"
    /\ schema' \in BOOLEAN
    /\ Goto("restore")
    /\ fromGenesis' = FALSE
    /\ restarts' = restarts + 1
    /\ UNCHANGED <<cfg, cleaned, replica>>

-----------------------------------------------------------------------------
(* buildDB after restoreDB                                                *)

\* dbOpener; an error is failBuild.
OpenDB ==
    /\ pc = "open"
    /\ \/ Goto(IF fromGenesis THEN "cleanup" ELSE "running")
       \/ Goto("failed")
    /\ UNCHANGED <<cfg, schema, data, cleaned, replica, fromGenesis, restarts>>

\* migrations.CleanupResolutionsAfterMigration, only after a genesis restore.
CleanupResolutions ==
    /\ pc = "cleanup"
    /\ cleaned' = TRUE
    /\ Goto("replica")
    /\ UNCHANGED <<cfg, schema, data, replica, fromGenesis, restarts>>

\* db.EnsureFullReplicaIdentityDatasets.
EnsureReplicaIdentity ==
    /\ pc = "replica"
    /\ replica' = TRUE
    /\ Goto("running")
    /\ UNCHANGED <<cfg, schema, data, cleaned, fromGenesis, restarts>>

\* A crash at any step, or the restart after failBuild: buildDB begins
\* again with what the database holds.
Restart ==
    /\ restarts < MaxRestarts
    /\ Goto("restore")
    /\ fromGenesis' = FALSE
    /\ restarts' = restarts + 1
    /\ UNCHANGED <<cfg, schema, data, cleaned, replica>>

-----------------------------------------------------------------------------

\* A node whose database is new: nothing is written yet.
Init ==
    /\ cfg \in Configs
    /\ pc = "restore"
    /\ schema = FALSE
    /\ data = "empty"
    /\ cleaned = FALSE
    /\ replica = FALSE
    /\ fromGenesis = FALSE
    /\ restarts = 0

Next ==
    \/ CheckInitialized
    \/ DoStatesync
    \/ RestoreGenesis
    \/ RestoreInterrupted
    \/ OpenDB
    \/ CleanupResolutions
    \/ EnsureReplicaIdentity
    \/ Restart

Spec == Init /\ [][Next]_vars

-----------------------------------------------------------------------------
(* Properties.                                                            *)

TypeOK ==
    /\ cfg \in Configs
    /\ pc \in Steps
    /\ schema \in BOOLEAN
    /\ data \in {"empty", "partial", "snapshot", "synced"}
    /\ {cleaned, replica, fromGenesis} \subseteq BOOLEAN
    /\ restarts \in 0..MaxRestarts
    \* what isDbInitialized relies on: a complete database has kwild_voting
    /\ data \in {"snapshot", "synced"} => schema

\* restoreDB's first skip condition, across restarts: a database that
\* holds a complete state, synced or restored, is never filled again.
NoRestoreOverInitialized ==
    [][(data \in {"snapshot", "synced"}) => data' = data]_data

\* The post-restore steps of buildDB run only on a database restored from
\* the genesis snapshot, never on a synced or a new one: statesync success
\* must make restoreDB return false.
CleanupOnlyAfterGenesisRestore ==
    cleaned \/ replica => data = "snapshot"

\* The comment of buildDB: a node restored from the genesis snapshot has its
\* resolutions cleaned up and full replica identity enabled before it runs.
PostRestoreStepsDone ==
    pc = "running" /\ data = "snapshot" => cleaned /\ replica

\* restoreDB's contract: a node runs only on a complete database, never on
\* one a restore left half written.
RunsOnCompleteDB ==
    pc = "running" => data # "partial"
=============================================================================
