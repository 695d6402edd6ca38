------------------------- MODULE MigrationLifecycle -------------------------
(***************************************************************************)
(* What the migration subsystem promises about MigrationStatus (spec §3,   *)
(* §4.E), with votes, changesets and snapshots left out: the old network   *)
(* commits blocks one height at a time; at most once a migration window    *)
(* [start, end) is fixed, and from then on the status is a function of the *)
(* committed height: ActivationPeriod before start, MigrationInProgress    *)
(* from start, MigrationCompleted at end, after which no block is added.  *)
(***************************************************************************)
EXTENDS Naturals

CONSTANT NoWindow

VARIABLES status, height, window

Phase(h, w) ==
    IF h < w.start THEN "ActivationPeriod"
    ELSE IF h < w.end THEN "MigrationInProgress"
    ELSE "MigrationCompleted"

Init ==
    /\ status = "NoActiveMigration"
    /\ height = 0
    /\ window = NoWindow

\* A block is committed; a window may be fixed in it, starting no earlier
\* than the block itself.
Commit ==
    /\ status # "MigrationCompleted"
    /\ height' = height + 1
    /\ \/ /\ window = NoWindow
          /\ status' = "NoActiveMigration"
          /\ UNCHANGED window
       \/ /\ window = NoWindow
          /\ window' \in [start : Nat, end : Nat]
          /\ height' <= window'.start /\ window'.start < window'.end
          /\ status' = Phase(height', window')
       \/ /\ window # NoWindow
          /\ status' = Phase(height', window)
          /\ UNCHANGED window

Spec == Init /\ [][Commit]_<<status, height, window>>
=============================================================================
