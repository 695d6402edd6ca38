\* Every configuration of statesync, StateHash and snapshot file, with up to
\* two crashes or restarts.
CONSTANT MaxRestarts = 2
SPECIFICATION Spec
\* A running node, or one failed with no restart left, stays where it is.
CHECK_DEADLOCK FALSE
INVARIANT RunsOnCompleteDB
