---------------------------- MODULE MCMigration ----------------------------
(* Migration instantiated for TLC: three validators (all three must       *)
(* approve), two proposals that can pass in the same block.              *)
EXTENDS Migration

MCValidators == {"v1", "v2", "v3"}

\* Proposals that can pass in the same block, ordered by payload.
MCDeclarations == {[activation |-> 1, duration |-> 1, ts |-> <<1>>],
                   [activation |-> 1, duration |-> 2, ts |-> <<2>>],
                   [activation |-> 2, duration |-> 1, ts |-> <<3>>]}

\* A declaration with Duration 0, which MarshalBinary writes and
\* startMigration takes, next to an ordinary one.
MCZeroDuration == {[activation |-> 1, duration |-> 1, ts |-> <<1>>],
                   [activation |-> 1, duration |-> 0, ts |-> <<2>>]}

\* A declaration with ActivationPeriod 0, which spec 3 allows and
\* startMigration takes: StartHeight is the resolving block itself.
MCZeroActivation == {[activation |-> 0, duration |-> 1, ts |-> <<1>>]}
=============================================================================
