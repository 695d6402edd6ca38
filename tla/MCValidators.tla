---------------------------- MODULE MCValidators ----------------------------
(* The validator workflow for TLC: four genesis validators, as the removal *)
(* specification requires, and one node that may join.                     *)
EXTENDS Validators

MCNodes == {"n0", "n1", "n2", "j"}
MCGenesis == {"n0", "n1", "n2"}
=============================================================================
