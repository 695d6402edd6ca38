----------------------------- MODULE MCMempool -----------------------------
(* Mempool instantiated for TLC: two senders, one of them this node's     *)
(* validator key, one resolution id, nonces up to 2.                      *)
EXTENDS Mempool

MCAccounts == {"alice", "node"}
MCValidators == {"node"}
MCLocalNode == "node"
MCResolutionIDs == {"r1"}
MCFees == {0, 1}
MCAmounts == {-1, 2}
MCAccountKinds == {"execute", "transfer", "validator_vote_ids"}
MCFirewallKinds == {"validator_join", "create_resolution", "approve_resolution"}
MCNoFees == {0}
MCGenesisStart == {"GenesisMigration"}
MCAnyStart == {"NoActiveMigration", "GenesisMigration"}

=============================================================================
