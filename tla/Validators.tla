----------------------------- MODULE Validators -----------------------------
(***************************************************************************)
(* The validator set workflow as the validator test specifications of      *)
(* src/unnamed/part_000 fix it: join requests, approvals, leave, removal   *)
(* votes and join expiry.  No validator implementation is under src/, so  *)
(* the only property checked is the type invariant; the other expectations *)
(* of the tests are the guards of the actions themselves.                  *)
(*                                                                         *)
(* A join request records the board (the validator set when it was made)   *)
(* and starts with no approval; an existing validator cannot request.      *)
(* Board members approve, the joiner cannot; once 2/3 of the board has     *)
(* approved, the joiner is a validator and the request is gone.  A         *)
(* validator other than the leader may leave.  Validators vote to remove   *)
(* another validator, never the leader; 2 of 4 votes do not remove it, 3   *)
(* of 4 do.  A request that is not approved in time expires and is removed. *)
(***************************************************************************)
EXTENDS Naturals, FiniteSets, TLC

CONSTANTS
    Nodes,          \* node keys
    Leader,         \* the leader, a validator at genesis
    Genesis,        \* the genesis validator set
    JoinExpiry      \* blocks a join request stays pending

ASSUME Leader \in Genesis /\ Genesis \subseteq Nodes /\ JoinExpiry \in Nat \ {0}

VARIABLES
    validators,     \* the current validator set
    joins,          \* pending join requests: joiner -> [board, approved, ttl]
    removals        \* removal votes: target -> voters

vars == <<validators, joins, removals>>

\* The "2/3rd majority" of the tests, strict: 2 of 4 is sub-threshold, 3 of 4 passes.
Confirmed(votes, board) == 3 * Cardinality(votes) > 2 * Cardinality(board)

\* approvalCount: the board members that approved.
ApprovalCount(req) == Cardinality(req.approved)

-----------------------------------------------------------------------------

\* Mutant: an existing validator's join request is accepted.
JoinExistingAllowed(n) ==
    /\ n \notin DOMAIN joins
    /\ joins' = (n :> [board |-> validators, approved |-> {}, ttl |-> JoinExpiry])
                  @@ joins
    /\ UNCHANGED <<validators, removals>>

\* ValidatorNodeJoin: board = current validators, no approval yet; a node
\* that is already a validator or has a pending request is refused.
Join(n) ==
    /\ n \notin validators
    /\ n \notin DOMAIN joins
    /\ joins' = (n :> [board |-> validators, approved |-> {}, ttl |-> JoinExpiry])
                  @@ joins
    /\ UNCHANGED <<validators, removals>>

\* ValidatorNodeApprove: a validator on the board approves; the joiner is
\* admitted and the request removed once 2/3 of the board approved.
Approve(v, j) ==
    LET req  == joins[j]
        req2 == [req EXCEPT !.approved = @ \cup {v}]
    IN
    /\ j \in DOMAIN joins
    /\ v \in req.board /\ v \in validators
    /\ IF Confirmed(req2.approved, req2.board)
       THEN /\ validators' = validators \cup {j}
            /\ joins' = [k \in DOMAIN joins \ {j} |-> joins[k]]
       ELSE /\ joins' = [joins EXCEPT ![j] = req2]
            /\ UNCHANGED validators
    /\ UNCHANGED removals

\* ValidatorNodeLeave: a validator other than the leader leaves; a
\* non-validator's or the leader's leave fails.  Its removal votes and the
\* votes against it go with it.
Leave(n) ==
    /\ n \in validators
    /\ n # Leader
    /\ validators' = validators \ {n}
    /\ removals' = [t \in DOMAIN removals \ {n} |-> removals[t] \ {n}]
    /\ UNCHANGED joins

\* ValidatorNodeRemove: a validator votes to remove another, non-leader
\* validator; with votes from 2/3 of the validators the target is removed.
Remove(v, t) ==
    LET votes == (IF t \in DOMAIN removals THEN removals[t] ELSE {}) \cup {v}
    IN
    /\ v \in validators
    /\ t \in validators \ {Leader, v}
    /\ IF Confirmed(votes, validators)
       THEN /\ validators' = validators \ {t}
            /\ removals' = [u \in DOMAIN removals \ {t} |-> removals[u] \ {t}]
       ELSE /\ removals' = (t :> votes) @@ removals
            /\ UNCHANGED validators
    /\ UNCHANGED joins

\* A block passes: every pending request ages, and one whose time is up is
\* removed ("No active join request for that validator").
Tick ==
    /\ joins # <<>>
    /\ joins' = [j \in {k \in DOMAIN joins : joins[k].ttl > 1} |->
                    [joins[j] EXCEPT !.ttl = @ - 1]]
    /\ UNCHANGED <<validators, removals>>

-----------------------------------------------------------------------------

Init ==
    /\ validators = Genesis
    /\ joins = <<>>
    /\ removals = <<>>

Next ==
    \/ \E n \in Nodes : Join(n) \/ Leave(n)
    \/ \E v, j \in Nodes : Approve(v, j) \/ Remove(v, j)
    \/ Tick

Spec == Init /\ [][Next]_vars

-----------------------------------------------------------------------------
(* Properties.                                                            *)

TypeOK ==
    /\ validators \subseteq Nodes
    /\ DOMAIN joins \subseteq Nodes \ validators
    /\ \A j \in DOMAIN joins :
           joins[j] \in [board : SUBSET Nodes, approved : SUBSET Nodes,
                         ttl : 1..JoinExpiry]
    /\ DOMAIN removals \subseteq Nodes
    /\ \A t \in DOMAIN removals : removals[t] \subseteq Nodes
=============================================================================
