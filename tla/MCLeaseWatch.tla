---------------------------- MODULE MCLeaseWatch ----------------------------
(* A node name registered twice, renewing up to a tick ahead of the clock. *)
EXTENDS LeaseWatch

CONSTANTS n1, n2

MCNodeSeq == <<n1, n2>>
MCCEI     == {n1, n2}
MCEdge    == {[type |-> "node-lease", from |-> n, to |-> n] : n \in MCCEI}
MCBudget  == [t \in {"node-lease"} |-> 1]
=============================================================================
