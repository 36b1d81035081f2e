------------------------------ MODULE LeaseWatch ------------------------------
(***************************************************************************)
(* Node liveness (the node-lease edges of edges_watch.go): a node renews   *)
(* its lease, the lease handler confirms the node's self-edge at the       *)
(* lease's own renew time, a resync repeats an old lease from the cache,   *)
(* and the node's or the lease's deletion retracts the edge.               *)
(*                                                                         *)
(* The kubelet always fills the renew time: Renew makes no lease without   *)
(* one, and the handler's fallback to the time of receipt is there but not *)
(* reached. The cluster and the informers are external.                    *)
(***************************************************************************)
EXTENDS NodeWatch

CONSTANT
    MaxSkew         \* how far the node's clock may run ahead of the collector's

LeaseOf(n) == [type |-> "node-lease", from |-> n, to |-> n]

ASSUME LeaseAssumption == MaxSkew \in Nat /\ \A n \in NodeCEI : LeaseOf(n) \in Edge

VARIABLES
    renewed,        \* the latest renew time in the lease, Zero without a lease
    newest,         \* the newest renew time there ever was
    leaseSeen,      \* the lease lister
    leaseQ,         \* notifications not yet handled
    leaseTask       \* the stamp and node the lease handler is about to confirm

leaseVars == <<renewed, newest, leaseSeen, leaseQ, leaseTask>>
leaseWatchVars == <<edgeVars, nodeVars, leaseVars>>

NoLeaseTask == [node |-> NoNode, op |-> "idle", at |-> Zero, began |-> Zero]

-----------------------------------------------------------------------------
(* The cluster (external).                                                 *)

\* The node's clock may be ahead, but runs forward.
Renew ==
    /\ node # 0
    /\ \E t \in now .. now + MaxSkew : t \in Instant /\ t >= newest /\ renewed' = t /\ newest' = t
    /\ UNCHANGED <<edgeVars, nodeVars, leaseSeen, leaseQ, leaseTask>>

\* The lease of a node that is gone is collected some time later.
LeaseCollected ==
    /\ renewed # Zero
    /\ renewed' = Zero
    /\ UNCHANGED <<edgeVars, nodeVars, newest, leaseSeen, leaseQ, leaseTask>>

-----------------------------------------------------------------------------
(* The lease informer (external).                                          *)

\* A lease is delivered when it changed, and repeated from the cache by a resync.
DeliverLease ==
    /\ Len(leaseQ) < MaxPending
    /\ \/ renewed # Zero /\ leaseSeen' = renewed /\ leaseQ' = Append(leaseQ, [op |-> "upsert", at |-> renewed])
       \/ renewed = Zero /\ leaseSeen # Zero /\ leaseSeen' = Zero
             /\ leaseQ' = Append(leaseQ, [op |-> "delete", at |-> Zero])
       \/ leaseSeen # Zero /\ UNCHANGED leaseSeen
             /\ leaseQ' = Append(leaseQ, [op |-> "upsert", at |-> leaseSeen])
    /\ UNCHANGED <<edgeVars, nodeVars, renewed, newest, leaseTask>>

-----------------------------------------------------------------------------
(* The lease handler.                                                      *)

SlipTimeOfReceipt(event) == now

LeaseRenewTime(event) == IF event.at = Zero THEN now ELSE event.at

\* upsertLease and deleteLease up to the store call: a node the identity store
\* does not know ends them.
LeaseRead ==
    /\ leaseTask = NoLeaseTask /\ leaseQ # << >>
    /\ LET event == Head(leaseQ)
       IN  IF storeNode = NoNode THEN leaseQ' = Tail(leaseQ) /\ UNCHANGED leaseTask
           ELSE /\ leaseTask' = [node |-> storeNode, op |-> event.op, began |-> now,
                            at |-> IF event.op = "upsert" THEN LeaseRenewTime(event) ELSE now]
                /\ UNCHANGED leaseQ
    /\ UNCHANGED <<edgeVars, nodeVars, renewed, newest, leaseSeen>>

LeaseWrite ==
    /\ leaseTask # NoLeaseTask
    /\ \/ leaseTask.op = "upsert" /\ Assert(LeaseOf(leaseTask.node), leaseTask.at)
       \/ leaseTask.op = "delete" /\ Retract(LeaseOf(leaseTask.node), leaseTask.at)
    /\ leaseQ' = Tail(leaseQ) /\ leaseTask' = NoLeaseTask
    /\ UNCHANGED <<nodeVars, renewed, newest, leaseSeen>>

LeaseTick ==
    /\ leaseTask # NoLeaseTask => now < leaseTask.began + MaxHandling
    /\ NodeInTime
    /\ Advance
    /\ UNCHANGED <<nodeVars, leaseVars>>

LeaseSweep == GC /\ UNCHANGED <<nodeVars, leaseVars>>

LeaseInit ==
    /\ Init /\ NodeInit
    /\ renewed = Zero /\ newest = Zero
    /\ leaseSeen = Zero /\ leaseQ = << >> /\ leaseTask = NoLeaseTask

LeaseNext ==
    \/ (NodeChange \/ DeliverNode \/ HandleNode \/ DeleteNodeEdges) /\ UNCHANGED leaseVars
    \/ Renew \/ LeaseCollected \/ DeliverLease
    \/ LeaseRead \/ LeaseWrite
    \/ LeaseTick \/ LeaseSweep

LeaseSpec == LeaseInit /\ [][LeaseNext]_leaseWatchVars

-----------------------------------------------------------------------------
(* Properties.                                                             *)

\* A node whose lease stopped renewing is suspect within its budget of the last
\* renewal, however often resyncs repeat the old lease meanwhile (NodeLiveness
\* mirrors the control plane's grace period).
SilentNodeIsSuspect ==
    \A n \in NodeCEI : Status(LeaseOf(n), now) = "valid" => now - newest =< Budget["node-lease"]

\* The comment of assertLocked: no stale lease revives a dead node's liveness. A
\* retracted lease edge is live again only when the node really renewed at a time
\* after the retraction.
RevivedOnlyByRenewal ==
    [][\A n \in NodeCEI : Retracted(edges[LeaseOf(n)]) /\ Live(edges'[LeaseOf(n)])
         => newest > edges[LeaseOf(n)].retracted]_leaseWatchVars
=============================================================================
