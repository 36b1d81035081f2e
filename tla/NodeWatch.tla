------------------------------ MODULE NodeWatch ------------------------------
(***************************************************************************)
(* The node informer and the node handler (upsertNode, deleteNode and      *)
(* deleteNodeEdges), beside which the pod handler (module PlacementWatch)  *)
(* and the lease handler (module LeaseWatch) run: both look the node's UID *)
(* up by name in the identity store before they write the edge store, so   *)
(* that the node's deletion may be handled in between.                     *)
(*                                                                         *)
(* One node name, registered again under a new UID. The identity store is  *)
(* reduced to the answer the handlers take from it: which node UID has the *)
(* name now (module Lifecycle). The cluster and the informer are external. *)
(***************************************************************************)
EXTENDS EdgeStore, Sequences

CONSTANTS
    NodeSeq,        \* the node CEIs the cluster gives the node's name, in order
    NoNode,         \* "the store knows no such node"
    MaxPending,     \* bound on the notifications waiting for a handler
    MaxHandling     \* how long a handler may take between reading and writing

NodeIndex == 1 .. Len(NodeSeq)
NodeCEI == {NodeSeq[j] : j \in NodeIndex}

\* The API server gives no UID twice.
ASSUME NodeAssumption ==
    /\ NodeSeq \in Seq(CEI) /\ NoNode \notin CEI
    /\ \A i, j \in NodeIndex : NodeSeq[i] = NodeSeq[j] => i = j
    /\ MaxPending \in Nat \ {0} /\ MaxHandling \in Nat \ {0}

VARIABLES
    nodesMade, node,    \* the node incarnation in the cluster, 0 for none
    nodeSeen,           \* the node lister
    nodeQ,              \* notifications not yet handled
    storeNode,          \* the node CEI the identity store answers now
    nodeTask            \* the deletion whose edges the node handler is retracting

nodeVars == <<nodesMade, node, nodeSeen, nodeQ, storeNode, nodeTask>>

NoNodeTask == [node |-> 0, at |-> Zero, next |-> "none"]
NodeEvent == [op : {"upsert", "delete"}, node : NodeIndex]

-----------------------------------------------------------------------------
(* The cluster (external).                                                 *)

NodeChange ==
    /\ \/ node = 0 /\ nodesMade < Len(NodeSeq) /\ nodesMade' = nodesMade + 1 /\ node' = nodesMade'
       \/ node # 0 /\ node' = 0 /\ UNCHANGED nodesMade
    /\ UNCHANGED <<edgeVars, nodeSeen, nodeQ, storeNode, nodeTask>>

(* The informer (external).                                                *)

DeliverNode ==
    /\ nodeSeen # node /\ Len(nodeQ) < MaxPending
    /\ \/ nodeSeen # 0 /\ nodeSeen' = 0 /\ nodeQ' = Append(nodeQ, [op |-> "delete", node |-> nodeSeen])
       \/ node # 0 /\ nodeSeen' = node /\ nodeQ' = Append(nodeQ, [op |-> "upsert", node |-> node])
    /\ UNCHANGED <<edgeVars, nodesMade, node, storeNode, nodeTask>>

(* The node handler.                                                       *)

\* The identity store answers with the instance, and forgets one that was deleted.
Answer(i) == NodeSeq[i]

\* upsertNode, and deleteNode up to the clock read of deleteNodeEdges.
HandleNode ==
    /\ nodeTask = NoNodeTask /\ nodeQ # << >>
    /\ LET event == Head(nodeQ)
       IN  \/ /\ event.op = "upsert" /\ storeNode' = Answer(event.node)
              /\ nodeQ' = Tail(nodeQ) /\ UNCHANGED nodeTask
           \/ /\ event.op = "delete"
              /\ storeNode' = IF storeNode = NodeSeq[event.node] THEN NoNode ELSE storeNode
              /\ nodeTask' = [node |-> event.node, at |-> now, next |-> "into"] /\ UNCHANGED nodeQ
    /\ UNCHANGED <<edgeVars, nodesMade, node, nodeSeen>>

\* deleteNodeEdges: two calls of the store with the time read before them, the edges
\* into the node first.
DeleteNodeEdges ==
    /\ \/ /\ nodeTask.next = "into"
          /\ RetractAllTo(NodeSeq[nodeTask.node], nodeTask.at)
          /\ nodeTask' = [nodeTask EXCEPT !.next = "from"] /\ UNCHANGED nodeQ
       \/ /\ nodeTask.next = "from"
          /\ RetractAllFrom(NodeSeq[nodeTask.node], nodeTask.at)
          /\ nodeTask' = NoNodeTask /\ nodeQ' = Tail(nodeQ)
    /\ UNCHANGED <<nodesMade, node, nodeSeen, storeNode>>

NodeInTime == nodeTask # NoNodeTask => now < nodeTask.at + MaxHandling

NodeInit ==
    /\ nodesMade = 0 /\ node = 0 /\ nodeSeen = 0 /\ nodeQ = << >>
    /\ storeNode = NoNode /\ nodeTask = NoNodeTask
=============================================================================
