---------------------------- MODULE PlacementWatch ----------------------------
(***************************************************************************)
(* The runs-on and mounts edges of edges_watch.go: the pod and the node    *)
(* handler goroutines.                                                     *)
(*                                                                         *)
(* One pod name (a StatefulSet's: its pods follow one another under new    *)
(* UIDs) bound to one node name, whose node may be deleted and registered  *)
(* again. The cluster and the informers are external, as in SelectsWatch.  *)
(***************************************************************************)
EXTENDS NodeWatch

CONSTANTS
    PodSeq,         \* the pod CEIs the cluster gives the pod's name, in order
    Claim           \* the PVC CEIs the pods mount

PodIndex == 1 .. Len(PodSeq)
RunsOn(i, n) == [type |-> "runs-on", from |-> PodSeq[i], to |-> n]
Mounts(i, c) == [type |-> "mounts", from |-> PodSeq[i], to |-> c]

\* The API server gives no UID twice.
ASSUME PlacementAssumption ==
    /\ PodSeq \in Seq(CEI) /\ Claim \subseteq CEI
    /\ \A i, j \in PodIndex : PodSeq[i] = PodSeq[j] => i = j
    /\ \A i \in PodIndex : /\ \A n \in NodeCEI : RunsOn(i, n) \in Edge
                           /\ \A c \in Claim : Mounts(i, c) \in Edge

VARIABLES
    podsMade, podLife,      \* the pods of the cluster: when bound, when gone
    podSeen, boundSeen,     \* the pod lister: an incarnation or 0, bound or not
    claimsSeen,             \* the PVC lister
    podQ,                   \* notifications not yet handled
    podTask                 \* what the pod handler has read and not written

podClusterVars == <<podsMade, podLife>>
podCacheVars   == <<podSeen, boundSeen, claimsSeen>>
podVars == <<podClusterVars, podCacheVars, podQ, podTask>>
placementVars == <<edgeVars, nodeVars, podVars>>

NotYet == [bound |-> Zero, gone |-> Zero]
Pod(i) == podLife[i]
CurrentPod == IF podsMade > 0 /\ Pod(podsMade).gone = Zero THEN podsMade ELSE 0
Bound(i) == i # 0 /\ Pod(i).bound # Zero

\* The last tick waits for the informers and handlers, as in SelectsWatch.
Quiet == MaxTime - 1

Event(op, i, b) == [op |-> op, obj |-> i, bound |-> b]
NoPodTask == [pod |-> 0, at |-> Zero, runs |-> "skip", node |-> NoNode, claims |-> {}]

-----------------------------------------------------------------------------
(* The cluster (external).                                                 *)

PodChange ==
    /\ now < Quiet
    /\ \/ /\ CurrentPod = 0 /\ podsMade < Len(PodSeq)
          /\ podsMade' = podsMade + 1 /\ UNCHANGED podLife
       \/ /\ CurrentPod # 0 /\ ~ Bound(CurrentPod) /\ node # 0
          /\ podLife' = [podLife EXCEPT ![CurrentPod].bound = now] /\ UNCHANGED podsMade
       \/ /\ CurrentPod # 0
          /\ podLife' = [podLife EXCEPT ![CurrentPod].gone = now] /\ UNCHANGED podsMade
    /\ UNCHANGED <<edgeVars, nodeVars, podCacheVars, podQ, podTask>>

NodeChanges == now < Quiet /\ NodeChange /\ UNCHANGED podVars

-----------------------------------------------------------------------------
(* The informers (external).                                               *)

NotifyPod(i, b, event) ==
    /\ Len(podQ) < MaxPending
    /\ podSeen' = i /\ boundSeen' = b
    /\ podQ' = Append(podQ, event)
    /\ UNCHANGED <<edgeVars, nodeVars, podClusterVars, claimsSeen, podTask>>

PodUpToDate == podSeen = CurrentPod /\ boundSeen = Bound(CurrentPod)

\* A deletion that fell into a broken watch is missed once the name is taken again.
DeliverPod ==
    \/ podSeen \notin {0, CurrentPod} /\ NotifyPod(0, FALSE, Event("delete", podSeen, boundSeen))
    \/ CurrentPod # 0 /\ ~ PodUpToDate
          /\ NotifyPod(CurrentPod, Bound(CurrentPod), Event("upsert", CurrentPod, Bound(CurrentPod)))

\* The resync repeats the informer's cache, not the cluster.
ResyncPod == podSeen # 0 /\ NotifyPod(podSeen, boundSeen, Event("upsert", podSeen, boundSeen))

NodeDelivered == DeliverNode /\ UNCHANGED podVars

DeliverClaim(c) ==
    /\ c \notin claimsSeen
    /\ claimsSeen' = claimsSeen \cup {c}
    /\ UNCHANGED <<edgeVars, nodeVars, podClusterVars, podSeen, boundSeen, podQ, podTask>>

-----------------------------------------------------------------------------
(* The pod handler (upsertPodEdges, deletePodEdges).                       *)

PodDone == podQ' = Tail(podQ)

\* An unscheduled pod runs nowhere; one whose node the store does not know yet is
\* skipped until the next resync.
UpsertPodRead ==
    /\ podTask = NoPodTask /\ podQ # << >> /\ Head(podQ).op = "upsert"
    /\ podTask' = [pod |-> Head(podQ).obj, at |-> now, claims |-> Claim,
                   node |-> IF Head(podQ).bound THEN storeNode ELSE NoNode,
                   runs |-> IF Head(podQ).bound /\ storeNode = NoNode THEN "skip" ELSE "reconcile"]
    /\ UNCHANGED <<edgeVars, nodeVars, podClusterVars, podCacheVars, podQ>>

SlipOldNodeKept(t) == \E n \in {t.node} \ {NoNode} : Assert(RunsOn(t.pod, n), t.at)

ReconcileRunsOn(t) == ReconcileOut("runs-on", PodSeq[t.pod], {t.node} \ {NoNode}, t.at)

UpsertPodRunsOn ==
    /\ podTask.runs = "reconcile"
    /\ ReconcileRunsOn(podTask)
    /\ podTask' = [podTask EXCEPT !.runs = "skip"]
    /\ UNCHANGED <<nodeVars, podClusterVars, podCacheVars, podQ>>

\* Each claim is looked up and asserted in turn; the handler then ends.
UpsertPodMounts ==
    /\ podTask # NoPodTask /\ podTask.runs = "skip"
    /\ \/ \E c \in podTask.claims :
             /\ IF c \in claimsSeen THEN Assert(Mounts(podTask.pod, c), podTask.at) ELSE UNCHANGED edgeVars
             /\ podTask' = [podTask EXCEPT !.claims = @ \ {c}]
             /\ UNCHANGED podQ
       \/ podTask.claims = {} /\ podTask' = NoPodTask /\ PodDone /\ UNCHANGED edgeVars
    /\ UNCHANGED <<nodeVars, podClusterVars, podCacheVars>>

SlipRetractsInto(c, at) == RetractAllTo(c, at)
EndOfPod(c, at) == RetractAllFrom(c, at)

\* deletePodEdges: the time is read, and then the store called.
DeletePodRead ==
    /\ podTask = NoPodTask /\ podQ # << >> /\ Head(podQ).op = "delete"
    /\ podTask' = [NoPodTask EXCEPT !.pod = Head(podQ).obj, !.at = now, !.runs = "retract"]
    /\ UNCHANGED <<edgeVars, nodeVars, podClusterVars, podCacheVars, podQ>>

DeletePod ==
    /\ podTask.runs = "retract"
    /\ EndOfPod(PodSeq[podTask.pod], podTask.at)
    /\ podTask' = NoPodTask /\ PodDone
    /\ UNCHANGED <<nodeVars, podClusterVars, podCacheVars>>

NodeHandled == (HandleNode \/ DeleteNodeEdges) /\ UNCHANGED podVars

-----------------------------------------------------------------------------
CaughtUp == PodUpToDate /\ nodeSeen = node /\ claimsSeen = Claim /\ nodeQ = << >>

PlacementTick ==
    /\ podTask # NoPodTask => now < podTask.at + MaxHandling
    /\ NodeInTime
    /\ now = Quiet => /\ CaughtUp
                      /\ podTask.runs = "reconcile" => podTask.node = storeNode
    /\ Advance
    /\ UNCHANGED <<nodeVars, podVars>>

PlacementSweep == GC /\ UNCHANGED <<nodeVars, podVars>>

PlacementInit ==
    /\ Init /\ NodeInit
    /\ podsMade = 0 /\ podLife = [i \in PodIndex |-> NotYet]
    /\ podSeen = 0 /\ boundSeen = FALSE /\ claimsSeen = {}
    /\ podQ = << >> /\ podTask = NoPodTask

PlacementNext ==
    \/ PodChange \/ NodeChanges
    \/ DeliverPod \/ ResyncPod \/ NodeDelivered \/ \E c \in Claim : DeliverClaim(c)
    \/ UpsertPodRead \/ UpsertPodRunsOn \/ UpsertPodMounts
    \/ DeletePodRead \/ DeletePod \/ NodeHandled
    \/ PlacementTick \/ PlacementSweep

\* As in SelectsWatch: handlers, reflectors, the resync timer and the clock go on.
PlacementFairness ==
    /\ WF_placementVars(UpsertPodRead) /\ WF_placementVars(UpsertPodRunsOn) /\ WF_placementVars(UpsertPodMounts)
    /\ WF_placementVars(DeletePodRead) /\ WF_placementVars(DeletePod) /\ WF_placementVars(NodeHandled)
    /\ SF_placementVars(DeliverPod) /\ SF_placementVars(ResyncPod) /\ SF_placementVars(NodeDelivered)
    /\ \A c \in Claim : WF_placementVars(DeliverClaim(c))
    /\ SF_placementVars(PlacementTick)

PlacementSpec     == PlacementInit /\ [][PlacementNext]_placementVars
FairPlacementSpec == PlacementSpec /\ PlacementFairness

-----------------------------------------------------------------------------
(* Properties.                                                             *)

LiveHomes(i) == {j \in 1 .. nodesMade : Live(edges[RunsOn(i, NodeSeq[j])])}

\* A pod runs on one node: no interleaving of resyncs, node replacements and late
\* writes leaves two live runs-on edges of a pod (ReconcileOut's promise).
OneHome == \A i \in PodIndex : Cardinality(LiveHomes(i)) =< 1

\* Once the deletion of the name's last pod has been notified and handled, no edge
\* of that pod is live, of any type, whatever was resynced before.
HandledDeletionLeavesNothing ==
    podsMade > 0 /\ CurrentPod = 0 /\ PodUpToDate /\ podQ = << >> =>
        \A e \in Edge : e.from = PodSeq[podsMade] => ~ Live(edges[e])

\* At no instant does a pod run on two nodes, nor an edge outlive a handled deletion.
PlacementSound == OneHome /\ HandledDeletionLeavesNothing

\* Once the cluster is quiet, a bound pod on a present node has, for good, the
\* runs-on edge to the node's present incarnation, and its mounts.
PlacementSettles ==
    <>[](Bound(CurrentPod) /\ node # 0 =>
           /\ LiveHomes(CurrentPod) = {node}
           /\ \A c \in Claim : Live(edges[Mounts(CurrentPod, c)]))

=============================================================================
