--------------------------- MODULE TopologyProofs ---------------------------
(***************************************************************************)
(* Proofs about the edge store and about two of the watchers that write    *)
(* it, for any edges, budgets, horizon and stamps.                         *)
(*                                                                         *)
(* The store: what each operation makes of ONE assertion is stated first   *)
(* (Kept); the rest is bookkeeping of the two indexes. The step lemmas are *)
(* about StoreStep, every call with any stamp but time.Time{}, so that     *)
(* they serve the watchers too.                                            *)
(*                                                                         *)
(* Node liveness, for any number of incarnations of a node name, any skew  *)
(* and length of the queues: every stamp that confirms a lease's edge was  *)
(* a renew time of the node once, wherever it is on its way.               *)
(*                                                                         *)
(* Placement, for any number of pods of a name and of incarnations of a    *)
(* node: what reconciles a pod leaves it one home, and the notifications   *)
(* of a pod that is gone end in its deletion.                              *)
(***************************************************************************)
EXTENDS LeaseWatch, PlacementWatch, SequenceTheorems, FiniteSetTheorems, TLAPS

(* ----------------------------- The store ------------------------------- *)

Sound(a) ==
    /\ Known(a) => a.asserted =< a.confirmed
    /\ Retracted(a) => a.asserted =< a.retracted

\* What a step may make of an assertion a, other than dropping it.
Kept(a, b) ==
    /\ b \in EdgeAssertion /\ Sound(b)
    /\ Known(a) => Known(b)
    /\ Retracted(a) => b = a \/ (Live(b) /\ b.asserted > a.retracted)
    /\ Live(a) => b.asserted = a.asserted /\ b.confirmed >= a.confirmed

\* Asserting keeps an assertion sound, and does not revive or set back what the
\* properties protect.
LEMMA AssertedKeeps ==
    ASSUME NEW a \in EdgeAssertion, Sound(a), NEW at \in Nat, at # Zero
    PROVE  Kept(a, Asserted(a, at)) /\ Known(Asserted(a, at))
  BY SMT DEF Kept, Asserted, Sound, Known, Retracted, Live, EdgeAssertion, Zero

\* So does retracting.
LEMMA RetractedKeeps ==
    ASSUME NEW a \in EdgeAssertion, Sound(a), NEW at \in Nat, at # Zero
    PROVE  Kept(a, RetractedAs(a, at)) /\ (Known(RetractedAs(a, at)) => Known(a))
  BY SMT DEF Kept, RetractedAs, Sound, Known, Retracted, Live, EdgeAssertion, Zero

LEMMA UnchangedKeeps ==
    ASSUME NEW a \in EdgeAssertion, Sound(a)
    PROVE  Kept(a, a)
  BY SMT DEF Kept, Sound, Known, Retracted, Live, EdgeAssertion, Zero

LEMMA SoundEach ==
    ASSUME EdgeInv, NEW e \in Edge
    PROVE  edges[e] \in EdgeAssertion /\ Sound(edges[e])
  BY DEF EdgeInv, EdgeTypeOK, IntervalsSound, Sound

LEMMA StampIsTime ==
    ASSUME NEW at \in Stamp
    PROVE  at \in Nat /\ at # Zero
  BY SMT, EdgeAssumption DEF Stamp, Instant, Zero, EdgeAssumption

-----------------------------------------------------------------------------
\* One step, seen from one edge: it is kept, or dropped long after its retraction.
Dropped(a, b) == b = NoAssertion /\ Retracted(a) /\ now - a.retracted >= Horizon

\* Any call of the store, whatever its caller read and when.
StoreStep ==
    \/ \E e \in Edge, at \in Nat \ {Zero} : Assert(e, at) \/ Retract(e, at)
    \/ \E typ \in EdgeType, c \in CEI, want \in SUBSET CEI, at \in Nat \ {Zero} :
          ReconcileOut(typ, c, want, at)
    \/ \E E \in SUBSET Edge, at \in Nat \ {Zero} : RetractEach(E, at)
    \/ GC
    \/ Advance
    \/ UNCHANGED edgeVars

LEMMA NextIsStoreStep ==
    ASSUME EdgeInv, [Next]_edgeVars
    PROVE  StoreStep
  <1>1. \A at \in Stamp : at \in Nat \ {Zero}
    BY StampIsTime
  <1>2. \A e \in Edge : e.type \in EdgeType /\ e.from \in CEI /\ e.to \in CEI
    BY EdgeAssumption DEF EdgeAssumption
  <1>3. CASE \E e \in Edge, at \in Stamp : Assert(e, at) \/ Retract(e, at)
    BY <1>1, <1>3 DEF StoreStep
  <1>4. CASE \E e \in Edge, want \in SUBSET {x.to : x \in Edge}, at \in Stamp :
                ReconcileOut(e.type, e.from, want, at)
    <2>1. PICK e \in Edge, want \in SUBSET {x.to : x \in Edge}, at \in Stamp :
                ReconcileOut(e.type, e.from, want, at)
      BY <1>4
    <2>2. want \in SUBSET CEI
      BY <1>2
    <2> QED
      BY <1>1, <1>2, <2>1, <2>2 DEF StoreStep
  <1>5. CASE \E c \in CEI, at \in Stamp : RetractAllFrom(c, at) \/ RetractAllTo(c, at)
    <2>1. \A c \in CEI : byFrom[c] \in SUBSET Edge /\ byTo[c] \in SUBSET Edge
      BY DEF EdgeInv, EdgeTypeOK
    <2> QED
      BY <1>1, <1>5, <2>1 DEF StoreStep, RetractAllFrom, RetractAllTo
  <1> QED
    BY <1>3, <1>4, <1>5 DEF Next, StoreStep

LEMMA StepEach ==
    ASSUME EdgeInv, StoreStep, NEW e \in Edge
    PROVE  Kept(edges[e], edges'[e]) \/ Dropped(edges[e], edges'[e])
  <1>1. edges[e] \in EdgeAssertion /\ Sound(edges[e])
    BY SoundEach
  <1>2. Kept(edges[e], edges[e])
    BY <1>1, UnchangedKeeps
  <1>3. \A at \in Nat \ {Zero} : Kept(edges[e], Asserted(edges[e], at))
    BY <1>1, AssertedKeeps
  <1>4. \A at \in Nat \ {Zero} : Kept(edges[e], RetractedAs(edges[e], at))
    BY <1>1, RetractedKeeps
  <1>5. edges \in [Edge -> EdgeAssertion]
    BY DEF EdgeInv, EdgeTypeOK
  <1>6. CASE \E d \in Edge, at \in Nat \ {Zero} : Assert(d, at)
    BY <1>2, <1>3, <1>5, <1>6 DEF Assert
  <1>7. CASE \E d \in Edge, at \in Nat \ {Zero} : Retract(d, at)
    BY <1>2, <1>4, <1>5, <1>7 DEF Retract
  <1>8. CASE \E typ \in EdgeType, c \in CEI, want \in SUBSET CEI, at \in Nat \ {Zero} :
                ReconcileOut(typ, c, want, at)
    <2>1. PICK typ \in EdgeType, c \in CEI, want \in SUBSET CEI, at \in Nat \ {Zero} :
                ReconcileOut(typ, c, want, at)
      BY <1>8
    <2>2. edges'[e] \in {Asserted(edges[e], at), RetractedAs(edges[e], at), edges[e]}
      BY <2>1 DEF ReconcileOut
    <2> QED
      BY <1>2, <1>3, <1>4, <2>2
  <1>9. CASE \E E \in SUBSET Edge, at \in Nat \ {Zero} : RetractEach(E, at)
    <2>1. \E at \in Nat \ {Zero} : edges'[e] \in {RetractedAs(edges[e], at), edges[e]}
      BY <1>9 DEF RetractEach
    <2> QED
      BY <1>2, <1>4, <2>1
  <1>10. CASE GC
    BY <1>2, <1>10 DEF GC, Reclaimable, Dropped
  <1>11. CASE Advance \/ UNCHANGED edgeVars
    BY <1>2, <1>11 DEF Advance, edgeVars
  <1> QED
    BY <1>6, <1>7, <1>8, <1>9, <1>10, <1>11 DEF StoreStep

\* The indexes follow the assertions: what becomes known is indexed, what is
\* dropped is not.
LEMMA StepIndexes ==
    ASSUME EdgeInv, StoreStep
    PROVE  /\ byFrom' \in [CEI -> SUBSET Edge] /\ byTo' \in [CEI -> SUBSET Edge]
           /\ IndexesAgree'
           /\ now' \in Nat
  <1>1. /\ edges \in [Edge -> EdgeAssertion] /\ now \in Nat
        /\ byFrom \in [CEI -> SUBSET Edge] /\ byTo \in [CEI -> SUBSET Edge]
    BY DEF EdgeInv, EdgeTypeOK
  <1>2. \A c \in CEI : /\ byFrom[c] = {e \in Edge : Known(edges[e]) /\ e.from = c}
                       /\ byTo[c] = {e \in Edge : Known(edges[e]) /\ e.to = c}
    BY DEF EdgeInv, IndexesAgree
  <1>3. \A e \in Edge, at \in Nat \ {Zero} : Known(Asserted(edges[e], at))
    BY SoundEach, AssertedKeeps
  <1>4. \A e \in Edge, at \in Nat \ {Zero} : Known(RetractedAs(edges[e], at)) <=> Known(edges[e])
    BY SoundEach, RetractedKeeps DEF Kept
  <1>5. \A e \in Edge : e.from \in CEI /\ e.to \in CEI
    BY EdgeAssumption DEF EdgeAssumption
  <1>6. CASE \E d \in Edge, at \in Nat \ {Zero} : Assert(d, at)
    <2>1. PICK d \in Edge, at \in Nat \ {Zero} : Assert(d, at)
      BY <1>6
    <2>2. \A e \in Edge : Known(edges'[e]) <=> Known(edges[e]) \/ e = d
      BY <1>1, <1>3, <2>1 DEF Assert
    <2>3. \A c \in CEI : /\ byFrom'[c] = byFrom[c] \cup (IF c = d.from THEN {d} ELSE {})
                         /\ byTo'[c] = byTo[c] \cup (IF c = d.to THEN {d} ELSE {})
      BY <1>1, <1>5, <2>1 DEF Assert
    <2>4. byFrom' \in [CEI -> SUBSET Edge] /\ byTo' \in [CEI -> SUBSET Edge] /\ now' \in Nat
      BY <1>1, <2>1 DEF Assert
    <2>5. IndexesAgree'
      BY <1>2, <2>2, <2>3 DEF IndexesAgree
    <2> QED
      BY <2>4, <2>5
  <1>7. ASSUME UNCHANGED <<now, byFrom, byTo>>,
               \A e \in Edge : Known(edges'[e]) <=> Known(edges[e])
        PROVE  /\ byFrom' \in [CEI -> SUBSET Edge] /\ byTo' \in [CEI -> SUBSET Edge]
               /\ IndexesAgree' /\ now' \in Nat
    BY <1>1, <1>2, <1>7 DEF IndexesAgree
  <1>8. CASE \E d \in Edge, at \in Nat \ {Zero} : Retract(d, at)
    BY <1>1, <1>4, <1>7, <1>8 DEF Retract
  <1>9. CASE \E typ \in EdgeType, c \in CEI, want \in SUBSET CEI, at \in Nat \ {Zero} :
                ReconcileOut(typ, c, want, at)
    <2>1. PICK typ \in EdgeType, src \in CEI, want \in SUBSET CEI, at \in Nat \ {Zero} :
                ReconcileOut(typ, src, want, at)
      BY <1>9
    <2> DEFINE wanted == {e \in Edge : (e.type = typ /\ e.from = src) /\ e.to \in want}
    <2>2. \A e \in Edge : Known(edges'[e]) <=> Known(edges[e]) \/ e \in wanted
      BY <1>3, <1>4, <2>1 DEF ReconcileOut
    <2>3. \A c \in CEI : /\ byFrom'[c] = byFrom[c] \cup {e \in wanted : e.from = c}
                         /\ byTo'[c] = byTo[c] \cup {e \in wanted : e.to = c}
      BY <1>1, <1>5, <2>1 DEF ReconcileOut
    <2>4. byFrom' \in [CEI -> SUBSET Edge] /\ byTo' \in [CEI -> SUBSET Edge] /\ now' \in Nat
      BY <1>1, <2>1 DEF ReconcileOut
    <2>5. IndexesAgree'
      BY <1>2, <2>2, <2>3 DEF IndexesAgree
    <2> QED
      BY <2>4, <2>5
  <1>10. CASE \E E \in SUBSET Edge, at \in Nat \ {Zero} : RetractEach(E, at)
    BY <1>1, <1>4, <1>7, <1>10 DEF RetractEach
  <1>11. CASE GC
    <2>1. \A e \in Edge : Known(edges'[e]) <=> Known(edges[e]) /\ e \notin Reclaimable
      BY <1>11 DEF GC, Known, NoAssertion
    <2>2. \A c \in CEI : byFrom'[c] = byFrom[c] \ Reclaimable /\ byTo'[c] = byTo[c] \ Reclaimable
      BY <1>11 DEF GC, Unindexed
    <2>3. byFrom' \in [CEI -> SUBSET Edge] /\ byTo' \in [CEI -> SUBSET Edge] /\ now' \in Nat
      BY <1>1, <1>11 DEF GC, Unindexed
    <2>4. IndexesAgree'
      BY <1>2, <2>1, <2>2 DEF IndexesAgree
    <2> QED
      BY <2>3, <2>4
  <1>12. CASE Advance \/ UNCHANGED edgeVars
    BY <1>1, <1>2, <1>12 DEF Advance, IndexesAgree, edgeVars
  <1> QED
    BY <1>6, <1>8, <1>9, <1>10, <1>11, <1>12 DEF StoreStep

\* Every call, with any stamp, leaves the store sound.
LEMMA StoreStepKeeps ==
    ASSUME EdgeInv, StoreStep
    PROVE  EdgeInv'
  <1>1. NoAssertion \in EdgeAssertion /\ Sound(NoAssertion)
    BY SMT DEF NoAssertion, EdgeAssertion, Sound, Known, Retracted, Zero
  <1>2. \A e \in Edge : edges'[e] \in EdgeAssertion /\ Sound(edges'[e])
    BY <1>1, StepEach DEF Kept, Dropped
  <1>3. \E f : edges' = [e \in Edge |-> f[e]]
    <2>1. edges \in [Edge -> EdgeAssertion]
      BY DEF EdgeInv, EdgeTypeOK
    <2> QED
      BY <2>1 DEF StoreStep, Assert, Retract, ReconcileOut, RetractEach, GC, Advance, edgeVars
  <1>4. edges' \in [Edge -> EdgeAssertion]
    BY <1>2, <1>3
  <1> QED
    BY <1>2, <1>4, StepIndexes DEF EdgeInv, EdgeTypeOK, IntervalsSound, Sound

\* Every call, with any stamp, leaves what was recorded of an edge on record.
LEMMA StoreStepRemembers ==
    ASSUME EdgeInv, StoreStep, NEW e \in Edge
    PROVE  /\ Retracted(edges[e]) =>
                \/ edges'[e] = edges[e]
                \/ Live(edges'[e]) /\ edges'[e].asserted > edges[e].retracted
                \/ ~ Known(edges'[e]) /\ now - edges[e].retracted >= Horizon
           /\ Live(edges[e]) =>
                /\ Known(edges'[e]) /\ edges'[e].asserted = edges[e].asserted
                /\ edges'[e].confirmed >= edges[e].confirmed
  BY StepEach DEF Kept, Dropped, NoAssertion, Known, Live, Retracted

LEMMA InitSound == Init => EdgeInv
  <1>1. NoAssertion \in EdgeAssertion /\ ~ Known(NoAssertion)
    BY SMT DEF NoAssertion, EdgeAssertion, Known, Zero
  <1> QED
    BY <1>1 DEF Init, EdgeInv, EdgeTypeOK, IndexesAgree, IntervalsSound, Retracted

-----------------------------------------------------------------------------
\* The inductive invariant is EdgeInv: the three state properties need each other,
\* as the indexes decide which assertions a retraction reaches.
THEOREM EdgeInvInductive == Spec => []EdgeInv
  <1>1. EdgeInv /\ [Next]_edgeVars => EdgeInv'
    BY NextIsStoreStep, StoreStepKeeps
  <1> QED
    BY <1>1, InitSound, PTL DEF Spec

\* The store keeps its types: the type invariant holds for any edges and stamps.
THEOREM EdgeTypesCorrect == Spec => []EdgeTypeOK
  <1>1. EdgeInv => EdgeTypeOK
    BY DEF EdgeInv
  <1> QED
    BY <1>1, EdgeInvInductive, PTL

\* The two indexes of edges.go hold exactly the resident edges, whatever
\* interleaving of assertions, reconciliations, retractions and sweeps.
THEOREM IndexesExact == Spec => []IndexesAgree
  <1>1. EdgeInv => IndexesAgree
    BY DEF EdgeInv
  <1> QED
    BY <1>1, EdgeInvInductive, PTL

\* No stamp, however late or early, makes an interval of negative length.
THEOREM IntervalsAreSound == Spec => []IntervalsSound
  <1>1. EdgeInv => IntervalsSound
    BY DEF EdgeInv
  <1> QED
    BY <1>1, EdgeInvInductive, PTL

\* A stale event revives no retracted edge, and no sweep drops one whose
\* retraction is within the horizon.
THEOREM RetractionsAreFinal == Spec => RetractionIsFinal
  <1> DEFINE Step == \A e \in Edge : Retracted(edges[e]) =>
         \/ edges'[e] = edges[e]
         \/ Live(edges'[e]) /\ edges'[e].asserted > edges[e].retracted
         \/ ~ Known(edges'[e]) /\ now - edges[e].retracted >= Horizon
  <1>1. EdgeInv /\ [Next]_edgeVars => [Step]_edgeVars
    BY NextIsStoreStep, StoreStepRemembers
  <1> QED
    BY <1>1, EdgeInvInductive, PTL DEF Spec, RetractionIsFinal

\* A live edge never looks staler, nor younger, than it was.
THEOREM ConfirmationsAreMonotone == Spec => ConfirmationMonotone
  <1> DEFINE Step == \A e \in Edge : Live(edges[e]) =>
         /\ Known(edges'[e]) /\ edges'[e].asserted = edges[e].asserted
         /\ edges'[e].confirmed >= edges[e].confirmed
  <1>1. EdgeInv /\ [Next]_edgeVars => [Step]_edgeVars
    BY NextIsStoreStep, StoreStepRemembers
  <1> QED
    BY <1>1, EdgeInvInductive, PTL DEF Spec, ConfirmationMonotone

\* Both together: no later call falsifies what the store recorded of an edge.
THEOREM HistoryIsKept == Spec => HistoryKept
  <1> QED
    BY RetractionsAreFinal, ConfirmationsAreMonotone DEF HistoryKept

-----------------------------------------------------------------------------
\* A snapshot row names its edge, so the rebuilt store holds the same assertion
\* of every resident edge, and the rebuilt index the same edges.
LEMMA RebuiltSame ==
    ASSUME EdgeInv
    PROVE  /\ \A e \in Edge : IF Known(edges[e]) THEN Rebuilt(Snapshot)[e] = edges[e]
                              ELSE Rebuilt(Snapshot)[e] = NoAssertion
           /\ RebuiltFrom(Snapshot) = byFrom
  <1>0. \A e \in Edge : Known(edges[e]) => <<e, edges[e]>> \in Snapshot
    BY DEF Snapshot
  <1>1. \A e \in Edge : (\E r \in Snapshot : r[1] = e) <=> Known(edges[e])
    <2> SUFFICES ASSUME NEW e \in Edge
                 PROVE  (\E r \in Snapshot : r[1] = e) <=> Known(edges[e])
      OBVIOUS
    <2>1. ASSUME Known(edges[e]) PROVE \E r \in Snapshot : r[1] = e
      <3>1. <<e, edges[e]>>[1] = e
        OBVIOUS
      <3> QED
        BY <1>0, <2>1, <3>1
    <2>2. ASSUME NEW r \in Snapshot, r[1] = e PROVE Known(edges[e])
      BY <2>2 DEF Snapshot
    <2> QED
      BY <2>1, <2>2
  <1>2. \A e \in Edge : \A r \in Snapshot : r[1] = e => r = <<e, edges[e]>>
    BY DEF Snapshot
  <1>3. ASSUME NEW e \in Edge, Known(edges[e])
        PROVE  Rebuilt(Snapshot)[e] = edges[e]
    <2>1. \E r \in Snapshot : r[1] = e
      BY <1>1, <1>3
    <2>2. (CHOOSE r \in Snapshot : r[1] = e) = <<e, edges[e]>>
      BY <1>2, <2>1
    <2>3. Rebuilt(Snapshot)[e] = (CHOOSE r \in Snapshot : r[1] = e)[2]
      BY <2>1 DEF Rebuilt
    <2>4. <<e, edges[e]>>[2] = edges[e]
      OBVIOUS
    <2> QED
      BY <2>2, <2>3, <2>4
  <1>4. ASSUME NEW e \in Edge, ~ Known(edges[e])
        PROVE  Rebuilt(Snapshot)[e] = NoAssertion
    BY <1>1, <1>4 DEF Rebuilt
  <1>5. \A c \in CEI : byFrom[c] = {e \in Edge : e.from = c /\ \E r \in Snapshot : r[1] = e}
    BY <1>1 DEF EdgeInv, IndexesAgree
  <1>6. byFrom \in [CEI -> SUBSET Edge]
    BY DEF EdgeInv, EdgeTypeOK
  <1>7. RebuiltFrom(Snapshot) = byFrom
    BY <1>5, <1>6 DEF RebuiltFrom
  <1> QED
    BY <1>3, <1>4, <1>7

\* A replayed tick walks exactly the topology the live tick saw, for every
\* content of the store, budget and window.
THEOREM ReplayWalksTheSame == Spec => []ReplayWalksAlike
  <1>1. EdgeInv => ReplayWalksAlike
    <2> SUFFICES ASSUME EdgeInv, NEW typ \in EdgeType, NEW c \in CEI, NEW w \in Window
                 PROVE  NeighboursIn(Rebuilt(Snapshot), RebuiltFrom(Snapshot), typ, c, w)
                            = NeighboursIn(edges, byFrom, typ, c, w)
      BY DEF ReplayWalksAlike
    <2>1. byFrom[c] \subseteq Edge
      BY DEF EdgeInv, EdgeTypeOK
    <2>2. ASSUME NEW e \in Edge
          PROVE  TraverseIn(Rebuilt(Snapshot), e, w) = TraverseIn(edges, e, w)
      <3>1. CASE Known(edges[e])
        BY <3>1, RebuiltSame DEF TraverseIn
      <3>2. CASE ~ Known(edges[e])
        BY <3>2, RebuiltSame DEF TraverseIn, NoAssertion, Known
      <3> QED
        BY <3>1, <3>2
    <2> QED
      BY <2>1, <2>2, RebuiltSame DEF NeighboursIn
  <1> QED
    BY <1>1, EdgeInvInductive, PTL

-----------------------------------------------------------------------------
(* Queues, and the node handler that two watchers share.                   *)

\* Notifications wait in order: what is appended is new, what is left was there.
LEMMA AppendedEvents ==
    ASSUME NEW S, NEW q \in Seq(S), NEW x \in S
    PROVE  /\ Append(q, x) \in Seq(S) /\ Len(Append(q, x)) = Len(q) + 1
           /\ \A j \in 1 .. Len(Append(q, x)) :
                 (j \in 1 .. Len(q) /\ Append(q, x)[j] = q[j]) \/ Append(q, x)[j] = x
  <1>1. Append(q, x) \in Seq(S) /\ Len(Append(q, x)) = Len(q) + 1
    BY AppendProperties
  <1>2. \A j \in 1 .. Len(q) : Append(q, x)[j] = q[j]
    BY AppendProperties
  <1>3. Append(q, x)[Len(q) + 1] = x
    BY AppendProperties
  <1>4. \A j \in 1 .. Len(q) + 1 : j \in 1 .. Len(q) \/ j = Len(q) + 1
    OBVIOUS
  <1> QED
    BY <1>1, <1>2, <1>3, <1>4

LEMMA TailEvents ==
    ASSUME NEW S, NEW q \in Seq(S), q # << >>
    PROVE  /\ Tail(q) \in Seq(S) /\ Head(q) = q[1] /\ 1 \in 1 .. Len(q) /\ q[1] \in S
           /\ \A j \in 1 .. Len(Tail(q)) : j + 1 \in 1 .. Len(q) /\ Tail(q)[j] = q[j + 1]
  <1>1. Tail(q) \in Seq(S) /\ Len(Tail(q)) = Len(q) - 1 /\ Len(q) \in Nat \ {0} /\ Head(q) = q[1]
    BY HeadTailProperties
  <1>2. \A j \in 1 .. Len(Tail(q)) : Tail(q)[j] = q[j + 1]
    BY HeadTailProperties
  <1> QED
    BY <1>1, <1>2

NodeTasks == [node : NodeIndex, at : Nat \ {Zero}, next : {"into", "from"}]

\* The indexes of the node's incarnations are those the cluster made, and the node
\* handler at work holds the head of its queue.
NodesInv ==
    /\ nodesMade \in 0 .. Len(NodeSeq) /\ node \in 0 .. Len(NodeSeq)
    /\ nodeSeen \in 0 .. Len(NodeSeq)
    /\ nodeQ \in Seq(NodeEvent)
    /\ storeNode \in NodeCEI \cup {NoNode}
    /\ nodeTask # NoNodeTask => nodeTask \in NodeTasks /\ nodeQ # << >>

LEMMA NodesAreNodes ==
    /\ \A j \in NodeIndex : NodeSeq[j] \in NodeCEI
    /\ NodeCEI \subseteq CEI /\ NoNode \notin NodeCEI /\ Len(NodeSeq) \in Nat
  BY NodeAssumption DEF NodeAssumption, NodeCEI, NodeIndex

LEMMA InitNodes == NodeInit => NodesInv
  BY NodesAreNodes DEF NodeInit, NodesInv

LEMMA HeadOfNodeQueue ==
    ASSUME NodesInv, nodeQ # << >>
    PROVE  /\ Tail(nodeQ) \in Seq(NodeEvent) /\ Head(nodeQ).node \in NodeIndex
           /\ NodeSeq[Head(nodeQ).node] \in NodeCEI
  <1>1. Tail(nodeQ) \in Seq(NodeEvent) /\ Head(nodeQ) \in NodeEvent
    BY TailEvents DEF NodesInv
  <1>2. Head(nodeQ).node \in NodeIndex
    BY <1>1 DEF NodeEvent
  <1> QED
    BY <1>1, <1>2, NodesAreNodes

\* What the node handler is about to retract belongs to a node of the cluster.
LEMMA NodeTaskIs ==
    ASSUME NodesInv, DeleteNodeEdges
    PROVE  /\ nodeTask \in NodeTasks /\ nodeQ # << >> /\ NodeSeq[nodeTask.node] \in CEI
           /\ nodeTask.at \in Nat \ {Zero}
  <1>1. nodeTask # NoNodeTask
    BY DEF DeleteNodeEdges, NoNodeTask
  <1>2. nodeTask \in NodeTasks /\ nodeQ # << >>
    BY <1>1 DEF NodesInv
  <1> QED
    BY <1>2, NodesAreNodes DEF NodeTasks

LEMMA NodesKept ==
    ASSUME NodesInv, now \in Nat \ {Zero},
           NodeChange \/ DeliverNode \/ HandleNode \/ DeleteNodeEdges \/ UNCHANGED nodeVars
    PROVE  NodesInv'
  <1>1. Len(NodeSeq) \in Nat
    BY NodesAreNodes
  <1>2. CASE NodeChange
    BY <1>1, <1>2 DEF NodeChange, NodesInv
  <1>3. CASE DeliverNode
    <2>1. PICK x \in NodeEvent : nodeQ' = Append(nodeQ, x)
      BY <1>3 DEF DeliverNode, NodesInv, NodeEvent, NodeIndex
    <2>2. nodeQ' \in Seq(NodeEvent) /\ nodeQ' # << >>
      <3>1. nodeQ \in Seq(NodeEvent)
        BY DEF NodesInv
      <3>2. Append(nodeQ, x) \in Seq(NodeEvent) /\ Len(Append(nodeQ, x)) = Len(nodeQ) + 1 /\ Len(nodeQ) \in Nat
        BY <3>1, AppendedEvents, LenProperties
      <3>3. Append(nodeQ, x) # << >>
        BY <3>2, EmptySeq
      <3> QED
        BY <2>1, <3>2, <3>3
    <2> QED
      BY <1>1, <1>3, <2>2 DEF DeliverNode, NodesInv
  <1>4. CASE HandleNode
    <2>1. nodeQ \in Seq(NodeEvent) /\ nodeQ # << >>
      BY <1>4 DEF HandleNode, NodesInv
    <2>2. /\ Tail(nodeQ) \in Seq(NodeEvent) /\ Head(nodeQ).node \in NodeIndex
          /\ NodeSeq[Head(nodeQ).node] \in NodeCEI
      BY <2>1, HeadOfNodeQueue
    <2>3. storeNode' \in NodeCEI \cup {NoNode} /\ nodeQ' \in Seq(NodeEvent)
      BY <1>4, <2>1, <2>2 DEF HandleNode, Answer, NodesInv
    <2>4. nodeTask' # NoNodeTask => nodeTask' \in NodeTasks /\ nodeQ' # << >>
      BY <1>4, <2>1, <2>2 DEF HandleNode, NodeTasks
    <2> QED
      BY <1>4, <2>3, <2>4 DEF HandleNode, NodesInv
  <1>5. CASE DeleteNodeEdges
    <2>1. nodeTask \in NodeTasks /\ nodeQ # << >> /\ Tail(nodeQ) \in Seq(NodeEvent)
      BY <1>5, NodeTaskIs, HeadOfNodeQueue
    <2>2. \/ nodeTask' \in NodeTasks /\ nodeQ' = nodeQ
          \/ nodeTask' = NoNodeTask /\ nodeQ' = Tail(nodeQ)
      BY <1>5, <2>1 DEF DeleteNodeEdges, NodeTasks
    <2> QED
      BY <1>5, <2>1, <2>2 DEF DeleteNodeEdges, NodesInv
  <1>6. CASE UNCHANGED nodeVars
    BY <1>6 DEF nodeVars, NodesInv
  <1> QED
    BY <1>2, <1>3, <1>4, <1>5, <1>6

\* The node handler only retracts, what the deleted instance is an end of, with the
\* time it read before.
LEMMA NodeEdgesRetracted ==
    ASSUME NodesInv, EdgeInv, DeleteNodeEdges
    PROVE  \E E \in SUBSET Edge : RetractEach(E, nodeTask.at)
  <1> DEFINE n == NodeSeq[nodeTask.node]
  <1>1. n \in CEI
    BY NodeTaskIs
  <1> HIDE DEF n
  <1>2. byTo[n] \in SUBSET Edge /\ byFrom[n] \in SUBSET Edge
    BY <1>1 DEF EdgeInv, EdgeTypeOK
  <1>3. RetractEach(byTo[n], nodeTask.at) \/ RetractEach(byFrom[n], nodeTask.at)
    BY DEF DeleteNodeEdges, RetractAllTo, RetractAllFrom, n
  <1> QED
    BY <1>2, <1>3

LEMMA NodeEdgesIsStoreStep ==
    ASSUME NodesInv, EdgeInv, DeleteNodeEdges
    PROVE  StoreStep
  BY NodeTaskIs, NodeEdgesRetracted DEF StoreStep

-----------------------------------------------------------------------------
(* Node liveness.                                                          *)

\* A renew time on its way is one the node gave.
Renewal(t) == t \in Nat /\ t =< newest

LeaseEvent == [op : {"upsert", "delete"}, at : Nat]

LeasesInv ==
    /\ newest \in Nat /\ Renewal(renewed) /\ Renewal(leaseSeen)
    /\ leaseQ \in Seq(LeaseEvent)
    /\ \A j \in 1 .. Len(leaseQ) :
          leaseQ[j].op = "upsert" => leaseQ[j].at # Zero /\ Renewal(leaseQ[j].at)

\* The handler at work holds the head of its queue, and a node the cluster made.
LeaseTaskInv ==
    leaseTask # NoLeaseTask =>
        /\ leaseQ # << >>
        /\ leaseTask.node \in NodeCEI /\ leaseTask.op \in {"upsert", "delete"} /\ leaseTask.at \in Nat \ {Zero}
        /\ leaseTask.op = "upsert" => Renewal(leaseTask.at)

\* What the store holds of a node was confirmed by no later renewal than the newest.
ConfirmedByRenewals ==
    \A n \in NodeCEI : edges[LeaseOf(n)].confirmed =< newest

LeaseInv ==
    /\ EdgeInv /\ now # Zero
    /\ NodesInv /\ LeasesInv /\ LeaseTaskInv /\ ConfirmedByRenewals

-----------------------------------------------------------------------------
\* What becomes of the confirmation of an edge, and what revives one.
LEMMA AssertedConfirms ==
    ASSUME NEW a \in EdgeAssertion, NEW at \in Nat \ {Zero}
    PROVE  /\ Asserted(a, at).confirmed \in {a.confirmed, at}
           /\ Retracted(a) /\ Live(Asserted(a, at)) => at > a.retracted
  BY SMT DEF Asserted, Known, Retracted, Live, EdgeAssertion, Zero

LEMMA RetractedConfirms ==
    ASSUME NEW a \in EdgeAssertion, NEW at \in Nat \ {Zero}
    PROVE  /\ RetractedAs(a, at).confirmed = a.confirmed
           /\ Retracted(a) => ~ Live(RetractedAs(a, at))
  BY SMT DEF RetractedAs, Known, Retracted, Live, EdgeAssertion, Zero

LEMMA LeasesAreEdges == \A n \in NodeCEI : LeaseOf(n) \in Edge
  BY LeaseAssumption DEF LeaseAssumption

\* What each handler calls is a call of the store, with a stamp of the cluster or of
\* the injected clock.
LEMMA LeaseNextIsStoreStep ==
    ASSUME LeaseInv, LeaseNext
    PROVE  StoreStep
  <1>1. now \in Nat \ {Zero}
    BY DEF LeaseInv, EdgeInv, EdgeTypeOK
  <1>2. CASE LeaseWrite
    <2>1. LeaseOf(leaseTask.node) \in Edge /\ leaseTask.at \in Nat \ {Zero}
      BY <1>2, LeasesAreEdges DEF LeaseWrite, LeaseInv, LeaseTaskInv
    <2> QED
      BY <1>2, <2>1 DEF LeaseWrite, StoreStep
  <1>3. CASE DeleteNodeEdges
    BY <1>3, NodeEdgesIsStoreStep DEF LeaseInv
  <1>4. CASE LeaseNext /\ ~ LeaseWrite /\ ~ DeleteNodeEdges
    BY <1>4 DEF LeaseNext, NodeChange, HandleNode, Renew, LeaseCollected, DeliverNode, DeliverLease, LeaseRead,
                LeaseTick, LeaseSweep, StoreStep
  <1> QED
    BY <1>2, <1>3, <1>4

\* Only the renewal a handler holds confirms an edge or revives it.
ByRenewal(a, b) ==
    /\ b.confirmed =< newest
    /\ Retracted(a) /\ Live(b) => newest > a.retracted

LEMMA OnlyRenewalsConfirm ==
    ASSUME LeaseInv, LeaseNext, NEW n \in NodeCEI, NEW e, e = LeaseOf(n)
    PROVE  ByRenewal(edges[e], edges'[e])
  <1>1. /\ e \in Edge /\ edges \in [Edge -> EdgeAssertion] /\ edges[e] \in EdgeAssertion
        /\ edges[e].confirmed =< newest /\ newest \in Nat /\ now \in Nat \ {Zero}
    BY LeasesAreEdges DEF LeaseInv, EdgeInv, EdgeTypeOK, ConfirmedByRenewals, LeasesInv
  <1>2. ByRenewal(edges[e], edges[e])
    BY <1>1 DEF ByRenewal, Retracted, Live
  <1>3. ByRenewal(edges[e], NoAssertion)
    BY <1>1 DEF ByRenewal, NoAssertion, Live, Known, Zero
  <1>4. \A at \in Nat \ {Zero} : ByRenewal(edges[e], RetractedAs(edges[e], at))
    BY <1>1, RetractedConfirms DEF ByRenewal
  <1>5. ASSUME NEW at \in Nat \ {Zero}, at =< newest
        PROVE  ByRenewal(edges[e], Asserted(edges[e], at))
    <2>1. edges[e].retracted \in Nat
      BY <1>1 DEF EdgeAssertion
    <2> QED
      BY <1>1, <1>5, <2>1, AssertedConfirms DEF ByRenewal
  <1>6. CASE LeaseWrite
    <2>1. leaseTask.at \in Nat \ {Zero} /\ (leaseTask.op = "upsert" => leaseTask.at =< newest)
      BY <1>6 DEF LeaseWrite, LeaseInv, LeaseTaskInv, Renewal
    <2>2. CASE leaseTask.op = "upsert" /\ Assert(LeaseOf(leaseTask.node), leaseTask.at)
      BY <1>1, <1>2, <1>5, <2>1, <2>2 DEF Assert
    <2>3. CASE leaseTask.op = "delete" /\ Retract(LeaseOf(leaseTask.node), leaseTask.at)
      BY <1>1, <1>2, <1>4, <2>1, <2>3 DEF Retract
    <2> QED
      BY <1>6, <2>2, <2>3 DEF LeaseWrite
  <1>7. CASE DeleteNodeEdges
    <2>1. PICK E \in SUBSET Edge : RetractEach(E, nodeTask.at)
      BY <1>7, NodeEdgesRetracted DEF LeaseInv
    <2>2. nodeTask.at \in Nat \ {Zero}
      BY <1>7, NodeTaskIs DEF LeaseInv
    <2> QED
      BY <1>1, <1>2, <1>4, <2>1, <2>2 DEF RetractEach
  <1>8. CASE LeaseSweep
    BY <1>1, <1>2, <1>3, <1>8 DEF LeaseSweep, GC
  <1>9. CASE LeaseNext /\ ~ LeaseWrite /\ ~ DeleteNodeEdges /\ ~ LeaseSweep
    BY <1>2, <1>9 DEF LeaseNext, NodeChange, HandleNode, Renew, LeaseCollected, DeliverNode, DeliverLease,
                      LeaseRead, LeaseTick, Advance, edgeVars
  <1> QED
    BY <1>6, <1>7, <1>8, <1>9

-----------------------------------------------------------------------------
LEMMA InitLease == LeaseInit => LeaseInv
  <1> SUFFICES ASSUME LeaseInit PROVE LeaseInv
    OBVIOUS
  <1>1. EdgeInv /\ now # Zero
    BY InitSound DEF LeaseInit, Init, Zero
  <1>3. NodesInv
    BY InitNodes DEF LeaseInit
  <1>4. LeasesInv /\ LeaseTaskInv
    BY DEF LeaseInit, LeasesInv, LeaseTaskInv, Renewal, Zero
  <1>5. ConfirmedByRenewals
    BY LeasesAreEdges DEF LeaseInit, Init, ConfirmedByRenewals, NoAssertion, Zero
  <1> QED
    BY <1>1, <1>3, <1>4, <1>5 DEF LeaseInv

LEMMA LeasesKept == LeaseInv /\ [LeaseNext]_leaseWatchVars => LeasesInv' /\ newest' >= newest
  <1> SUFFICES ASSUME LeasesInv, LeaseTaskInv, now \in Nat, [LeaseNext]_leaseWatchVars
               PROVE  LeasesInv' /\ newest' >= newest
    BY DEF LeaseInv, EdgeInv, EdgeTypeOK
  <1>1. newest \in Nat /\ \A t : Renewal(t) => t \in Nat /\ t =< newest
    BY DEF LeasesInv, Renewal
  <1>2. CASE Renew
    <2>1. newest' \in Nat /\ newest' >= newest /\ renewed' = newest'
      BY <1>1, <1>2, LeaseAssumption DEF Renew, Instant, LeaseAssumption
    <2>2. \A t \in Nat : t =< newest => t =< newest'
      BY <1>1, <2>1
    <2> QED
      BY <1>2, <2>1, <2>2 DEF Renew, LeasesInv, Renewal
  <1>3. CASE LeaseCollected
    BY <1>1, <1>3 DEF LeaseCollected, LeasesInv, Renewal, Zero
  <1>4. CASE DeliverLease
    <2>1. UNCHANGED newest /\ UNCHANGED renewed
      BY <1>4 DEF DeliverLease, nodeVars
    <2>2. PICK x \in LeaseEvent :
             /\ leaseQ' = Append(leaseQ, x) /\ (x.op = "upsert" => x.at # Zero /\ Renewal(x.at))
             /\ leaseSeen' \in {renewed, leaseSeen, Zero}
      <3>1. \A t : Renewal(t) /\ t # Zero =>
              /\ [op |-> "upsert", at |-> t] \in LeaseEvent
              /\ [op |-> "upsert", at |-> t].at = t
        BY DEF Renewal, LeaseEvent
      <3>2. CASE renewed # Zero /\ leaseSeen' = renewed /\ leaseQ' = Append(leaseQ, [op |-> "upsert", at |-> renewed])
        BY <3>1, <3>2 DEF LeasesInv
      <3>3. CASE leaseSeen' = Zero /\ leaseQ' = Append(leaseQ, [op |-> "delete", at |-> Zero])
        BY <3>3 DEF LeaseEvent, Zero
      <3>4. CASE leaseSeen # Zero /\ UNCHANGED leaseSeen /\ leaseQ' = Append(leaseQ, [op |-> "upsert", at |-> leaseSeen])
        BY <3>1, <3>4 DEF LeasesInv
      <3> QED
        BY <1>4, <3>2, <3>3, <3>4 DEF DeliverLease
    <2>3. leaseQ \in Seq(LeaseEvent)
      BY DEF LeasesInv
    <2>4. /\ leaseQ' \in Seq(LeaseEvent)
          /\ \A j \in 1 .. Len(leaseQ') : (j \in 1 .. Len(leaseQ) /\ leaseQ'[j] = leaseQ[j]) \/ leaseQ'[j] = x
      BY <2>2, <2>3, AppendedEvents
    <2>5. \A j \in 1 .. Len(leaseQ') : leaseQ'[j].op = "upsert" => leaseQ'[j].at # Zero /\ Renewal(leaseQ'[j].at)
      BY <2>2, <2>4 DEF LeasesInv
    <2>6. Renewal(leaseSeen')
      BY <1>1, <2>2 DEF LeasesInv, Renewal, Zero
    <2> QED
      BY <1>1, <2>1, <2>4, <2>5, <2>6 DEF LeasesInv, Renewal
  <1>5. ASSUME leaseQ # << >>, leaseQ' = Tail(leaseQ), UNCHANGED <<renewed, newest, leaseSeen>>
        PROVE  LeasesInv' /\ newest' >= newest
    <2>1. leaseQ \in Seq(LeaseEvent)
      BY DEF LeasesInv
    <2>2. /\ leaseQ' \in Seq(LeaseEvent)
          /\ \A j \in 1 .. Len(leaseQ') : j + 1 \in 1 .. Len(leaseQ) /\ leaseQ'[j] = leaseQ[j + 1]
      BY <1>5, <2>1, TailEvents
    <2>3. \A j \in 1 .. Len(leaseQ') : leaseQ'[j].op = "upsert" => leaseQ'[j].at # Zero /\ Renewal(leaseQ'[j].at)
      BY <2>2 DEF LeasesInv
    <2> QED
      BY <1>1, <1>5, <2>2, <2>3 DEF LeasesInv, Renewal
  <1>6. ASSUME UNCHANGED <<renewed, newest, leaseSeen, leaseQ>>
        PROVE  LeasesInv' /\ newest' >= newest
    BY <1>1, <1>6 DEF LeasesInv, Renewal
  <1>7. CASE LeaseRead
    BY <1>5, <1>6, <1>7 DEF LeaseRead
  <1>8. CASE LeaseWrite
    BY <1>5, <1>8 DEF LeaseWrite, LeaseTaskInv
  <1>9. CASE ~ Renew /\ ~ LeaseCollected /\ ~ DeliverLease /\ ~ LeaseRead /\ ~ LeaseWrite
    <2>1. UNCHANGED <<renewed, newest, leaseSeen, leaseQ>>
      BY <1>9 DEF LeaseNext, leaseWatchVars, leaseVars, LeaseTick, LeaseSweep
    <2> QED
      BY <1>6, <2>1
  <1> QED
    BY <1>2, <1>3, <1>4, <1>7, <1>8, <1>9

LEMMA LeaseNodesKept == LeaseInv /\ [LeaseNext]_leaseWatchVars => NodesInv'
  <1> SUFFICES ASSUME LeaseInv, [LeaseNext]_leaseWatchVars PROVE NodesInv'
    OBVIOUS
  <1>1. NodeChange \/ DeliverNode \/ HandleNode \/ DeleteNodeEdges \/ UNCHANGED nodeVars
    BY DEF LeaseNext, leaseWatchVars, Renew, LeaseCollected, DeliverLease, LeaseRead, LeaseWrite, LeaseTick, LeaseSweep
  <1>2. NodesInv /\ now \in Nat \ {Zero}
    BY DEF LeaseInv, EdgeInv, EdgeTypeOK
  <1> QED
    BY <1>1, <1>2, NodesKept

LEMMA LeaseTaskKept == LeaseInv /\ [LeaseNext]_leaseWatchVars => LeaseTaskInv'
  <1> SUFFICES ASSUME LeaseInv, [LeaseNext]_leaseWatchVars PROVE LeaseTaskInv'
    OBVIOUS
  <1>1. LeaseTaskInv /\ NodesInv /\ LeasesInv /\ now \in Nat \ {Zero}
    BY DEF LeaseInv, EdgeInv, EdgeTypeOK
  <1>2. newest' >= newest /\ newest \in Nat /\ newest' \in Nat
    BY LeasesKept, <1>1 DEF LeasesInv
  <1>3. \A t : Renewal(t) => Renewal(t)'
    BY <1>2 DEF Renewal
  <1>4. ASSUME UNCHANGED leaseTask, leaseTask # NoLeaseTask => leaseQ' # << >>
        PROVE  LeaseTaskInv'
    BY <1>1, <1>3, <1>4 DEF LeaseTaskInv, NoLeaseTask
  <1>5. CASE LeaseRead
    <2>1. leaseQ \in Seq(LeaseEvent) /\ leaseQ # << >> /\ Head(leaseQ) = leaseQ[1] /\ 1 \in 1 .. Len(leaseQ)
          /\ leaseQ[1] \in LeaseEvent
      BY <1>1, <1>5, TailEvents DEF LeaseRead, LeasesInv
    <2>2. /\ Head(leaseQ).op \in {"upsert", "delete"} /\ Head(leaseQ).at \in Nat
          /\ Head(leaseQ).op = "upsert" => Head(leaseQ).at # Zero /\ Renewal(Head(leaseQ).at)
      BY <1>1, <2>1 DEF LeasesInv, LeaseEvent
    <2>3. CASE storeNode = NoNode
      BY <1>4, <1>5, <2>3 DEF LeaseRead
    <2>4. CASE storeNode # NoNode
      <3>1. /\ leaseTask'.node = storeNode /\ leaseTask'.op = Head(leaseQ).op /\ leaseQ' = leaseQ
            /\ leaseTask'.at = IF Head(leaseQ).op = "upsert" THEN Head(leaseQ).at ELSE now
        BY <1>5, <2>2, <2>4 DEF LeaseRead, LeaseRenewTime
      <3>2. storeNode \in NodeCEI
        BY <1>1, <2>4 DEF NodesInv
      <3> QED
        BY <1>1, <1>3, <2>1, <2>2, <3>1, <3>2 DEF LeaseTaskInv
    <2> QED
      BY <2>3, <2>4
  <1>6. CASE LeaseWrite
    BY <1>6 DEF LeaseWrite, LeaseTaskInv, NoLeaseTask
  <1>7. CASE DeliverLease
    <2>1. \E x : leaseQ' = Append(leaseQ, x)
      BY <1>7 DEF DeliverLease
    <2>2. leaseQ' # << >>
      BY <1>1, <2>1 DEF LeasesInv
    <2> QED
      BY <1>4, <1>7, <2>2 DEF DeliverLease
  <1>8. CASE ~ LeaseRead /\ ~ LeaseWrite /\ ~ DeliverLease
    <2>1. UNCHANGED <<leaseTask, leaseQ>>
      BY <1>8 DEF LeaseNext, leaseWatchVars, leaseVars, Renew, LeaseCollected, LeaseTick, LeaseSweep
    <2> QED
      BY <1>1, <1>4, <2>1 DEF LeaseTaskInv
  <1> QED
    BY <1>5, <1>6, <1>7, <1>8

-----------------------------------------------------------------------------
\* The store stays sound, and what it holds of a node was confirmed by the node, across
\* resyncs, replaced nodes and the gap between the handler's lookup and its write.
THEOREM LeaseInvInductive == LeaseSpec => []LeaseInv
  <1>1. LeaseInv /\ [LeaseNext]_leaseWatchVars => LeaseInv'
    <2> SUFFICES ASSUME LeaseInv, [LeaseNext]_leaseWatchVars PROVE LeaseInv'
      OBVIOUS
    <2>1. NodesInv' /\ LeasesInv' /\ LeaseTaskInv' /\ newest' >= newest
      BY LeaseNodesKept, LeasesKept, LeaseTaskKept
    <2>2. newest \in Nat /\ newest' \in Nat
      BY <2>1 DEF LeaseInv, LeasesInv
    <2>3. CASE LeaseNext
      <3>1. EdgeInv' /\ now' # Zero
        <4>1. StoreStep /\ EdgeInv /\ now \in Nat /\ now # Zero
          BY <2>3, LeaseNextIsStoreStep DEF LeaseInv, EdgeInv, EdgeTypeOK
        <4>2. now' \in {now, now + 1}
          BY <4>1 DEF StoreStep, Assert, Retract, ReconcileOut, RetractEach, GC, Advance, edgeVars
        <4> QED
          BY <4>1, <4>2, StoreStepKeeps DEF Zero
      <3>2. \A n \in NodeCEI : edges'[LeaseOf(n)].confirmed =< newest
        BY <2>3, OnlyRenewalsConfirm DEF ByRenewal
      <3>3. \A n \in NodeCEI : edges'[LeaseOf(n)].confirmed \in Nat
        BY <3>1, LeasesAreEdges DEF EdgeInv, EdgeTypeOK, EdgeAssertion
      <3>4. \A n \in NodeCEI : edges'[LeaseOf(n)].confirmed =< newest'
        BY <2>1, <2>2, <3>2, <3>3
      <3>5. ConfirmedByRenewals'
        BY <3>4 DEF ConfirmedByRenewals, LeaseOf
      <3> QED
        BY <2>1, <3>1, <3>5 DEF LeaseInv
    <2>4. CASE UNCHANGED leaseWatchVars
      <3>1. EdgeInv'
        BY <2>4, StoreStepKeeps DEF LeaseInv, StoreStep, leaseWatchVars
      <3> QED
        BY <2>1, <2>4, <3>1 DEF LeaseInv, ConfirmedByRenewals, LeaseOf, leaseWatchVars, edgeVars, nodeVars, leaseVars
    <2> QED
      BY <2>3, <2>4
  <1> QED
    BY <1>1, InitLease, PTL DEF LeaseSpec

\* The store under the lease and the node handlers is as sound as it is alone.
THEOREM LeaseStoreSound == LeaseSpec => []EdgeInv
  <1>1. LeaseInv => EdgeInv
    BY DEF LeaseInv
  <1> QED
    BY <1>1, LeaseInvInductive, PTL

\* A node that stopped renewing is suspect as soon as its budget since the last renewal
\* is spent: no resync of an old lease, no late write and no second registration of the
\* name makes it look alive for longer.
THEOREM SilentNodesAreSuspect == LeaseSpec => []SilentNodeIsSuspect
  <1>1. LeaseInv => SilentNodeIsSuspect
    <2> SUFFICES ASSUME LeaseInv, NEW n \in NodeCEI, Status(LeaseOf(n), now) = "valid"
                 PROVE  now - newest =< Budget["node-lease"]
      BY DEF SilentNodeIsSuspect
    <2> DEFINE a == edges[LeaseOf(n)]
    <2>1. a \in EdgeAssertion /\ a.confirmed =< newest /\ now \in Nat /\ newest \in Nat
      BY LeasesAreEdges DEF LeaseInv, EdgeInv, EdgeTypeOK, ConfirmedByRenewals, LeasesInv
    <2>2. LeaseOf(n).type = "node-lease"
      BY DEF LeaseOf
    <2>3. "node-lease" \in EdgeType /\ Budget["node-lease"] \in Nat
      BY <2>2, LeasesAreEdges, EdgeAssumption DEF EdgeAssumption
    <2>4. ~(now - a.confirmed > Budget["node-lease"])
      BY <2>2 DEF Status
    <2>5. a.confirmed \in Nat
      BY <2>1 DEF EdgeAssertion
    <2> HIDE DEF a
    <2> QED
      BY <2>1, <2>3, <2>4, <2>5
  <1> QED
    BY <1>1, LeaseInvInductive, PTL

\* assertLocked's comment, for every interleaving: a retracted lease edge is live again
\* only after the node really renewed past its retraction.
THEOREM StaleLeasesReviveNothing == LeaseSpec => RevivedOnlyByRenewal
  <1> DEFINE Step == \A n \in NodeCEI : Retracted(edges[LeaseOf(n)]) /\ Live(edges'[LeaseOf(n)])
                        => newest > edges[LeaseOf(n)].retracted
  <1>1. LeaseInv /\ [LeaseNext]_leaseWatchVars => [Step]_leaseWatchVars
    BY OnlyRenewalsConfirm DEF ByRenewal
  <1> QED
    BY <1>1, LeaseInvInductive, PTL DEF LeaseSpec, RevivedOnlyByRenewal

\* Neither a late lease nor a late deletion rewrites what was recorded of a node.
THEOREM LeaseHistoryKept == LeaseSpec => HistoryKept
  <1>1. LeaseInv /\ [LeaseNext]_leaseWatchVars => EdgeInv /\ StoreStep
    BY LeaseNextIsStoreStep DEF LeaseInv, StoreStep, leaseWatchVars
  <1> DEFINE Final == \A e \in Edge : Retracted(edges[e]) =>
                         \/ edges'[e] = edges[e]
                         \/ Live(edges'[e]) /\ edges'[e].asserted > edges[e].retracted
                         \/ ~ Known(edges'[e]) /\ now - edges[e].retracted >= Horizon
             Monotone == \A e \in Edge : Live(edges[e]) =>
                            /\ Known(edges'[e]) /\ edges'[e].asserted = edges[e].asserted
                            /\ edges'[e].confirmed >= edges[e].confirmed
  <1>2. LeaseInv /\ [LeaseNext]_leaseWatchVars => [Final]_edgeVars /\ [Monotone]_edgeVars
    BY <1>1, StoreStepRemembers
  <1> QED
    BY <1>2, LeaseInvInductive, PTL DEF LeaseSpec, HistoryKept, RetractionIsFinal, ConfirmationMonotone

-----------------------------------------------------------------------------
(* Placement.                                                              *)

PodEvent == [op : {"upsert", "delete"}, obj : PodIndex, bound : BOOLEAN]

PodTasks == [pod : PodIndex, at : Nat \ {Zero}, runs : {"skip", "reconcile", "retract"},
             node : NodeCEI \cup {NoNode}, claims : SUBSET Claim]

\* The incarnations in the cache and in the queue are those the cluster made.
PodsInv ==
    /\ podsMade \in 0 .. Len(PodSeq) /\ podSeen \in 0 .. podsMade /\ boundSeen \in BOOLEAN
    /\ podQ \in Seq(PodEvent)
    /\ \A j \in 1 .. Len(podQ) : podQ[j].obj =< podsMade

\* The pod handler at work holds the head of its queue.
PodTaskInv ==
    podTask # NoPodTask =>
        /\ podTask \in PodTasks
        /\ podQ # << >> /\ Head(podQ).obj = podTask.pod
        /\ Head(podQ).op = IF podTask.runs = "retract" THEN "delete" ELSE "upsert"

NoLiveEdge(i) == \A e \in Edge : e.from = PodSeq[i] => ~ Live(edges[e])

OneRunsOn ==
    \A e, f \in Edge : /\ e.type = "runs-on" /\ f.type = "runs-on" /\ e.from = f.from
                       /\ Live(edges[e]) /\ Live(edges[f])
                       => e.to = f.to

\* What is in the queue about an incarnation ends with its deletion, at place k, or, with
\* k = 0, it is handled already and has left no edge.
Ends(i, k) ==
    /\ k = 0 => NoLiveEdge(i)
    /\ k > 0 => podQ[k].op = "delete" /\ podQ[k].obj = i
    /\ \A j \in 1 .. Len(podQ) : j > k /\ podQ[j].op = "upsert" => podQ[j].obj # i

UnmadeHaveNoEdge == \A i \in PodIndex : i > podsMade => NoLiveEdge(i)

UnseenHasEnded ==
    podsMade > 0 /\ podSeen # podsMade => \E k \in 0 .. Len(podQ) : Ends(podsMade, k)

PlacementInv ==
    /\ EdgeInv /\ now # Zero
    /\ NodesInv /\ PodsInv /\ PodTaskInv
    /\ OneRunsOn /\ UnmadeHaveNoEdge /\ UnseenHasEnded

LEMMA PodsAreEnds ==
    /\ Len(PodSeq) \in Nat /\ \A i \in PodIndex : PodSeq[i] \in CEI
    /\ \A i, j \in PodIndex : PodSeq[i] = PodSeq[j] => i = j
    /\ \A i \in PodIndex : /\ \A n \in NodeCEI : RunsOn(i, n) \in Edge
                           /\ \A c \in Claim : Mounts(i, c) \in Edge
  BY PlacementAssumption DEF PlacementAssumption, PodIndex

LEMMA CurrentPodIs == PodsInv => CurrentPod \in {0, podsMade} /\ Bound(CurrentPod) \in BOOLEAN
  BY DEF CurrentPod, Bound

\* A retracted edge is not live, whatever it was.
LEMMA RetractedDies ==
    ASSUME NEW a \in EdgeAssertion, NEW at \in Nat \ {Zero}
    PROVE  ~ Live(RetractedAs(a, at))
  BY SMT DEF RetractedAs, Known, Live, EdgeAssertion, Zero

-----------------------------------------------------------------------------
\* What a step does to the edges: no more than dim them, unless the pod handler writes.
Dims == \A e \in Edge : Live(edges'[e]) => Live(edges[e])

PodWrites ==
    /\ podTask # NoPodTask /\ podTask.runs # "retract"
    /\ \/ UpsertPodRunsOn
       \/ \E c \in Claim : Assert(Mounts(podTask.pod, c), podTask.at)
    /\ UNCHANGED <<podsMade, podSeen, podQ>>

LEMMA RetractEachDims ==
    ASSUME EdgeInv, NEW at \in Nat \ {Zero}, NEW E \in SUBSET Edge, RetractEach(E, at)
    PROVE  Dims
  <1>1. \A e \in Edge : edges[e] \in EdgeAssertion
    BY DEF EdgeInv, EdgeTypeOK
  <1>2. ASSUME NEW e \in Edge PROVE Live(edges'[e]) => Live(edges[e])
    <2>1. edges'[e] = IF e \in E THEN RetractedAs(edges[e], at) ELSE edges[e]
      BY DEF RetractEach
    <2> QED
      BY <1>1, <2>1, RetractedDies
  <1> QED
    BY <1>2 DEF Dims

\* The deletion of a pod takes down every edge of the pod whose end is handled.
LEMMA PodEnds ==
    ASSUME PlacementInv, DeletePod
    PROVE  /\ podTask \in PodTasks /\ podQ # << >> /\ Head(podQ).op = "delete"
           /\ Head(podQ).obj = podTask.pod /\ PodSeq[podTask.pod] \in CEI /\ podTask.at \in Nat \ {Zero}
           /\ byFrom[PodSeq[podTask.pod]] \in SUBSET Edge
           /\ RetractEach(byFrom[PodSeq[podTask.pod]], podTask.at)
  <1>1. podTask # NoPodTask /\ podTask.runs = "retract"
    BY DEF DeletePod, NoPodTask
  <1>2. /\ podTask \in PodTasks /\ podQ # << >> /\ Head(podQ).obj = podTask.pod
        /\ Head(podQ).op = "delete"
    BY <1>1 DEF PlacementInv, PodTaskInv
  <1>3. PodSeq[podTask.pod] \in CEI /\ podTask.at \in Nat \ {Zero}
    BY <1>2, PodsAreEnds DEF PodTasks
  <1>4. byFrom[PodSeq[podTask.pod]] \in SUBSET Edge
    BY <1>3 DEF PlacementInv, EdgeInv, EdgeTypeOK
  <1> QED
    BY <1>2, <1>3, <1>4 DEF DeletePod, EndOfPod, RetractAllFrom

LEMMA PlacementEffects ==
    ASSUME PlacementInv, [PlacementNext]_placementVars
    PROVE  Dims \/ PodWrites
  <1>1. EdgeInv /\ now # Zero /\ NodesInv /\ PodsInv /\ PodTaskInv
    BY DEF PlacementInv
  <1>2. UNCHANGED edges => Dims
    BY DEF Dims
  <1>3. CASE UpsertPodRunsOn
    BY <1>3 DEF UpsertPodRunsOn, PodWrites, NoPodTask, podClusterVars, podCacheVars
  <1>4. CASE UpsertPodMounts
    <2>1. podTask # NoPodTask /\ podTask.claims \subseteq Claim
      BY <1>1, <1>4 DEF UpsertPodMounts, PodTaskInv, PodTasks
    <2>2. CASE UNCHANGED edgeVars
      BY <1>2, <2>2 DEF edgeVars
    <2>3. CASE ~ UNCHANGED edgeVars
      <3>1. PICK c \in podTask.claims :
               /\ IF c \in claimsSeen THEN Assert(Mounts(podTask.pod, c), podTask.at) ELSE UNCHANGED edgeVars
               /\ UNCHANGED podQ
        BY <1>4, <2>3 DEF UpsertPodMounts
      <3>2. Assert(Mounts(podTask.pod, c), podTask.at)
        BY <2>3, <3>1
      <3>3. UNCHANGED <<podsMade, podSeen>>
        BY <1>4 DEF UpsertPodMounts, podClusterVars, podCacheVars
      <3>4. podTask.runs # "retract"
        BY <1>4 DEF UpsertPodMounts
      <3> QED
        BY <2>1, <3>1, <3>2, <3>3, <3>4 DEF PodWrites
    <2> QED
      BY <2>2, <2>3
  <1>5. CASE DeletePod
    BY <1>1, <1>5, PodEnds, RetractEachDims
  <1>6. CASE NodeHandled
    <2>1. CASE HandleNode
      BY <1>2, <2>1 DEF HandleNode, edgeVars
    <2>2. CASE DeleteNodeEdges
      BY <1>1, <2>2, NodeTaskIs, NodeEdgesRetracted, RetractEachDims
    <2> QED
      BY <1>6, <2>1, <2>2 DEF NodeHandled
  <1>7. CASE PlacementSweep
    BY <1>7 DEF PlacementSweep, GC, Dims, NoAssertion, Live, Known, Zero
  <1>8. CASE PlacementTick
    BY <1>2, <1>8 DEF PlacementTick, Advance
  <1>9. CASE ~ UpsertPodRunsOn /\ ~ UpsertPodMounts /\ ~ DeletePod /\ ~ NodeHandled /\ ~ PlacementSweep /\ ~ PlacementTick
    <2>1. UNCHANGED edges
      BY <1>9 DEF PlacementNext, placementVars, PodChange, NodeChanges, NodeChange, DeliverPod, NotifyPod, ResyncPod,
                  NodeDelivered, DeliverNode, DeliverClaim, UpsertPodRead, DeletePodRead, edgeVars
    <2> QED
      BY <1>2, <2>1
  <1> QED
    BY <1>3, <1>4, <1>5, <1>6, <1>7, <1>8, <1>9

\* The pod handler revives edges of its own pod only, and reconciles a pod to one home.
LEMMA PodWritesItsOwn ==
    ASSUME PlacementInv, PodWrites
    PROVE  /\ \A e \in Edge : Live(edges'[e]) => Live(edges[e]) \/ e.from = PodSeq[podTask.pod]
           /\ OneRunsOn'
           /\ StoreStep
  <1>1. /\ EdgeInv /\ OneRunsOn /\ podTask \in PodTasks
        /\ edges \in [Edge -> EdgeAssertion] /\ \A e \in Edge : edges[e] \in EdgeAssertion
    BY DEF PlacementInv, PodTaskInv, PodWrites, EdgeInv, EdgeTypeOK
  <1> DEFINE c == PodSeq[podTask.pod]
             at == podTask.at
             want == {podTask.node} \ {NoNode}
  <1>2. c \in CEI /\ at \in Nat \ {Zero} /\ podTask.pod \in PodIndex /\ want \in SUBSET CEI
    BY <1>1, PodsAreEnds, NodesAreNodes DEF PodTasks
  <1>3. CASE UpsertPodRunsOn
    <2> DEFINE mine == {e \in Edge : e.type = "runs-on" /\ e.from = c}
               wanted == {e \in mine : e.to \in want}
    <2>1. ReconcileOut("runs-on", c, want, at)
      BY <1>3 DEF UpsertPodRunsOn, ReconcileRunsOn
    <2>2. \A e \in Edge : edges'[e] = IF e \in wanted THEN Asserted(edges[e], at)
                                      ELSE IF e \in mine \cap byFrom[c] THEN RetractedAs(edges[e], at)
                                      ELSE edges[e]
      BY <2>1 DEF ReconcileOut
    <2>3. byFrom[c] = {e \in Edge : Known(edges[e]) /\ e.from = c}
      BY <1>1, <1>2 DEF EdgeInv, IndexesAgree
    <2>4. \A e \in Edge : ~ Live(RetractedAs(edges[e], at))
      BY <1>1, <1>2, RetractedDies
    <2> HIDE DEF want, at, c
    <2>5. \A e \in mine : Live(edges'[e]) => e.to \in want
      BY <2>2, <2>3, <2>4 DEF Live
    <2>6. \A e \in Edge : e \in mine \/ edges'[e] = edges[e]
      BY <2>2
    <2>7. \A x, y \in want : x = y
      BY DEF want
    <2>8. OneRunsOn'
      <3> SUFFICES ASSUME NEW e \in Edge, NEW f \in Edge, e.type = "runs-on", f.type = "runs-on", e.from = f.from,
                          Live(edges'[e]), Live(edges'[f])
                   PROVE  e.to = f.to
        BY DEF OneRunsOn
      <3>1. CASE e.from = c
        BY <2>5, <2>7, <3>1
      <3>2. CASE e.from # c
        BY <1>1, <2>6, <3>2 DEF OneRunsOn
      <3> QED
        BY <3>1, <3>2
    <2>9. "runs-on" \in EdgeType \/ mine = {}
      BY EdgeAssumption DEF EdgeAssumption
    <2>10. StoreStep
      <3>1. CASE "runs-on" \in EdgeType
        BY <1>2, <2>1, <3>1 DEF StoreStep
      <3>2. CASE mine = {}
        <4>1. \A e \in Edge : edges'[e] = edges[e]
          BY <2>6, <3>2
        <4>2. UNCHANGED edges
          BY <1>1, <2>1, <4>1 DEF ReconcileOut
        <4>3. byFrom' = byFrom /\ byTo' = byTo /\ now' = now
          BY <1>1, <1>2, <2>1, <3>2 DEF ReconcileOut, EdgeInv, EdgeTypeOK
        <4> QED
          BY <4>2, <4>3 DEF StoreStep, edgeVars
      <3> QED
        BY <2>9, <3>1, <3>2
    <2>11. \A e \in Edge : Live(edges'[e]) => Live(edges[e]) \/ e.from = c
      BY <2>6
    <2> QED
      BY <2>8, <2>10, <2>11 DEF c
  <1>4. CASE \E p \in Claim : Assert(Mounts(podTask.pod, p), podTask.at)
    <2>1. PICK p \in Claim : Assert(Mounts(podTask.pod, p), at)
      BY <1>4
    <2> DEFINE d == Mounts(podTask.pod, p)
    <2>2. d \in Edge /\ d.type = "mounts" /\ d.from = c
      BY <1>2, PodsAreEnds DEF Mounts
    <2>3. \A e \in Edge : e = d \/ edges'[e] = edges[e]
      BY <1>1, <2>1 DEF Assert
    <2> HIDE DEF d
    <2>4. \A e \in Edge : e.type = "runs-on" => edges'[e] = edges[e]
      BY <2>2, <2>3
    <2>5. OneRunsOn'
      BY <1>1, <2>4 DEF OneRunsOn
    <2>6. StoreStep
      BY <1>2, <2>1, <2>2 DEF StoreStep, d
    <2>7. \A e \in Edge : Live(edges'[e]) => Live(edges[e]) \/ e.from = c
      BY <2>2, <2>3
    <2> QED
      BY <2>5, <2>6, <2>7
  <1> QED
    BY <1>3, <1>4 DEF PodWrites

LEMMA PlacementIsStoreStep ==
    ASSUME PlacementInv, [PlacementNext]_placementVars
    PROVE  StoreStep
  <1>1. EdgeInv /\ now # Zero /\ now \in Nat \ {Zero} /\ NodesInv /\ PodsInv /\ PodTaskInv
    BY DEF PlacementInv, EdgeInv, EdgeTypeOK
  <1>2. UNCHANGED edgeVars => StoreStep
    BY DEF StoreStep
  <1>3. PodWrites => StoreStep
    BY PodWritesItsOwn
  <1>4. CASE UpsertPodRunsOn
    BY <1>3, <1>4 DEF UpsertPodRunsOn, PodWrites, NoPodTask, podClusterVars, podCacheVars
  <1>5. CASE UpsertPodMounts
    <2>1. podTask # NoPodTask /\ podTask.claims \subseteq Claim
      BY <1>1, <1>5 DEF UpsertPodMounts, PodTaskInv, PodTasks
    <2>2. CASE UNCHANGED edgeVars
      BY <1>2, <2>2
    <2>3. CASE ~ UNCHANGED edgeVars
      <3>1. PICK c \in podTask.claims :
               /\ IF c \in claimsSeen THEN Assert(Mounts(podTask.pod, c), podTask.at) ELSE UNCHANGED edgeVars
               /\ UNCHANGED podQ
        BY <1>5, <2>3 DEF UpsertPodMounts
      <3>2. UNCHANGED <<podsMade, podSeen>>
        BY <1>5 DEF UpsertPodMounts, podClusterVars, podCacheVars
      <3>3. podTask.runs # "retract"
        BY <1>5 DEF UpsertPodMounts
      <3> QED
        BY <1>3, <2>1, <2>3, <3>1, <3>2, <3>3 DEF PodWrites
    <2> QED
      BY <2>2, <2>3
  <1>6. CASE DeletePod
    BY <1>1, <1>6, PodEnds DEF StoreStep
  <1>7. CASE NodeHandled
    <2>1. CASE HandleNode
      BY <1>2, <2>1 DEF HandleNode
    <2>2. CASE DeleteNodeEdges
      BY <1>1, <2>2, NodeEdgesIsStoreStep
    <2> QED
      BY <1>7, <2>1, <2>2 DEF NodeHandled
  <1>8. CASE PlacementSweep \/ PlacementTick
    BY <1>8 DEF PlacementSweep, PlacementTick, StoreStep
  <1>9. CASE ~ UpsertPodRunsOn /\ ~ UpsertPodMounts /\ ~ DeletePod /\ ~ NodeHandled /\ ~ PlacementSweep /\ ~ PlacementTick
    <2>1. UNCHANGED edgeVars
      BY <1>9 DEF PlacementNext, placementVars, PodChange, NodeChanges, NodeChange, DeliverPod, NotifyPod, ResyncPod,
                  NodeDelivered, DeliverNode, DeliverClaim, UpsertPodRead, DeletePodRead
    <2> QED
      BY <1>2, <2>1
  <1> QED
    BY <1>4, <1>5, <1>6, <1>7, <1>8, <1>9

-----------------------------------------------------------------------------
\* What a step does to the queue of the pod handler.
LeavesNoEdge(i) == \A e \in Edge : e.from = PodSeq[i] => ~ Live(edges'[e])

PodNotified(x) ==
    /\ podQ' = Append(podQ, x) /\ UNCHANGED <<edges, podsMade, podTask>>
    /\ x \in PodEvent /\ x.obj =< podsMade
    /\ podSeen' \in 0 .. podsMade /\ boundSeen' \in BOOLEAN
    /\ x.op = "upsert" => podSeen' = x.obj /\ podSeen' \in {podSeen, podsMade}
    /\ x.op = "delete" => podSeen' = 0 /\ podSeen = x.obj

PodHandled ==
    /\ podQ # << >> /\ podQ' = Tail(podQ) /\ podTask' = NoPodTask
    /\ UNCHANGED <<podsMade, podSeen, boundSeen>>
    /\ \/ Head(podQ).op = "delete" /\ LeavesNoEdge(Head(podQ).obj) /\ Dims
       \/ Head(podQ).op = "upsert" /\ UNCHANGED edges

LEMMA NotifiedIs ==
    ASSUME PodsInv, DeliverPod \/ ResyncPod
    PROVE  \E x : PodNotified(x)
  <1>1. CurrentPod \in {0, podsMade} /\ Bound(CurrentPod) \in BOOLEAN /\ Len(PodSeq) \in Nat
    BY CurrentPodIs, PodsAreEnds
  <1>2. ASSUME NEW op \in {"upsert", "delete"}, NEW i \in 1 .. podsMade, NEW b \in BOOLEAN
        PROVE  /\ Event(op, i, b) \in PodEvent /\ Event(op, i, b).obj = i /\ Event(op, i, b).op = op
    BY <1>1, <1>2 DEF Event, PodEvent, PodsInv, PodIndex
  <1>3. CASE podSeen \notin {0, CurrentPod} /\ NotifyPod(0, FALSE, Event("delete", podSeen, boundSeen))
    <2>1. podSeen \in 1 .. podsMade /\ boundSeen \in BOOLEAN
      BY <1>3 DEF PodsInv
    <2> DEFINE x == Event("delete", podSeen, boundSeen)
    <2>2. x \in PodEvent /\ x.obj = podSeen /\ x.op = "delete"
      BY <1>2, <2>1
    <2>3. NotifyPod(0, FALSE, x)
      BY <1>3
    <2> HIDE DEF x
    <2>4. boundSeen' \in BOOLEAN
      BY <2>3, Zenon DEF NotifyPod
    <2>5. PodNotified(x)
      BY <1>1, <2>1, <2>2, <2>3, <2>4 DEF PodNotified, NotifyPod, edgeVars, podClusterVars, PodsInv
    <2> QED
      BY <2>5
  <1>4. CASE CurrentPod # 0 /\ NotifyPod(CurrentPod, Bound(CurrentPod), Event("upsert", CurrentPod, Bound(CurrentPod)))
    <2>1. CurrentPod \in 1 .. podsMade
      BY <1>1, <1>4 DEF PodsInv
    <2> DEFINE cur == CurrentPod
               b == Bound(CurrentPod)
    <2>2. cur = podsMade /\ cur \in 1 .. podsMade /\ b \in BOOLEAN /\ NotifyPod(cur, b, Event("upsert", cur, b))
      BY <1>1, <1>4, <2>1
    <2> HIDE DEF cur, b
    <2>3. PodNotified(Event("upsert", cur, b))
      BY <1>2, <2>2 DEF PodNotified, NotifyPod, edgeVars, podClusterVars, PodsInv
    <2> QED
      BY <2>3
  <1>5. CASE ResyncPod
    <2>1. podSeen \in 1 .. podsMade /\ boundSeen \in BOOLEAN
      BY <1>5 DEF PodsInv, ResyncPod
    <2>2. PodNotified(Event("upsert", podSeen, boundSeen))
      BY <1>2, <1>5, <2>1 DEF PodNotified, NotifyPod, ResyncPod, edgeVars, podClusterVars, PodsInv
    <2> QED
      BY <2>2
  <1> QED
    BY <1>3, <1>4, <1>5 DEF DeliverPod

LEMMA HandledIs ==
    ASSUME PlacementInv, DeletePod \/ (UpsertPodMounts /\ ~ UNCHANGED podQ)
    PROVE  PodHandled
  <1>1. EdgeInv /\ now # Zero /\ now \in Nat \ {Zero} /\ PodsInv /\ PodTaskInv
    BY DEF PlacementInv, EdgeInv, EdgeTypeOK
  <1>2. CASE UpsertPodMounts /\ ~ UNCHANGED podQ
    BY <1>1, <1>2 DEF UpsertPodMounts, PodDone, PodHandled, PodTaskInv, podClusterVars, podCacheVars, edgeVars
  <1>3. CASE DeletePod
    <2> DEFINE i == podTask.pod
               at == podTask.at
    <2>1. podQ # << >> /\ Head(podQ).op = "delete" /\ Head(podQ).obj = i /\ PodSeq[i] \in CEI
      BY <1>3, PodEnds
    <2>2. at \in Nat \ {Zero}
      BY <1>3, PodEnds
    <2>3. byFrom[PodSeq[i]] \in SUBSET Edge /\ RetractEach(byFrom[PodSeq[i]], at)
      BY <1>3, PodEnds
    <2> HIDE DEF i, at
    <2>4. byFrom[PodSeq[i]] = {e \in Edge : Known(edges[e]) /\ e.from = PodSeq[i]}
      BY <1>1, <2>1 DEF EdgeInv, IndexesAgree
    <2>7. Dims
      BY <1>1, <2>2, <2>3, RetractEachDims
    <2>8. LeavesNoEdge(i)
      <3> SUFFICES ASSUME NEW e \in Edge, e.from = PodSeq[i] PROVE ~ Live(edges'[e])
        BY DEF LeavesNoEdge
      <3>1. edges'[e] = IF e \in byFrom[PodSeq[i]] THEN RetractedAs(edges[e], at) ELSE edges[e]
        BY <2>3 DEF RetractEach
      <3>2. edges[e] \in EdgeAssertion
        BY <1>1 DEF EdgeInv, EdgeTypeOK
      <3>3. e \in byFrom[PodSeq[i]] \/ ~ Known(edges[e])
        BY <2>4
      <3> QED
        BY <2>2, <3>1, <3>2, <3>3, RetractedDies DEF Live
    <2>9. podQ' = Tail(podQ) /\ podTask' = NoPodTask /\ UNCHANGED <<podsMade, podSeen, boundSeen>>
      BY <1>3 DEF DeletePod, PodDone, podClusterVars, podCacheVars
    <2> QED
      BY <2>1, <2>7, <2>8, <2>9 DEF PodHandled
  <1> QED
    BY <1>2, <1>3

-----------------------------------------------------------------------------
\* The cluster makes a pod; or a step leaves queue and cache alone.
PodMade ==
    /\ podsMade' = podsMade + 1 /\ podsMade < Len(PodSeq)
    /\ UNCHANGED <<edges, podSeen, boundSeen, podQ, podTask>>

PodsAlone == UNCHANGED <<podsMade, podSeen, boundSeen, podQ>>

LEMMA PodMoves ==
    ASSUME PlacementInv, [PlacementNext]_placementVars
    PROVE  \/ \E x : PodNotified(x)
           \/ PodHandled
           \/ PodMade
           \/ PodsAlone
  <1>1. PodsInv
    BY DEF PlacementInv
  <1>2. CASE DeliverPod \/ ResyncPod
    BY <1>1, <1>2, NotifiedIs
  <1>3. CASE DeletePod \/ (UpsertPodMounts /\ ~ UNCHANGED podQ)
    BY <1>3, HandledIs
  <1>4. CASE UpsertPodMounts /\ UNCHANGED podQ
    BY <1>4 DEF UpsertPodMounts, PodsAlone, podClusterVars, podCacheVars
  <1>5. CASE PodChange
    BY <1>5 DEF PodChange, PodMade, PodsAlone, podCacheVars, edgeVars
  <1>6. CASE ~ DeliverPod /\ ~ ResyncPod /\ ~ DeletePod /\ ~ UpsertPodMounts /\ ~ PodChange
    BY <1>6 DEF PlacementNext, placementVars, podVars, podClusterVars, podCacheVars, NodeChanges, NodeDelivered,
                NodeHandled, DeliverClaim, UpsertPodRead, DeletePodRead, UpsertPodRunsOn, PlacementTick, PlacementSweep,
                PodsAlone
  <1> QED
    BY <1>2, <1>3, <1>4, <1>5, <1>6

LEMMA InitPlacement == PlacementInit => PlacementInv
  <1> SUFFICES ASSUME PlacementInit PROVE PlacementInv
    OBVIOUS
  <1>1. EdgeInv
    BY InitSound DEF PlacementInit
  <1>2. NodesInv
    BY InitNodes DEF PlacementInit
  <1>3. PodsInv
    <2>1. podQ \in Seq(PodEvent) /\ Len(podQ) = 0
      BY EmptySeq DEF PlacementInit
    <2>2. \A j \in 1 .. Len(podQ) : podQ[j].obj =< podsMade
      BY <2>1
    <2>3. boundSeen \in BOOLEAN
      BY Zenon DEF PlacementInit
    <2> QED
      BY <2>1, <2>2, <2>3, PodsAreEnds DEF PlacementInit, PodsInv
  <1>4. \A e \in Edge : ~ Live(edges[e])
    BY DEF PlacementInit, Init, NoAssertion, Live, Known, Zero
  <1>5. OneRunsOn /\ UnmadeHaveNoEdge
    BY <1>4 DEF OneRunsOn, UnmadeHaveNoEdge, NoLiveEdge
  <1>6. now # Zero
    BY DEF PlacementInit, Init, Zero
  <1>7. UnseenHasEnded
    BY DEF PlacementInit, UnseenHasEnded
  <1> QED
    BY <1>1, <1>2, <1>3, <1>5, <1>6, <1>7 DEF PlacementInit, PlacementInv, PodTaskInv

LEMMA PodsInvKept ==
    ASSUME PlacementInv, [PlacementNext]_placementVars
    PROVE  PodsInv'
  <1>1. PodsInv /\ Len(PodSeq) \in Nat
    BY PodsAreEnds DEF PlacementInv
  <1>2. ASSUME NEW x, PodNotified(x) PROVE PodsInv'
    <2>1. podQ \in Seq(PodEvent) /\ x \in PodEvent /\ podQ' = Append(podQ, x) /\ x.obj =< podsMade
      BY <1>1, <1>2 DEF PodNotified, PodsInv
    <2>2. /\ podQ' \in Seq(PodEvent) /\ Len(podQ') = Len(podQ) + 1 /\ Len(podQ) \in Nat
          /\ \A j \in 1 .. Len(podQ) : podQ'[j] = podQ[j]
          /\ podQ'[Len(podQ) + 1] = x
      BY <2>1, AppendedEvents
    <2>3. \A j \in 1 .. Len(podQ') : podQ'[j].obj =< podsMade
      BY <1>1, <2>1, <2>2 DEF PodsInv
    <2> QED
      BY <1>1, <1>2, <2>2, <2>3 DEF PodNotified, PodsInv
  <1>3. CASE PodHandled
    <2>1. podQ \in Seq(PodEvent) /\ podQ # << >> /\ podQ' = Tail(podQ)
      BY <1>1, <1>3 DEF PodHandled, PodsInv
    <2>2. /\ podQ' \in Seq(PodEvent)
          /\ \A j \in 1 .. Len(podQ') : j + 1 \in 1 .. Len(podQ) /\ podQ'[j] = podQ[j + 1]
      BY <2>1, TailEvents
    <2> QED
      BY <1>1, <1>3, <2>2 DEF PodHandled, PodsInv
  <1>4. CASE PodMade
    <2>1. \A j \in 1 .. Len(podQ) : podQ[j] \in PodEvent
      BY <1>1 DEF PodsInv
    <2>2. \A j \in 1 .. Len(podQ) : podQ[j].obj =< podsMade + 1
      BY <1>1, <2>1 DEF PodsInv, PodEvent, PodIndex
    <2> QED
      BY <1>1, <1>4, <2>2 DEF PodMade, PodsInv
  <1>5. CASE PodsAlone
    BY <1>1, <1>5 DEF PodsAlone, PodsInv
  <1> QED
    BY <1>2, <1>3, <1>4, <1>5, PodMoves

LEMMA PodTaskKept ==
    ASSUME PlacementInv, [PlacementNext]_placementVars
    PROVE  PodTaskInv'
  <1>1. PodsInv /\ PodTaskInv /\ NodesInv /\ now \in Nat \ {Zero} /\ podQ \in Seq(PodEvent)
    BY DEF PlacementInv, PodsInv, EdgeInv, EdgeTypeOK
  <1>2. CASE UpsertPodRead
    <2>1. podQ # << >> /\ Head(podQ).op = "upsert" /\ podQ' = podQ
      BY <1>2 DEF UpsertPodRead
    <2>2. Head(podQ) \in PodEvent
      BY <1>1, <2>1, TailEvents
    <2>3. podTask' = [pod |-> Head(podQ).obj, at |-> now, claims |-> Claim,
                      node |-> IF Head(podQ).bound THEN storeNode ELSE NoNode,
                      runs |-> IF Head(podQ).bound /\ storeNode = NoNode THEN "skip" ELSE "reconcile"]
      BY <1>2 DEF UpsertPodRead
    <2>4. podTask' \in PodTasks /\ podTask'.pod = Head(podQ).obj /\ podTask'.runs # "retract"
      BY <1>1, <2>2, <2>3 DEF PodTasks, PodEvent, NodesInv
    <2> QED
      BY <2>1, <2>4 DEF PodTaskInv
  <1>3. CASE UpsertPodRunsOn
    <2>1. podTask # NoPodTask
      BY <1>3 DEF UpsertPodRunsOn, NoPodTask
    <2>2. podTask' \in PodTasks /\ podTask'.pod = podTask.pod /\ podTask.runs # "retract" /\ podTask'.runs # "retract"
      BY <1>1, <1>3, <2>1 DEF UpsertPodRunsOn, PodTaskInv, PodTasks
    <2> QED
      BY <1>1, <1>3, <2>1, <2>2 DEF UpsertPodRunsOn, PodTaskInv
  <1>4. CASE UpsertPodMounts
    <2>1. podTask # NoPodTask
      BY <1>4 DEF UpsertPodMounts
    <2>2. CASE podTask' = NoPodTask
      BY <2>2 DEF PodTaskInv
    <2>3. CASE podTask' # NoPodTask
      <3>1. PICK c \in podTask.claims : podTask' = [podTask EXCEPT !.claims = @ \ {c}] /\ UNCHANGED podQ
        BY <1>4, <2>3 DEF UpsertPodMounts
      <3>2. podTask' \in PodTasks /\ podTask'.pod = podTask.pod /\ podTask'.runs = podTask.runs
        BY <1>1, <2>1, <3>1 DEF PodTaskInv, PodTasks
      <3> QED
        BY <1>1, <2>1, <3>1, <3>2 DEF PodTaskInv
    <2> QED
      BY <2>2, <2>3
  <1>5. CASE DeletePod
    BY <1>5 DEF DeletePod, PodTaskInv
  <1>6. CASE DeliverPod \/ ResyncPod
    <2>1. PICK x : PodNotified(x)
      BY <1>1, <1>6, NotifiedIs
    <2>2. podQ' = Append(podQ, x) /\ podTask' = podTask /\ x \in PodEvent
      BY <2>1 DEF PodNotified
    <2>3. podQ # << >> => podQ' # << >> /\ Head(podQ') = Head(podQ)
      <3> SUFFICES ASSUME podQ # << >> PROVE podQ' # << >> /\ Head(podQ') = Head(podQ)
        OBVIOUS
      <3>1. /\ podQ' \in Seq(PodEvent) /\ Len(podQ') = Len(podQ) + 1 /\ Len(podQ) \in Nat
            /\ \A j \in 1 .. Len(podQ) : podQ'[j] = podQ[j]
        BY <1>1, <2>2, AppendedEvents
      <3>2. Head(podQ) = podQ[1] /\ 1 \in 1 .. Len(podQ)
        BY <1>1, TailEvents
      <3>3. podQ' # << >>
        BY <3>1, EmptySeq
      <3>4. Head(podQ') = podQ'[1]
        BY <3>1, <3>3, TailEvents
      <3> QED
        BY <3>1, <3>2, <3>3, <3>4
    <2> QED
      BY <1>1, <2>2, <2>3 DEF PodTaskInv
  <1>7. CASE DeletePodRead
    <2>1. podQ # << >> /\ Head(podQ).op = "delete" /\ podQ' = podQ
      BY <1>7 DEF DeletePodRead
    <2>2. Head(podQ) \in PodEvent
      BY <1>1, <2>1, TailEvents
    <2>3. podTask' = [pod |-> Head(podQ).obj, at |-> now, runs |-> "retract", node |-> NoNode, claims |-> {}]
      BY <1>7 DEF DeletePodRead, NoPodTask
    <2>4. podTask' \in PodTasks /\ podTask'.pod = Head(podQ).obj /\ podTask'.runs = "retract"
      BY <1>1, <2>2, <2>3 DEF PodTasks, PodEvent
    <2> QED
      BY <2>1, <2>4 DEF PodTaskInv
  <1>8. CASE ~ UpsertPodRead /\ ~ DeletePodRead /\ ~ UpsertPodRunsOn /\ ~ UpsertPodMounts /\ ~ DeletePod
             /\ ~ DeliverPod /\ ~ ResyncPod
    <2>1. UNCHANGED <<podQ, podTask>>
      BY <1>8 DEF PlacementNext, placementVars, podVars, PodChange, NodeChanges, NodeDelivered, NodeHandled,
                  DeliverClaim, PlacementTick, PlacementSweep
    <2> QED
      BY <1>1, <2>1 DEF PodTaskInv
  <1> QED
    BY <1>2, <1>3, <1>4, <1>5, <1>6, <1>7, <1>8

\* A pod the cluster has not made yet has no live edge: the handler writes those of
\* pods in its queue only, and no two pods share a UID.
LEMMA UnmadeKept ==
    ASSUME PlacementInv, [PlacementNext]_placementVars
    PROVE  UnmadeHaveNoEdge'
  <1>1. PodsInv /\ PodTaskInv /\ UnmadeHaveNoEdge /\ podsMade \in Nat
    BY PodsAreEnds DEF PlacementInv, PodsInv
  <1>2. podsMade' >= podsMade
    BY <1>1, PodMoves DEF PodNotified, PodHandled, PodMade, PodsAlone
  <1>3. ASSUME NEW i \in PodIndex, i > podsMade', NEW e \in Edge, e.from = PodSeq[i], Live(edges'[e])
        PROVE  FALSE
    <2>1. podsMade' \in Nat
      BY <1>1, PodMoves DEF PodNotified, PodHandled, PodMade, PodsAlone
    <2>2. i > podsMade
      BY <1>1, <1>2, <1>3, <2>1 DEF PodIndex
    <2>3. ~ Live(edges[e])
      BY <1>1, <1>3, <2>2 DEF UnmadeHaveNoEdge, NoLiveEdge
    <2>4. PodWrites /\ e.from = PodSeq[podTask.pod]
      BY <1>3, <2>3, PlacementEffects, PodWritesItsOwn DEF Dims
    <2>5. podTask.pod \in PodIndex /\ podTask.pod = Head(podQ).obj /\ podQ # << >>
      BY <1>1, <2>4 DEF PodTaskInv, PodTasks, PodWrites
    <2>6. podTask.pod =< podsMade
      <3>1. Head(podQ) = podQ[1] /\ 1 \in 1 .. Len(podQ)
        BY <1>1, <2>5, TailEvents DEF PodsInv
      <3> QED
        BY <1>1, <2>5, <3>1 DEF PodsInv
    <2>7. podTask.pod = i
      BY <1>3, <2>4, <2>5, PodsAreEnds
    <2> QED
      BY <1>1, <2>2, <2>6, <2>7 DEF PodIndex
  <1> QED
    BY <1>3 DEF UnmadeHaveNoEdge, NoLiveEdge

LEMMA OneRunsOnKept ==
    ASSUME PlacementInv, [PlacementNext]_placementVars
    PROVE  OneRunsOn'
  <1>1. CASE Dims
    BY <1>1 DEF PlacementInv, OneRunsOn, Dims
  <1> QED
    BY <1>1, PlacementEffects, PodWritesItsOwn

\* The end of the last pod: where its deletion stands in the queue after a step.
LEMMA EndKept ==
    ASSUME PlacementInv, [PlacementNext]_placementVars, podsMade' > 0, podSeen' # podsMade'
    PROVE  \E k \in 0 .. Len(podQ') : Ends(podsMade, k)'
  <1>1. /\ PodsInv /\ PodTaskInv /\ UnmadeHaveNoEdge /\ UnseenHasEnded
        /\ podsMade \in Nat /\ podQ \in Seq(PodEvent) /\ Len(podQ) \in Nat
        /\ Len(PodSeq) \in Nat /\ podsMade =< Len(PodSeq)
    BY PodsAreEnds, LenProperties DEF PlacementInv, PodsInv
  <1>2. CASE \E x : PodNotified(x)
    <2>1. PICK x : PodNotified(x)
      BY <1>2
    <2>2. x \in PodEvent /\ podQ' = Append(podQ, x) /\ podsMade' = podsMade /\ edges' = edges
      BY <2>1 DEF PodNotified
    <2>3. /\ Len(podQ') = Len(podQ) + 1
          /\ \A j \in 1 .. Len(podQ) : podQ'[j] = podQ[j]
          /\ podQ'[Len(podQ) + 1] = x
      BY <1>1, <2>2, AppendProperties
    <2>4. \A j \in 1 .. Len(podQ') : j \in 1 .. Len(podQ) \/ j = Len(podQ')
      BY <1>1, <2>3
    <2>5. CASE x.op = "delete" /\ podSeen = podsMade
      <3>1. x.obj = podsMade
        BY <2>1, <2>5 DEF PodNotified
      <3>2. PICK k \in 1 .. Len(podQ') : k = Len(podQ')
        BY <1>1, <2>3
      <3>3. Ends(podsMade, k)'
        BY <1>1, <2>2, <2>3, <2>4, <2>5, <3>1, <3>2 DEF Ends
      <3> QED
        BY <1>1, <2>3, <3>2, <3>3
    <2>6. CASE ~(x.op = "delete" /\ podSeen = podsMade)
      <3>1. podSeen # podsMade /\ ~(x.op = "upsert" /\ x.obj = podsMade)
        BY <2>1, <2>2, <2>6 DEF PodNotified, PodEvent
      <3>2. PICK k \in 0 .. Len(podQ) : Ends(podsMade, k)
        BY <1>1, <2>2, <3>1 DEF UnseenHasEnded
      <3>3. Ends(podsMade, k)'
        BY <1>1, <2>2, <2>3, <2>4, <3>1, <3>2 DEF Ends, NoLiveEdge
      <3> QED
        BY <1>1, <2>3, <3>2, <3>3
    <2> QED
      BY <2>5, <2>6
  <1>3. CASE PodHandled
    <2>1. podQ # << >> /\ podQ' = Tail(podQ) /\ podsMade' = podsMade /\ podSeen' = podSeen
      BY <1>3 DEF PodHandled
    <2>2. /\ Head(podQ) = podQ[1] /\ Len(podQ') = Len(podQ) - 1 /\ Len(podQ) > 0
          /\ \A j \in 1 .. Len(podQ') : j + 1 \in 1 .. Len(podQ) /\ podQ'[j] = podQ[j + 1]
      BY <1>1, <2>1, TailEvents, HeadTailProperties
    <2>3. PICK k \in 0 .. Len(podQ) : Ends(podsMade, k)
      BY <1>1, <2>1 DEF UnseenHasEnded
    <2>4. CASE k > 1
      <3>1. k - 1 \in 1 .. Len(podQ') /\ podQ'[k - 1] = podQ[k]
        BY <1>1, <2>2, <2>4
      <3>2. \A j \in 1 .. Len(podQ') : j > k - 1 /\ podQ'[j].op = "upsert" => podQ'[j].obj # podsMade
        BY <1>1, <2>2, <2>3, <2>4 DEF Ends
      <3>3. Ends(podsMade, k - 1)'
        BY <1>1, <2>1, <2>3, <2>4, <3>1, <3>2 DEF Ends
      <3> QED
        BY <1>1, <3>1, <3>3
    <2>5. CASE k =< 1
      <3>1. NoLiveEdge(podsMade) \/ LeavesNoEdge(podsMade)
        <4>1. CASE k = 0
          BY <2>3, <4>1 DEF Ends
        <4>2. CASE k = 1
          <5>1. Head(podQ).op = "delete" /\ Head(podQ).obj = podsMade
            BY <2>2, <2>3, <4>2 DEF Ends
          <5> QED
            BY <1>3, <5>1 DEF PodHandled
        <4> QED
          BY <1>1, <2>5, <4>1, <4>2
      <3>2. Dims
        BY <1>3 DEF PodHandled, Dims
      <3>3. LeavesNoEdge(podsMade)
        BY <3>1, <3>2 DEF NoLiveEdge, LeavesNoEdge, Dims
      <3>4. \A j \in 1 .. Len(podQ') : podQ'[j].op = "upsert" => podQ'[j].obj # podsMade
        BY <1>1, <2>2, <2>3, <2>5 DEF Ends
      <3>5. Ends(podsMade, 0)'
        BY <2>1, <3>3, <3>4 DEF Ends, LeavesNoEdge, NoLiveEdge
      <3> QED
        BY <1>1, <2>2, <3>5
    <2> QED
      BY <1>1, <2>4, <2>5
  <1>4. CASE PodMade
    <2> DEFINE i == podsMade + 1
    <2>1. i \in PodIndex /\ i > podsMade /\ podsMade' = i /\ podQ' = podQ /\ edges' = edges
      BY <1>1, <1>4 DEF PodMade, PodIndex
    <2> HIDE DEF i
    <2>2. NoLiveEdge(i)
      BY <1>1, <2>1 DEF UnmadeHaveNoEdge
    <2>3. \A j \in 1 .. Len(podQ) : podQ[j].obj # i
      <3>1. \A j \in 1 .. Len(podQ) : podQ[j].obj =< podsMade
        BY <1>1 DEF PodsInv
      <3> QED
        BY <1>1, <2>1, <3>1 DEF PodIndex
    <2>4. Ends(podsMade, 0)'
      BY <2>1, <2>2, <2>3 DEF Ends, NoLiveEdge
    <2> QED
      BY <1>1, <2>1, <2>4
  <1>5. CASE PodsAlone
    <2>1. PICK k \in 0 .. Len(podQ) : Ends(podsMade, k)
      BY <1>1, <1>5 DEF PodsAlone, UnseenHasEnded
    <2>2. k = 0 => LeavesNoEdge(podsMade)
      <3> SUFFICES ASSUME k = 0, NEW e \in Edge, e.from = PodSeq[podsMade], Live(edges'[e]) PROVE FALSE
        BY DEF LeavesNoEdge
      <3>1. ~ Live(edges[e])
        BY <2>1 DEF Ends, NoLiveEdge
      <3>2. PodWrites /\ e.from = PodSeq[podTask.pod]
        BY <3>1, PlacementEffects, PodWritesItsOwn DEF Dims
      <3>3. podTask.pod \in PodIndex /\ podTask.pod = Head(podQ).obj /\ podQ # << >> /\ Head(podQ).op = "upsert"
        BY <1>1, <3>2 DEF PodTaskInv, PodTasks, PodWrites
      <3>4. Head(podQ) = podQ[1] /\ 1 \in 1 .. Len(podQ)
        BY <1>1, <3>3, TailEvents
      <3>5. podTask.pod # podsMade
        BY <2>1, <3>3, <3>4 DEF Ends
      <3>6. podsMade \in PodIndex
        BY <1>1, <1>5 DEF PodIndex, PodsAlone
      <3> QED
        BY <3>2, <3>3, <3>5, <3>6, PodsAreEnds
    <2>3. Ends(podsMade, k)'
      BY <1>5, <2>1, <2>2 DEF PodsAlone, Ends, LeavesNoEdge, NoLiveEdge
    <2> QED
      BY <1>5, <2>1, <2>3 DEF PodsAlone
  <1> QED
    BY <1>2, <1>3, <1>4, <1>5, PodMoves

\* The inductive invariant of placement.
THEOREM PlacementInvInductive == PlacementSpec => []PlacementInv
  <1>1. PlacementInv /\ [PlacementNext]_placementVars => PlacementInv'
    <2> SUFFICES ASSUME PlacementInv, [PlacementNext]_placementVars PROVE PlacementInv'
      OBVIOUS
    <2>1. EdgeInv /\ now # Zero /\ NodesInv /\ StoreStep
      BY PlacementIsStoreStep DEF PlacementInv
    <2>2. EdgeInv'
      BY <2>1, StoreStepKeeps
    <2>3. now' # Zero
      <3>1. now' = now \/ now' = now + 1
        BY <2>1 DEF StoreStep, Assert, Retract, ReconcileOut, RetractEach, GC, Advance, edgeVars
      <3> QED
        BY <2>1, <3>1 DEF EdgeInv, EdgeTypeOK, Zero
    <2>4. NodesInv'
      <3>1. NodeChange \/ DeliverNode \/ HandleNode \/ DeleteNodeEdges \/ UNCHANGED nodeVars
        BY DEF PlacementNext, placementVars, PodChange, NodeChanges, DeliverPod, NotifyPod, ResyncPod, NodeDelivered,
               DeliverClaim, UpsertPodRead, DeletePodRead, UpsertPodRunsOn, UpsertPodMounts, DeletePod, NodeHandled,
               PlacementTick, PlacementSweep
      <3>2. now \in Nat \ {Zero}
        BY <2>1 DEF EdgeInv, EdgeTypeOK
      <3> QED
        BY <2>1, <3>1, <3>2, NodesKept
    <2>5. UnseenHasEnded'
      BY EndKept DEF UnseenHasEnded
    <2> QED
      BY <2>2, <2>3, <2>4, <2>5, PodsInvKept, PodTaskKept, OneRunsOnKept, UnmadeKept DEF PlacementInv
  <1> QED
    BY <1>1, InitPlacement, PTL DEF PlacementSpec

\* No interleaving of resyncs, node replacements and late writes of the two handlers
\* leaves a pod two live homes, nor any live edge of the name's last pod once its
\* deletion is handled.
THEOREM PlacementsAreSound == PlacementSpec => []PlacementSound
  <1>1. PlacementInv => OneHome
    <2> SUFFICES ASSUME PlacementInv, NEW i \in PodIndex PROVE Cardinality(LiveHomes(i)) =< 1
      BY DEF OneHome
    <2>1. \A j \in 1 .. nodesMade : j \in NodeIndex /\ NodeSeq[j] \in NodeCEI /\ RunsOn(i, NodeSeq[j]) \in Edge
      BY NodesAreNodes, PodsAreEnds DEF PlacementInv, NodesInv, NodeIndex
    <2>2. ASSUME NEW j \in LiveHomes(i), NEW k \in LiveHomes(i) PROVE j = k
      <3>1. /\ j \in NodeIndex /\ k \in NodeIndex
            /\ RunsOn(i, NodeSeq[j]) \in Edge /\ RunsOn(i, NodeSeq[k]) \in Edge
            /\ Live(edges[RunsOn(i, NodeSeq[j])]) /\ Live(edges[RunsOn(i, NodeSeq[k])])
        BY <2>1 DEF LiveHomes
      <3>2. RunsOn(i, NodeSeq[j]).to = RunsOn(i, NodeSeq[k]).to
        BY <3>1 DEF PlacementInv, OneRunsOn, RunsOn
      <3> QED
        BY <3>1, <3>2, NodeAssumption DEF NodeAssumption, RunsOn
    <2> DEFINE homes == LiveHomes(i)
    <2>3. CASE homes = {}
      BY <2>3, FS_EmptySet
    <2>4. CASE homes # {}
      <3>1. PICK j : j \in homes
        BY <2>4
      <3>2. homes = {j}
        BY <2>2, <3>1
      <3> QED
        BY <3>2, FS_Singleton
    <2> QED
      BY <2>3, <2>4
  <1>2. PlacementInv => HandledDeletionLeavesNothing
    <2> SUFFICES ASSUME PlacementInv, podsMade > 0, CurrentPod = 0, PodUpToDate, podQ = << >>
                 PROVE  NoLiveEdge(podsMade)
      BY DEF HandledDeletionLeavesNothing, NoLiveEdge
    <2>1. podSeen # podsMade /\ Len(podQ) = 0
      BY EmptySeq DEF PodUpToDate
    <2>2. PICK k \in 0 .. Len(podQ) : Ends(podsMade, k)
      BY <2>1 DEF PlacementInv, UnseenHasEnded
    <2> QED
      BY <2>1, <2>2 DEF Ends
  <1> QED
    BY <1>1, <1>2, PlacementInvInductive, PTL DEF PlacementSound

\* The store under the pod and the node handlers is as sound as it is alone.
THEOREM PlacementStoreSound == PlacementSpec => []EdgeInv
  <1>1. PlacementInv => EdgeInv
    BY DEF PlacementInv
  <1> QED
    BY <1>1, PlacementInvInductive, PTL

\* Neither a resync nor a late deletion rewrites what was recorded of where a pod ran.
THEOREM PlacementHistoryKept == PlacementSpec => HistoryKept
  <1>1. PlacementInv /\ [PlacementNext]_placementVars => EdgeInv /\ StoreStep
    BY PlacementIsStoreStep DEF PlacementInv
  <1> DEFINE Final == \A e \in Edge : Retracted(edges[e]) =>
                         \/ edges'[e] = edges[e]
                         \/ Live(edges'[e]) /\ edges'[e].asserted > edges[e].retracted
                         \/ ~ Known(edges'[e]) /\ now - edges[e].retracted >= Horizon
             Monotone == \A e \in Edge : Live(edges[e]) =>
                            /\ Known(edges'[e]) /\ edges'[e].asserted = edges[e].asserted
                            /\ edges'[e].confirmed >= edges[e].confirmed
  <1>2. PlacementInv /\ [PlacementNext]_placementVars => [Final]_edgeVars /\ [Monotone]_edgeVars
    BY <1>1, StoreStepRemembers
  <1> QED
    BY <1>2, PlacementInvInductive, PTL DEF PlacementSpec, HistoryKept, RetractionIsFinal, ConfirmationMonotone

=============================================================================
