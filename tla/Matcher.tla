------------------------------- MODULE Matcher -------------------------------
(* The topological matcher and the blast radius of internal/detect: what an  *)
(* evaluation window finds, given the fingerprints of the entities and the   *)
(* edges between them.  Operators only; module Detect runs them tick by tick. *)
(*                                                                           *)
(* An entity-local phenomenon is the spanned one whose members are all on    *)
(* the anchor: evalPhenomenon and evalSpanned are one definition here.       *)
EXTENDS Integers, FiniteSets, FiniteSetsExt

CONSTANTS
    Entity,          \* instance CEI keys
    KindOf,          \* the kind of each
    PodOf,           \* the pod each container-keyed entity names in its key
    Edge,            \* the edges of the topology: [type, from, to]
    Phenomenon,      \* the graph: id -> [span, anchor, walks, members, relations]
    Selected,        \* Tier A: the phenomena each entity was selected for
    CompletenessNum, CompletenessDen   \* MinCompleteness

(* identity.Traversal, in its order, and observe.ThresholdState: 0 is       *)
(* unknown, 4 well above.                                                    *)
Absent  == 0
Suspect == 1
Valid   == 2

Below       == 1
AtThreshold == 2
Above       == 3

EdgeTypes == {"runs-on", "mounts", "selects", "owns", "node-lease"}

(* A fingerprint is the set of an entity's variables: thresholds and rates.  *)
Variable ==
    [rule : Nat, metric : STRING, clause : {"threshold"}, stale : BOOLEAN, inconclusive : BOOLEAN,
     state : 0..4, slope : {"falling", "flat", "rising"}]
    \cup [rule : Nat, metric : STRING, clause : {"rate"}, stale : BOOLEAN, inconclusive : BOOLEAN,
          breached : BOOLEAN]

Check == [metric : STRING, facet : {"level", "ratio", "slope", "rate-guard", "none"}, expect : STRING,
          minState : 0..4, on : {"anchor", "neighbour", "two-hop"}]
Member == [signal : STRING, role : {"required", "corroborating", "downstream"}, check : Check]

(* Of a member for which no check is authored: nothing ever observes it.     *)
NoCheck == [metric |-> "", facet |-> "none", expect |-> "", minState |-> 0, on |-> "anchor"]

IsPhenomenon(p) ==
    /\ p.span \in {"entity-local", "first-order", "second-order"}
    /\ p.walks \subseteq EdgeTypes
    /\ p.members \subseteq Member /\ IsFiniteSet(p.members)
    /\ p.relations \subseteq [role : {"downstream", "trigger", "corroborating"}, target : DOMAIN Phenomenon]

(* What finalizeOverlays admits: the span bounds the walk of every check.    *)
SpanBoundsTheWalk(p) ==
    \A m \in p.members :
        /\ p.span = "entity-local" => m.check.on = "anchor"
        /\ m.check.on = "two-hop" => p.span = "second-order"

ASSUME MatcherAssumption ==
    /\ Edge \subseteq [type : EdgeTypes, from : Entity, to : Entity]
    /\ \A id \in DOMAIN Phenomenon : IsPhenomenon(Phenomenon[id]) /\ SpanBoundsTheWalk(Phenomenon[id])
    /\ Selected \in [Entity -> SUBSET DOMAIN Phenomenon]
    /\ DOMAIN PodOf \subseteq Entity /\ Entity \subseteq DOMAIN KindOf
    /\ CompletenessNum \in Nat /\ CompletenessDen \in Nat \ {0}
    /\ CompletenessNum < CompletenessDen       \* params.go refuses anything else
    \* Pods run on nodes, mount claims and are selected by services; a lease is
    \* an edge of a node to itself: two hops never lead back to a neighbour.
    /\ \E side \in [Entity -> BOOLEAN] :
           \A e \in Edge : e.from = e.to \/ side[e.from] # side[e.to]

(* A tick's snapshot of the topology: the verdict on each edge in the        *)
(* window, and the pods that have a runs-on edge of any age.                 *)
Topology == [verdict : [Edge -> Absent..Valid], pods : SUBSET Entity]

-----------------------------------------------------------------------------
(* One member's check against one fingerprint.  Two variables on one metric  *)
(* are ambiguous and count as no evidence.                                   *)

ClauseOf(c) ==
    CASE c.facet = "rate-guard" -> "rate"
      [] c.facet \in {"level", "ratio", "slope"} -> "threshold"
      [] OTHER -> "none"

Named(c, vars) == {v \in vars : v.metric = c.metric /\ v.clause = ClauseOf(c)}

Usable(c, vars) ==
    {v \in Named(c, vars) : /\ Cardinality(Named(c, vars)) = 1
                            /\ ~v.stale
                            /\ c.facet \in {"slope", "rate-guard"} => ~v.inconclusive}

Holds(c, v) ==
    \/ c.facet \in {"level", "ratio"} /\ c.expect \in {"crossed", "at-or-above"} /\ v.state >= Above
    \/ c.facet = "slope" /\ v.state >= c.minState /\ v.slope \in {"rising", "falling"} \cap {c.expect}
    \/ c.facet = "rate-guard" /\ c.expect = "breached" /\ v.breached

Observable(c, vars) == Usable(c, vars) # {}
Satisfied(c, vars) == \E v \in Usable(c, vars) : Holds(c, v)

-----------------------------------------------------------------------------
(* Reach: along the phenomenon's edge types, in both directions, over edges  *)
(* that exist in the window.  A path is as good as its worst edge, and the   *)
(* best path to an entity counts.                                            *)

Best(verdicts) == Max({Absent} \cup verdicts)

Hop(a, b, walks, topo) ==
    Best({topo.verdict[e] : e \in {x \in Edge : x.type \in walks /\ {x.from, x.to} = {a, b}}})

NothingReached == [e \in {} |-> Absent]

Hop1(o, walks, topo) ==
    [e \in {x \in Entity \ {o} : Hop(o, x, walks, topo) # Absent} |-> Hop(o, e, walks, topo)]

SlipBestOfBoth(v, w) == IF v < w THEN w ELSE v

(* The worst verdict of a path of two edges.                                 *)
WorstOfBoth(v, w) == IF w < v THEN w ELSE v

Hop2(o, walks, topo) ==
    LET one == Hop1(o, walks, topo)
        Over(r, e) == WorstOfBoth(one[r], Hop(r, e, walks, topo))
        Next(r) == {e \in Entity : Hop(r, e, walks, topo) # Absent}
        two == (UNION {Next(r) : r \in DOMAIN one}) \ (DOMAIN one \cup {o})
    IN  [e \in two |-> Best({Over(r, e) : r \in {x \in DOMAIN one : e \in Next(x)}})]

(* Walks start at the anchor, or at the pod that contains it: a container    *)
(* whose pod the topology does not know reaches nothing.                     *)
Origin(a, topo) == IF a \in DOMAIN PodOf THEN {PodOf[a]} \cap topo.pods ELSE {a}

(* The entities a member is looked for on, with the verdict of the way there. *)
Targets(c, p, a, topo) ==
    IF c.on = "anchor" THEN [e \in {a} |-> Valid]
    ELSE IF Origin(a, topo) = {} THEN NothingReached
    ELSE LET o == CHOOSE x \in Origin(a, topo) : TRUE
         IN  IF c.on = "neighbour" THEN Hop1(o, p.walks, topo) ELSE Hop2(o, p.walks, topo)

-----------------------------------------------------------------------------
(* A phenomenon at an anchor: where each member was seen (some entity's      *)
(* variable could be read), where it holds, and the verdict of the way there. *)

SeenAt(c, p, a, fps, topo) ==
    LET to == Targets(c, p, a, topo)
        seen == {e \in DOMAIN to \cap DOMAIN fps : Observable(c, fps[e])}
    IN  [seen |-> seen, hits |-> [e \in {x \in seen : Satisfied(c, fps[x])} |-> to[e]]]

Looked(p, a, fps, topo) == [m \in p.members |-> SeenAt(m.check, p, a, fps, topo)]

Required(look) == {m \in DOMAIN look : m.role = "required"}
HitsOf(look, m) == DOMAIN look[m].hits
Met(look) == {m \in DOMAIN look : HitsOf(look, m) # {}}
Refuted(look) == {m \in DOMAIN look : look[m].seen # {} /\ HitsOf(look, m) = {}}

(* Members, supporting ones included, whose every witness is over a suspect  *)
(* edge.                                                                     *)
OnSuspicion(look) == {m \in Met(look) : \A e \in HitsOf(look, m) : look[m].hits[e] # Valid}

(* No required member is seen not to happen, and one happens on the anchor.  *)
Happens(look) ==
    /\ Required(look) \cap Refuted(look) = {}
    /\ \E m \in Required(look) \cap Met(look) : m.check.on = "anchor"

SlipUnobservedForgiven(look) == OnSuspicion(look) = {}

IsFull(look) == Required(look) \subseteq Met(look) /\ OnSuspicion(look) = {}

CompleteEnough(look) ==
    Cardinality(Required(look) \cap Met(look)) * CompletenessDen
        >= CompletenessNum * Cardinality(Required(look))

Surfaces(look) == Happens(look) /\ (IsFull(look) \/ CompleteEnough(look))

Evidence(look) == UNION {{<<e, m.check.metric>> : e \in HitsOf(look, m)} : m \in Met(look)}

-----------------------------------------------------------------------------
(* Relatedness, downstream phenomena and the blast radius.                   *)

TopoAnchor(e, topo) == IF e \in DOMAIN PodOf /\ PodOf[e] \in topo.pods THEN PodOf[e] ELSE e

Related(a, b, topo) ==
    \/ a = b
    \/ a \in DOMAIN PodOf /\ b \in DOMAIN PodOf /\ PodOf[a] = PodOf[b]
    \/ TopoAnchor(a, topo) = TopoAnchor(b, topo)
    \/ Hop(TopoAnchor(a, topo), TopoAnchor(b, topo), {"runs-on", "mounts", "selects"}, topo) # Absent

(* Declared from either end: as P's downstream, or as Q's trigger.           *)
Downstream(id) ==
    {q \in DOMAIN Phenomenon :
        \/ [role |-> "downstream", target |-> q] \in Phenomenon[id].relations
        \/ [role |-> "trigger", target |-> id] \in Phenomenon[q].relations}

SlipOnlyNeighbours(id, a, topo) ==
    {x \in Downstream(id) \X Entity : x[1] \in Selected[x[2]] /\ a # x[2] /\ Related(a, x[2], topo)}

BlastRadius(id, a, topo) ==
    {x \in Downstream(id) \X Entity : x[1] \in Selected[x[2]] /\ Related(a, x[2], topo)}

-----------------------------------------------------------------------------
Finding == [phenomenon : DOMAIN Phenomenon, entity : Entity, quality : {"full", "degraded"},
            evidence : SUBSET (Entity \X STRING), atRisk : SUBSET ((DOMAIN Phenomenon) \X Entity)]

FindingOf(id, a, look, topo) ==
    [phenomenon |-> id, entity |-> a,
     quality |-> IF IsFull(look) THEN "full" ELSE "degraded",
     evidence |-> Evidence(look),
     atRisk |-> BlastRadius(id, a, topo)]

(* Selected entities only; a spanned phenomenon at its authored anchor kind. *)
Evaluated(fps) ==
    {x \in (DOMAIN Phenomenon) \X DOMAIN fps :
        /\ Selected[x[2]] # {}
        /\ Phenomenon[x[1]].span # "entity-local" => Phenomenon[x[1]].anchor = KindOf[x[2]]}

Findings(fps, topo) ==
    UNION {LET look == Looked(Phenomenon[x[1]], x[2], fps, topo)
           IN  IF Surfaces(look) THEN {FindingOf(x[1], x[2], look, topo)} ELSE {} : x \in Evaluated(fps)}
=============================================================================
