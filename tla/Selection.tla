------------------------------ MODULE Selection ------------------------------
(* Attention: the funnel of internal/selection from bound variables to Tier  *)
(* A with its neighbourhoods, and of internal/forecast/eligibility.go to the *)
(* budgeted targets of Tier B.  Operators only.                              *)
EXTENDS Binding

CONSTANTS
    Rank    \* the order of the strings that are sorted: id -> number

-----------------------------------------------------------------------------
(* Tier A.  Detection fires on the metrics of checks, so an entity earns a   *)
(* phenomenon by a member's signal or by a metric that one of its checks     *)
(* consults.                                                                 *)
SlipFailedCounts(b) == b.state = "bound" /\ b.bar # NoBar

Evaluable(b) == b.state = "bound" /\ b.bar # NoBar /\ b.validation # "failed"

Earns(b, id, g) ==
    \/ \E m \in g.phenomena[id].members : m.signal = g.rules[b.rule].signal
    \/ \E c \in g.phenomena[id].checks : c.metric = b.metric

TierASet(bs, g) ==
    LET Earned(cei) == {id \in DOMAIN g.phenomena :
                           \E b \in bs : b.cei = cei /\ Evaluable(b) /\ Earns(b, id, g)}
    IN  [cei \in {c \in {b.cei : b \in bs} : Earned(c) # {}} |-> Earned(cei)]

(* The reason of one entity, first that applies.                             *)
ReasonFor(cei, bs, g, stale) ==
    CASE cei \in DOMAIN TierASet(bs, g) -> "phenomenon-member"
      [] cei \notin DOMAIN TierASet(bs, g) /\ (\E b \in bs : b.cei = cei /\ Evaluable(b)) ->
             "no-phenomenon-member"
      [] (\E b \in bs : b.cei = cei) /\ (\A b \in bs : b.cei = cei => ~Evaluable(b)) ->
             "no-evaluable-variable"
      [] (\A b \in bs : b.cei # cei) /\ stale -> "bindings-stale"
      [] OTHER -> "structural-entity"

(* Neighbours along the edge types of a walk, both directions, over edges    *)
(* that exist in the window: topo is a set of [type, from, to].              *)
Across(topo, from, walks) ==
    {IF e.from = from THEN e.to ELSE e.from :
        e \in {x \in topo : x.type \in walks /\ from \in {x.from, x.to}}}

(* The closure of one spanned phenomenon, hop by hop, nothing visited twice. *)
Neighbourhood(cei, p, topo) ==
    LET one == Across(topo, cei, p.walks) \ {cei}
        two == (UNION {Across(topo, e, p.walks) : e \in one}) \ (one \cup {cei})
    IN  [entity : one, hop : {1}]
        \cup (IF p.span = "second-order" THEN [entity : two, hop : {2}] ELSE {})

Spanned(p) == p.span \in {"first-order", "second-order"}

(* A spanned phenomenon none of whose neighbours is reachable: a recorded    *)
(* gap.                                                                      *)
ClosureGaps(cei, ids, g, topo) ==
    {id \in ids : Spanned(g.phenomena[id]) /\ Across(topo, cei, g.phenomena[id].walks) = {}}

(* Every entity of the inventory has exactly one record.                     *)
Select(inv, bs, g, stale, topo) ==
    LET A == TierASet(bs, g)
        Of(cei) == IF cei \in DOMAIN A THEN A[cei] ELSE {}
    IN  [cei \in {r.cei : r \in inv} |->
            [reason |-> ReasonFor(cei, bs, g, stale),
             phenomena |-> Of(cei),
             reach |-> UNION {Neighbourhood(cei, g.phenomena[id], topo) :
                                 id \in {x \in Of(cei) : Spanned(g.phenomena[x])}},
             gaps |-> ClosureGaps(cei, Of(cei), g, topo)]]

-----------------------------------------------------------------------------
(* Tier B: the signal-level funnel.  A pair is an entity key and a metric:   *)
(* the first binding of the pair, in the order of rule and container,        *)
(* decides for it.                                                           *)
Precursors(signal, g) ==
    {id \in DOMAIN g.phenomena : \E m \in g.phenomena[id].members : m.signal = signal /\ m.early}

Rejection(b, g) ==
    LET rule == g.rules[b.rule] shape == g.signals[rule.signal].shape IN
    CASE b.state # "bound" -> "not-bound"
      [] b.state = "bound" /\ b.bar = NoBar -> "unbounded"
      [] b.bar # NoBar /\ rule.kind = "rate-of-change" -> "rate-guard-bar"
      [] b.bar # NoBar /\ rule.kind # "rate-of-change" /\ rule.divisor # "" -> "derived-ratio-deferred"
      [] b.bar # NoBar /\ rule.kind # "rate-of-change" /\ rule.divisor = "" /\ shape = "counter" ->
             "counter-deferred"
      [] b.bar # NoBar /\ rule.kind # "rate-of-change" /\ rule.divisor = "" /\ shape = "non-series" ->
             "non-series-signal"
      [] b.bar # NoBar /\ rule.kind # "rate-of-change" /\ rule.divisor = "" /\ shape = "gauge"
         /\ b.entity = "PVC" -> "no-stream-key"
      [] OTHER -> "eligible"

First(bs) ==
    CHOOSE b \in bs : \A x \in bs \ {b} :
        \/ Rank[b.rule] < Rank[x.rule]
        \/ b.rule = x.rule /\ Rank[b.container] < Rank[x.container]

Deciding(bs) ==
    {First({b \in bs : b.cei = pair[1] /\ b.metric = pair[2]}) : pair \in {<<b.cei, b.metric>> : b \in bs}}

TargetOf(b, g) ==
    [cei |-> b.cei, container |-> b.container, metric |-> b.metric,
     bar |-> (CHOOSE bar \in b.bar : TRUE).value, dir |-> g.rules[b.rule].dir,
     flagged |-> (CHOOSE bar \in b.bar : TRUE).flagged,
     precursors |-> Precursors(g.rules[b.rule].signal, g)]

EligibleTargets(bs, g) == {TargetOf(b, g) : b \in {x \in Deciding(bs) : Rejection(x, g) = "eligible"}}

(* Precursors first, then by key and metric.                                 *)
Outranks(t, u) ==
    IF (t.precursors = {}) # (u.precursors = {}) THEN t.precursors # {}
    ELSE Rank[t.cei] < Rank[u.cei] \/ (t.cei = u.cei /\ Rank[t.metric] < Rank[u.metric])

(* A ceiling of 0 is none.                                                   *)
SelectTierB(targets, ceiling) ==
    LET rank(t) == 1 + Cardinality({u \in targets \ {t} : Outranks(u, t)})
    IN  {t \in targets : ceiling =< 0 \/ rank(t) =< ceiling}
=============================================================================
