---------------------------- MODULE MCGovernance ----------------------------
(* Two phenomena over three signals; overlays that declare spans, bars,      *)
(* anchors and checks in one file or in several, some of them defective; a   *)
(* base that moves on and one that is truncated.                             *)
EXTENDS Governance

Signal(tools, shape) == [tools |-> tools, caps |-> {}, gates |-> {}, shape |-> shape, modality |-> "Metric"]
Node(id, type, data) == [id |-> id, type |-> type, data |-> data]
Plain == [prose |-> ""]
Label == [span |-> "", walks |-> {}, prose |-> "label"]
Edge(type, src, srcType, dst, dstType, role) ==
    [type |-> type, src |-> src, srcType |-> srcType, dst |-> dst, dstType |-> dstType, role |-> role, early |-> FALSE]

Nodes ==
    {Node("mem", "Signal", Signal({"cadvisor"}, "gauge")), Node("throttle", "Signal", Signal({"cadvisor"}, "counter")),
     Node("psi", "Signal", Signal({"node-exporter"}, "counter")),
     Node("leak", "CorrelationGroup", Label), Node("stall", "CorrelationGroup", Label),
     Node("eg", "EquivalenceGroup", [patterns |-> {"a", "b"}, canonical |-> "mem"]),
     Node("cadvisor", "Tool", Plain), Node("node-exporter", "Tool", Plain), Node("pod", "Entity", Plain)}
Edges ==
    {Edge("participates_in", "mem", "Signal", "leak", "CorrelationGroup", "required"),
     Edge("participates_in", "throttle", "Signal", "stall", "", "required"),
     Edge("participates_in", "psi", "Signal", "stall", "CorrelationGroup", "corroborating"),
     Edge("phenomenon_relation", "leak", "", "stall", "", "trigger")}
NextNodes ==
    (Nodes \ {Node("eg", "EquivalenceGroup", [patterns |-> {"a", "b"}, canonical |-> "mem"]), Node("pod", "Entity", Plain)})
    \cup {Node("eg", "EquivalenceGroup", [patterns |-> {"a", "c"}, canonical |-> "memory"]),
          Node("agent", "Agent", Plain), Node("trap", "Gotcha", Plain)}
NextEdges ==
    {e \in Edges : e.type # "phenomenon_relation"}
    \cup {Edge("owned_by_agent", "mem", "Signal", "agent", "Agent", "")}
Stats(n, e) == [nodes_total |-> n, edges_total |-> e]
MCBases ==
    [b \in {"kg", "kg-next", "truncated"} |->
        CASE b = "kg"      -> [nodes |-> Nodes, edges |-> Edges, stats |-> Stats(9, 4)]
          [] b = "kg-next" -> [nodes |-> NextNodes, edges |-> NextEdges, stats |-> Stats(10, 4)]
          [] OTHER         -> [nodes |-> Nodes, edges |-> {}, stats |-> Stats(9, 4)]]

Nothing == [x \in {} |-> 0]
Doc(spans, rules, anchors, checks) ==
    [name |-> "overlay", author |-> "vigil", spans |-> spans, rules |-> rules, anchors |-> anchors, checks |-> checks]
Span(span, walks) == [span |-> span, walks |-> walks, rationale |-> "why"]
SpansOf(stall) ==
    [id \in {"leak", "stall"} |-> IF id = "leak" THEN Span("entity-local", {}) ELSE Span(stall, {"runs-on"})]
Rule(id, sig, kind, scope, path, default) ==
    [id |-> id, signal |-> sig, metric |-> sig, divisor |-> "", kind |-> kind, path |-> path, eligible |-> "",
     factor |-> IF kind = "config-relative" THEN 1 ELSE 0, default |-> default, dir |-> "above", scope |-> scope,
     window |-> "5m", rationale |-> "why"]
Memory == Rule("r1", "mem", "config-relative", "Container", "limits.memory", NoDefault)
Throttle(default, eligible) ==
    [Rule("r2", "throttle", "absolute", "Container", "", default) EXCEPT !.eligible = eligible]
Check(sig, on) == [signal |-> sig, metric |-> sig, facet |-> "level", expect |-> "crossed", min |-> "", on |-> on]
Stall(anchor) == [id \in {"stall"} |-> anchor]

MCDocs ==
    [d \in {"spans", "bars", "bars-moved", "bars-ungated", "conditions", "all", "two-hop"} |->
        CASE d = "spans"        -> Doc(SpansOf("first-order"), <<Memory>>, Nothing, Nothing)
          [] d = "bars"         -> Doc(Nothing, <<Throttle(1, "limits.cpu")>>, Nothing, Nothing)
          [] d = "bars-moved"   -> Doc(Nothing, <<Throttle(2, "limits.cpu")>>, Nothing, Nothing)
          [] d = "bars-ungated" -> Doc(Nothing, <<Throttle(1, "")>>, Nothing, Nothing)
          [] d = "conditions"   -> Doc(Nothing, <<>>, Stall("Container"),
                                       [id \in {"stall"} |-> <<Check("throttle", "anchor"), Check("psi", "neighbour")>>])
          [] d = "all"          -> Doc(SpansOf("second-order"),
                                       <<[Memory EXCEPT !.rationale = "reworded"], Throttle(1, "limits.cpu")>>,
                                       Stall("Container"), [id \in {"stall"} |-> <<Check("psi", "two-hop")>>])
          [] OTHER              -> Doc(Nothing, <<Memory, Memory>>, Nothing,
                                       [id \in {"stall"} |-> <<Check("throttle", "two-hop")>>])]

Proposal(release, from, class, evidence, decision) ==
    [release |-> release, from |-> from, class |-> class, authored |-> TRUE, evidence |-> evidence, review |-> decision]
MCProposals ==
    {Proposal("v1", "", NormativeHigh, TRUE, "approve"), Proposal("v2", "v1", AdditiveLow, FALSE, "approve"),
     Proposal("v2", "v1", BehaviouralMedium, TRUE, "approve"), Proposal("v2", "v1", NormativeHigh, TRUE, "approve"),
     [Proposal("v2", "v1", NormativeHigh, FALSE, "pending") EXCEPT !.authored = FALSE]}

Result(gate, status) == [gate |-> gate, status |-> status]
Passes == <<Result("authoring-lints", "passed"), Result("binding-qa", "passed"), Result("falsification", "passed"),
            Result("replay-diff", "passed")>>
Ledger(proposal, class, results) == [proposal |-> proposal, class |-> class, results |-> results]
MCLedgers ==
    {Ledger("v2", NormativeHigh, Passes \o <<Result("shipped-class-backtest", "passed")>>),
     Ledger("v2", BehaviouralMedium, Passes),
     Ledger("(none)", Unstated, Passes \o <<Result("shipped-class-backtest", "passed"),
                                           Result("shipped-class-backtest", "failed")>>)}

MCPlans == {[release |-> "v2", prior |-> "v1"]}
Health(kind, baseline, candidate, limit) ==
    [kind |-> kind, baseline |-> baseline, candidate |-> candidate, limit |-> limit]
Measured(stage, signals) == [stage |-> stage, signals |-> signals]
MCStageReports ==
    {Measured("canary", {}),
     Measured("reference", {Health("absolute-max", 0, 0, 0), Health("ratio-vs-baseline", 2, 4, 2)}),
     Measured("fleet", {Health("absolute-max", 0, 0, 0), Health("ratio-vs-baseline", 2, 5, 2)}),
     Measured("reference", {Health("ratio-vs-baseline", 0, 3, 2)})}

Row(cei, name, role, kind) == [cei |-> cei, name |-> name, role |-> role, kind |-> kind]
MCInventory == {Row("pod1", "db-0", "db", "Pod"), Row("node1", "node1", "", "Node")}
Limits(m, c) == [memory |-> m, cpu |-> c]
MCConfiguration ==
    [pods |-> [p \in {"db-0"} |-> [c \in {"app", "side"} |-> IF c = "app" THEN Limits(4, 2) ELSE Limits(6, 0)]],
     nodes |-> [n \in {"node1"} |-> 8], pvcs |-> Nothing]
MCPlatform ==
    [corpus |-> {"node-exporter"}, seeded |-> [t \in {} |-> TRUE], runtime |-> "containerd", kernel |-> 612,
     mixed |-> FALSE, kubelet |-> 135, family |-> "none"]
MCEvidence ==
    [k \in {<<"pod1", "app", "mem">>, <<"pod1", "side", "throttle">>} |->
        {[kind |-> "Container", type |-> IF k[3] = "mem" THEN "gauge" ELSE "counter",
          history |-> <<[at |-> 1, value |-> 2], [at |-> 2, value |-> 3]>>]}]
ASSUME MembersAssumption == RequiredMembersKeepTheirKind

MCRank == [s \in {} |-> 0]
MCSymmetry == Permutations(Dirs)
=============================================================================
