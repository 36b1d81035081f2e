------------------------------- MODULE MCDetect -------------------------------
(* A container keyed by itself, its pod, a pod beside it and their node: a   *)
(* leak on the container, pressure from the node, and a noisy neighbour two  *)
(* hops away.                                                                *)
EXTENDS Detect

CONSTANTS c1, p1, p2, n1

MCEntity == {c1, p1, p2, n1}
MCKindOf == [e \in MCEntity |-> IF e = n1 THEN "Node" ELSE "Container"]
MCPodOf  == [e \in {c1} |-> p1]

OnNode(e) == [type |-> "runs-on", from |-> e, to |-> n1]
MCEdge == {OnNode(p1), OnNode(p2)}

Level(m, on) == [metric |-> m, facet |-> "level", expect |-> "crossed", minState |-> 0, on |-> on]
Rising == [metric |-> "mem", facet |-> "slope", expect |-> "rising", minState |-> AtThreshold, on |-> "anchor"]
Stalled == [metric |-> "psi", facet |-> "rate-guard", expect |-> "breached", minState |-> 0, on |-> "neighbour"]
Needs(s, ck)  == [signal |-> s, role |-> "required", check |-> ck]
Helps(s, ck)  == [signal |-> s, role |-> "corroborating", check |-> ck]

MCPhenomenon ==
    [id \in {"leak", "pressure", "noisy"} |->
        CASE id = "leak" ->
                 [span |-> "entity-local", anchor |-> "", walks |-> {},
                  members |-> {Needs("mem", Rising)},
                  relations |-> {[role |-> "downstream", target |-> "pressure"]}]
          [] id = "pressure" ->
                 [span |-> "first-order", anchor |-> "Container", walks |-> {"runs-on"},
                  members |-> {Needs("cpu", Level("cpu", "anchor")), Helps("psi", Stalled)},
                  relations |-> {}]
          [] id = "noisy" ->
                 [span |-> "second-order", anchor |-> "Container", walks |-> {"runs-on"},
                  members |-> {Needs("cpu", Level("cpu", "anchor")), Needs("psi", Stalled),
                               Needs("cpu2", Level("cpu", "two-hop"))},
                  relations |-> {[role |-> "trigger", target |-> "leak"]}]]

MCSelected == [e \in MCEntity |-> IF e = c1 THEN {"leak", "pressure", "noisy"}
                                  ELSE IF e = p2 THEN {"noisy"} ELSE {}]

Threshold(r, m, st, sl) == [rule |-> r, metric |-> m, clause |-> "threshold", stale |-> FALSE,
                            inconclusive |-> FALSE, state |-> st, slope |-> sl]
Rate(stale, b) == [rule |-> 9, metric |-> "psi", clause |-> "rate", stale |-> stale,
                   inconclusive |-> FALSE, breached |-> b]

Leaking == Threshold(1, "mem", AtThreshold, "rising")
Idle    == Threshold(1, "mem", Below, "rising")
Busy    == Threshold(2, "cpu", Above, "flat")
Calm    == Threshold(2, "cpu", AtThreshold, "flat")
Twice   == Threshold(3, "cpu", Above, "flat")      \* a second variable on cpu

MCFps == {[e \in {c1, p2, n1} |-> IF e = c1 THEN x ELSE IF e = p2 THEN y ELSE {z}] :
              x \in {{Leaking, Busy}, {Leaking, Calm}, {Idle, Busy}, {Idle, Busy, Twice}},
              y \in {{}, {Busy}, {Calm}},
              z \in {Rate(FALSE, TRUE), Rate(FALSE, FALSE), Rate(TRUE, TRUE)}}
MCTopo == {t \in [verdict : [MCEdge -> Absent..Valid], pods : {{p2}, {p1, p2}}] :
              t.verdict[OnNode(p1)] # Absent => p1 \in t.pods}

MCSighting == [fps : MCFps, topo : MCTopo]
=============================================================================
