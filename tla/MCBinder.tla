------------------------------- MODULE MCBinder -------------------------------
(* A stateful pod that is recreated under its name, its node and its claim,  *)
(* and whose role is corrected when its owner is known; rules of every kind, *)
(* one of them a co-occurrence over claims; a platform with and without the  *)
(* metrics pipeline.                                                         *)
EXTENDS Binder

Row(cei, name, role, kind) == [cei |-> cei, name |-> name, role |-> role, kind |-> kind]
Old  == Row("pod1", "db-0", "db", "Pod")
New  == Row("pod2", "db-0", "db", "Pod")
Late == Row("pod1", "db-0", "rs", "Pod")
Host == Row("node1", "node1", "", "Node")
Svc  == Row("svc", "svc", "", "Service")

MCInventories == {{Late, Host, Svc}, {Old, Host, Svc}, {New, Host, Svc}, {Host, Svc}}

Limits(m, c) == [memory |-> m, cpu |-> c]
Cluster(pods, nodes, claim) == [pods |-> pods, nodes |-> nodes, pvcs |-> [p \in {"data"} |-> claim]]
Db(app, side) == [p \in {"db-0"} |-> [c \in {"app", "side"} |-> IF c = "app" THEN app ELSE side]]
Memory(v) == [n \in {"node1"} |-> v]

MCConfigurations ==
    {Cluster(Db(Limits(4, 2), Limits(0, 0)), Memory(8), 2),
     Cluster(Db(Limits(6, 0), Limits(0, 0)), Memory(8), 0),
     Cluster([p \in {} |-> {}], [n \in {} |-> 0], 2)}

Platform(corpus, kernel) ==
    [corpus |-> corpus, seeded |-> [t \in {} |-> TRUE], runtime |-> "containerd", kernel |-> kernel,
     mixed |-> FALSE, kubelet |-> 135, family |-> "none"]
MCPlatforms == {Platform({}, 612), Platform({"kube-state-metrics"}, 414)}

Signal(tools, caps, shape) == [tools |-> tools, caps |-> caps, gates |-> {}, shape |-> shape]
MCSignals ==
    [s \in {"mem", "throttle", "restarts", "psi", "disk", "link"} |->
        CASE s = "mem"      -> Signal({"cadvisor"}, {}, "gauge")
          [] s = "throttle" -> Signal({"cadvisor"}, {}, "counter")
          [] s = "restarts" -> Signal({"kube-state-metrics"}, {"CAP_KSM_DEPLOYED"}, "counter")
          [] s = "psi"      -> Signal({"node-exporter", "go-pprof"}, {"CAP_KERNEL_GE_4_20"}, "counter")
          [] s = "disk"     -> [Signal({"kubelet"}, {"CAP_CADVISOR_GE_43"}, "gauge")
                                   EXCEPT !.gates = {"GATE_DOCKERSHIM_REMOVED"}]
          [] OTHER          -> Signal({}, {"CAP_KSM_DEPLOYED"}, "non-series")]

Rule(id, sig, kind, scope, path, default) ==
    [id |-> id, signal |-> sig, metric |-> sig, divisor |-> "", kind |-> kind, path |-> path,
     eligible |-> "", factor |-> IF kind = "config-relative" THEN 1 ELSE 0, default |-> default,
     dir |-> "above", scope |-> scope, window |-> "5m"]
RuleSet ==
    {Rule("r1", "mem", "config-relative", "Container", "limits.memory", NoDefault),
     [Rule("r2", "throttle", "absolute", "Container", "", 1)
         EXCEPT !.eligible = "limits.cpu", !.divisor = "periods"],
     Rule("r3", "restarts", "rate-of-change", "Container", "", 3),
     Rule("r4", "psi", "absolute", "Node", "", 1),
     Rule("r5", "mem", "config-relative", "Node", "allocatable.memory", NoDefault),
     Rule("r6", "disk", "config-relative", "PVC", "requests.storage", NoDefault)}
Together == Rule("r7", "link", "co-occurrence", "PVC", "", NoDefault)

Needs(s) == [signal |-> s, role |-> "required", early |-> s = "mem"]
Helps(s) == [signal |-> s, role |-> "corroborating", early |-> FALSE]
Phen(members, metrics, span) ==
    [members |-> members, checks |-> [metric : metrics], span |-> span,
     walks |-> IF span = "entity-local" THEN {} ELSE {"runs-on"}]
MCPhenomena ==
    [p \in {"leak", "stall", "churn"} |->
        CASE p = "leak"  -> Phen({Needs("mem")}, {"mem"}, "entity-local")
          [] p = "stall" -> Phen({Needs("throttle"), Helps("psi")}, {"throttle", "psi"}, "second-order")
          [] OTHER       -> Phen({Needs("restarts"), Needs("link")}, {}, "first-order")]

Release(rules) ==
    [signals |-> MCSignals, phenomena |-> MCPhenomena,
     tools |-> {"cadvisor", "kubelet", "kube-state-metrics", "node-exporter", "go-pprof", "containerd"},
     gates |-> [x \in {"GATE_DOCKERSHIM_REMOVED"} |-> "none"],
     rules |-> [id \in {r.id : r \in rules} |-> CHOOSE r \in rules : r.id = id]]
MCGraph == Release(RuleSet \cup {Together})

At(t, v) == [at |-> t, value |-> v]
Stream(kind, type, h) == [kind |-> kind, type |-> type, history |-> h]
Seen(app, node) ==
    [k \in {<<"pod1", "app", "mem">>, <<"pod1", "app", "throttle">>, <<"pod1", "app", "periods">>,
            <<"node1", "", "mem">>} |->
        CASE k[3] = "throttle" -> {Stream("Container", "counter", <<At(1, 0), At(2, 1)>>)}
          [] k[3] = "periods"  -> {Stream("Container", "counter", <<At(1, 1), At(2, 2)>>)}
          [] k[1] = "node1"    -> node
          [] OTHER             -> app]
MCSightings ==
    {[k \in {} |-> {}],
     Seen({Stream("Container", "gauge", <<At(1, 2), At(2, 3)>>)},
          {Stream("Node", "gauge", <<At(1, 2), At(2, 99)>>)}),
     Seen({Stream("Pod", "gauge", <<At(1, 2), At(2, 3)>>)},
          {Stream("Node", "gauge", <<At(1, 2)>>), Stream("Node", "gauge", <<At(1, 1)>>)}),
     Seen({Stream("Container", "counter", <<At(1, 2), At(2, 3)>>)},
          {Stream("Node", "gauge", <<At(1, 2)>>)})}

MCTopologies == {{}, {[type |-> "runs-on", from |-> "pod1", to |-> "node1"]}}

MCRank == [s \in {"", "app", "side", "data", "node1", "pod1", "pod2", "mem", "throttle", "restarts",
                  "psi", "disk", "link", "r1", "r2", "r3", "r4", "r5", "r6", "r7"} |->
    CASE s \in {"", "data", "disk", "r1"} -> 0 [] s \in {"app", "node1", "mem", "r2"} -> 1
      [] s \in {"side", "pod1", "psi", "r3"} -> 2 [] s \in {"pod2", "restarts", "r4"} -> 3
      [] s \in {"throttle", "r5"} -> 4 [] s \in {"link", "r6"} -> 5 [] OTHER -> 6]
=============================================================================
