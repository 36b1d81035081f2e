------------------------------- MODULE Binding -------------------------------
(* The binding engine of internal/binding: what is obtainable on a cluster,  *)
(* the bars a compile derives from the authored rules and the declared       *)
(* limits, and the semantic validation of what it bound.  Operators only:    *)
(* module Binder runs them on its triggers, module Governance across         *)
(* releases.                                                                 *)
(*                                                                           *)
(* A graph g is [signals, tools, gates, rules, phenomena], the               *)
(* inventory a set of [cei, name, role, kind], the configuration             *)
(* [pods, nodes, pvcs] by NAME, with 0 for a limit that is not declared.     *)
EXTENDS Integers, Sequences, FiniteSets, FiniteSetsExt, SequencesExt

CONSTANTS
    Cumulative,      \* the metrics whose names end in _total
    MaxRatio,        \* bounds.MaxRatio, in the unit of the samples
    EvidenceWindow   \* the samples consulted per check (evidenceWindow)

ASSUME BindingAssumption == MaxRatio \in Nat /\ EvidenceWindow \in Nat \ {0}

-----------------------------------------------------------------------------
(* Obtainability.  A platform is [corpus: the tools the running workloads    *)
(* show, seeded: verdicts given from outside, runtime, kernel, mixed,        *)
(* kubelet, family], versions as numbers, Unparseable when they are not.     *)
Unparseable == -1

Obtainable    == "obtainable"
OutOfScope    == "out-of-scope"
Indeterminate == "indeterminate"

NativeTools == {"k8s-api", "kube-apiserver", "kubelet", "cadvisor", "container-runtime", "kernel"}
UndetectableTools == {"go-pprof", "audit-backend"}
LogAggregatorTools == {"loki", "promtail", "fluent-bit", "fluentd", "vector"}

KernelCaps == [CAP_KERNEL_GE_4_18 |-> 418, CAP_KERNEL_GE_4_20 |-> 420, CAP_KERNEL_GE_5_8 |-> 508]

PresenceSufficientCaps ==
    [CAP_KSM_DEPLOYED |-> "kube-state-metrics", CAP_NODE_EXPORTER |-> "node-exporter",
     CAP_CILIUM |-> "cilium", CAP_HUBBLE |-> "hubble", CAP_CALICO |-> "calico",
     CAP_ISTIO |-> "istio", CAP_LINKERD |-> "linkerd", CAP_KEPLER |-> "kepler",
     CAP_OPENCOST |-> "opencost", CAP_PARCA |-> "parca", CAP_PYROSCOPE |-> "pyroscope",
     CAP_PIXIE |-> "pixie", CAP_TETRAGON |-> "tetragon", CAP_TRACEE |-> "tracee",
     CAP_FALCO_EBPF |-> "falco", CAP_FLUENTBIT |-> "fluent-bit",
     CAP_KUBE_PROXY |-> "kube-proxy", CAP_CSI_DRIVER |-> "csi-driver"]

PresenceNecessaryCaps ==
    [CAP_CONTAINERD_METRICS |-> "containerd", CAP_CRIO_METRICS |-> "cri-o",
     CAP_ETCD_METRICS_EXPOSED |-> "etcd", CAP_CILIUM_KPR |-> "cilium"]

(* facts.ToolPresent: a tool outside its domain is of unknown presence.      *)
DetectTools(g, facts) ==
    [t \in (g.tools \ UndetectableTools) \cup DOMAIN facts.seeded |->
        CASE t \in DOMAIN facts.seeded    -> facts.seeded[t]
          [] t \in NativeTools            -> TRUE
          [] t \in {"containerd", "cri-o"} -> facts.runtime = t
          [] OTHER                        -> t \in facts.corpus]

Deployed(tool, present) == tool \in DOMAIN present /\ present[tool]

VersionAtLeast(version, least) ==
    IF version = Unparseable THEN Indeterminate
    ELSE IF version < least THEN OutOfScope ELSE Obtainable

CapabilityMet(cap, present, facts) ==
    CASE cap \in DOMAIN KernelCaps ->
             LET v == VersionAtLeast(facts.kernel, KernelCaps[cap])
             IN  IF v = Obtainable /\ facts.mixed THEN Indeterminate ELSE v
      [] cap \in DOMAIN PresenceSufficientCaps ->
             IF Deployed(PresenceSufficientCaps[cap], present) THEN Obtainable ELSE OutOfScope
      [] cap \in DOMAIN PresenceNecessaryCaps ->
             IF Deployed(PresenceNecessaryCaps[cap], present) THEN Indeterminate ELSE OutOfScope
      [] cap = "CAP_LOG_AGGREGATOR" ->
             IF \E t \in LogAggregatorTools : Deployed(t, present) THEN Obtainable ELSE OutOfScope
      [] cap = "CAP_CADVISOR_GE_43" -> VersionAtLeast(facts.kubelet, 122)
      [] OTHER -> Indeterminate

(* The gates whose condition the platform meets: [id -> its family].         *)
ActiveGates(g, facts) ==
    {gate \in DOMAIN g.gates :
        \/ gate = "GATE_DOCKERSHIM_REMOVED" /\ facts.kubelet >= 124 /\ facts.runtime # "docker"
        \/ g.gates[gate] # "none" /\ g.gates[gate] = facts.family}

(* At least one emitting tool; what cannot be known is not assumed either way. *)
ToolVerdict(s, present) ==
    CASE s.tools = {} \/ (\E t \in s.tools : Deployed(t, present)) -> Obtainable
      [] s.tools # {} /\ (\A t \in s.tools : ~Deployed(t, present)) ->
             IF s.tools \subseteq DOMAIN present THEN OutOfScope ELSE Indeterminate

(* Out of scope dominates indeterminate, which dominates obtainable.         *)
Worst(verdicts) ==
    IF OutOfScope \in verdicts THEN OutOfScope
    ELSE IF Indeterminate \in verdicts THEN Indeterminate ELSE Obtainable

GateSignals(g, facts) ==
    LET present == DetectTools(g, facts)
        Gated(s) == [state |-> Worst({ToolVerdict(s, present)} \cup
                                     {CapabilityMet(c, present, facts) : c \in s.caps}),
                     gates |-> s.gates \cap ActiveGates(g, facts)]
    IN  [id \in DOMAIN g.signals |-> Gated(g.signals[id])]

(* No report: availability gating is skipped, and no gate is known.          *)
NoReport == [id \in {} |-> [state |-> Obtainable, gates |-> {}]]

Unobtainable(rule, avail) == rule.signal \in DOMAIN avail /\ avail[rule.signal].state = OutOfScope

-----------------------------------------------------------------------------
(* Bars.  A binding carries a set of at most one: the empty set is unbounded. *)
NoBar == {}
NoDefault == -1

BarOf(rule, source, value, unit) ==
    {[kind |-> rule.kind, source |-> source, flagged |-> source # "config", value |-> value,
      unit |-> unit, dir |-> rule.dir, window |-> rule.window]}

DefaultBar(rule) ==
    BarOf(rule, "default", rule.default, IF rule.kind = "rate-of-change" THEN "count" ELSE "ratio")

(* No declared limit, no crossable bar: unbounded, never a made-up value.    *)
ConfigBar(rule, declared, unit) ==
    IF declared = 0 THEN NoBar ELSE BarOf(rule, "config", declared * rule.factor, unit)

ReadContainerPath(path, c) ==
    CASE path = "limits.memory" -> <<c.memory, "bytes">>
      [] path = "limits.cpu"    -> <<c.cpu, "millicores">>
      [] OTHER                  -> <<0, "">>

(* Throttling needs a CPU limit, and so on: out of scope, not unbounded.     *)
EligibilityMet(path, c) ==
    /\ path = "limits.cpu" => c.cpu # 0
    /\ path = "limits.memory" => c.memory # 0

BindingOf(rule, scope, cei, role, container, state, bar) ==
    [rule |-> rule.id, metric |-> rule.metric, entity |-> scope, cei |-> cei, role |-> role,
     container |-> container, state |-> state, bar |-> bar, validation |-> "suspect"]

ContainerBar(rule, c) ==
    CASE rule.kind = "config-relative" ->
             LET read == ReadContainerPath(rule.path, c) IN ConfigBar(rule, read[1], read[2])
      [] rule.kind \in {"absolute", "rate-of-change"} -> DefaultBar(rule)
      [] OTHER -> NoBar

(* One binding for each declared container, or one unresolved binding for a  *)
(* pod whose row the snapshot of the configuration does not have.            *)
BindContainers(rule, pod, cfg) ==
    IF pod.name \notin DOMAIN cfg.pods
    THEN {BindingOf(rule, "Container", pod.cei, pod.role, "", "unresolved", NoBar)}
    ELSE LET cs == cfg.pods[pod.name]
         IN  {IF EligibilityMet(rule.eligible, cs[c])
              THEN BindingOf(rule, "Container", pod.cei, pod.role, c, "bound", ContainerBar(rule, cs[c]))
              ELSE BindingOf(rule, "Container", pod.cei, pod.role, c, "out-of-scope", NoBar) :
                 c \in DOMAIN cs}

Declared(rows, name) == IF name \in DOMAIN rows THEN rows[name] ELSE 0

(* A node rule reads allocatable memory, whatever path the rule names.       *)
BindNode(rule, node, cfg) ==
    LET bar == CASE rule.kind = "config-relative" -> ConfigBar(rule, Declared(cfg.nodes, node.name), "bytes")
                 [] rule.kind \in {"absolute", "rate-of-change"} -> DefaultBar(rule)
                 [] OTHER -> NoBar
    IN  BindingOf(rule, "Node", node.cei, "", "", "bound", bar)

(* A claim takes the default of every rule that is not config-relative.      *)
BindPVC(rule, pvc, cfg) ==
    LET bar == IF rule.kind = "config-relative" THEN ConfigBar(rule, Declared(cfg.pvcs, pvc), "bytes")
               ELSE DefaultBar(rule)
    IN  BindingOf(rule, "PVC", pvc, "", "", "bound", bar)

OfKind(inv, kind) == {r \in inv : r.kind = kind}

(* The pairs an unobtainable rule would have: recorded, never absent.        *)
BindAllOutOfScope(rule, inv, cfg) ==
    LET Out(cei, role) == BindingOf(rule, rule.scope, cei, role, "", "out-of-scope", NoBar)
    IN  CASE rule.scope = "Container" -> {Out(r.cei, r.role) : r \in OfKind(inv, "Pod")}
          [] rule.scope = "Node"      -> {Out(r.cei, "") : r \in OfKind(inv, "Node")}
          [] rule.scope = "PVC"       -> {Out(p, "") : p \in DOMAIN cfg.pvcs}
          [] OTHER                    -> {}

SlipForgetsUnobtainable(rule, inv, cfg, avail) ==
    CASE Unobtainable(rule, avail)      -> {}
      [] rule.scope = "Container" -> UNION {BindContainers(rule, r, cfg) : r \in OfKind(inv, "Pod")}
      [] rule.scope = "Node"      -> {BindNode(rule, r, cfg) : r \in OfKind(inv, "Node")}
      [] rule.scope = "PVC"       -> {BindPVC(rule, p, cfg) : p \in DOMAIN cfg.pvcs}
      [] OTHER                    -> {}

(* What one rule binds.  No rule of the Pod scope binds anything.            *)
Instantiate(rule, inv, cfg, avail) ==
    CASE Unobtainable(rule, avail) -> BindAllOutOfScope(rule, inv, cfg)
      [] ~Unobtainable(rule, avail) /\ rule.scope = "Container" ->
             UNION {BindContainers(rule, r, cfg) : r \in OfKind(inv, "Pod")}
      [] ~Unobtainable(rule, avail) /\ rule.scope = "Node" ->
             {BindNode(rule, r, cfg) : r \in OfKind(inv, "Node")}
      [] ~Unobtainable(rule, avail) /\ rule.scope = "PVC" ->
             {BindPVC(rule, p, cfg) : p \in DOMAIN cfg.pvcs}
      [] OTHER -> {}

Compile(g, inv, cfg, avail) ==
    UNION {Instantiate(g.rules[r], inv, cfg, avail) : r \in DOMAIN g.rules}

(* defaultBar follows the rule's default, which only absolute and rate rules *)
(* must have: for a co-occurrence rule over claims it is a nil pointer.      *)
CompilePanics(g, cfg, avail) ==
    \E r \in DOMAIN g.rules :
        LET rule == g.rules[r] IN
        /\ rule.scope = "PVC" /\ rule.kind # "config-relative" /\ rule.default = NoDefault
        /\ DOMAIN cfg.pvcs # {} /\ ~Unobtainable(rule, avail)

Bound(bs) == {b \in bs : b.state = "bound"}
Unbounded(bs) == {b \in Bound(bs) : b.bar = NoBar}

(* finalize: the durable role aggregates its members, churn aside.           *)
SlipByInstance(b) == [role |-> b.cei, rule |-> b.rule, container |-> b.container]

RoleKey(b) == [role |-> b.role, rule |-> b.rule, container |-> b.container]

Roles(bs) ==
    LET members == {b \in Bound(bs) : b.role # ""}
        Of(k) == {b \in members : RoleKey(b) = k}
    IN  [k \in {RoleKey(b) : b \in members} |->
            [members |-> Cardinality(Of(k)), unbounded |-> Cardinality(Unbounded(Of(k)))]]

-----------------------------------------------------------------------------
(* Semantic validation of a bound pair against the streams that were seen:   *)
(* ev maps <<cei, container, metric>> to a set of [kind, type, history],     *)
(* histories oldest first, of [at, value].                                   *)

(* Claims have no channel yet.                                               *)
StreamsFor(b, metric, ev) ==
    IF b.entity # "PVC" /\ <<b.cei, b.container, metric>> \in DOMAIN ev
    THEN ev[b.cei, b.container, metric] ELSE {}

Recent(s) == SubSeq(s.history, Max({1, Len(s.history) - EvidenceWindow + 1}), Len(s.history))

Decreases(h) == Cardinality({i \in 2..Len(h) : h[i].value < h[i - 1].value})

CharacterMismatch(b, s) ==
    \/ b.metric \in Cumulative /\ s.type = "gauge"
    \/ b.metric \notin Cumulative /\ s.type = "counter"
    \/ (s.type = "counter" \/ b.metric \in Cumulative) /\ Decreases(Recent(s)) > 1

HasUnit(b, unit) == \E bar \in b.bar : bar.unit = unit

(* What is checked is what is evaluated: of a derived quantity only the sign *)
(* here, of a counter under a ratio bar its rate.                            *)
OutOfRange(b, divisor, s, maxMemory) ==
    LET h == Recent(s)
        derived == divisor # ""
        rated == ~derived /\ s.type = "counter"
        TooLarge(v) == \/ HasUnit(b, "bytes") /\ v > maxMemory
                       \/ HasUnit(b, "ratio") /\ ~rated /\ v > MaxRatio
    IN  \/ \E i \in DOMAIN h : h[i].value < 0 \/ (~derived /\ TooLarge(h[i].value))
        \/ /\ rated /\ HasUnit(b, "ratio") /\ Len(h) >= 2
           /\ LET first == h[1] last == h[Len(h)] IN
              /\ last.at > first.at
              /\ last.value - first.value > MaxRatio * (last.at - first.at)

(* The verdict on numerator over divisor, of their latest values.            *)
DerivedVerdict(b, divisor, s, ev) ==
    LET div == StreamsFor(b, divisor, ev)
        h == Recent(s)
        d == Recent(CHOOSE x \in div : TRUE)
    IN  CASE divisor = "" -> "pass"
          [] divisor # "" /\ Cardinality(div) # 1 -> "suspect"
          [] divisor # "" /\ Cardinality(div) = 1 ->
                 IF h = <<>> \/ d = <<>> THEN "pass"
                 ELSE IF Last(d).value < 0 \/ (Last(d).value > 0 /\ Last(h).value > MaxRatio * Last(d).value)
                 THEN "failed" ELSE "pass"

(* The first check that has something to say decides.                        *)
ValidateOne(b, rule, avail, ev, maxMemory) ==
    LET streams == StreamsFor(b, b.metric, ev)
        s == CHOOSE x \in streams : TRUE
        d == DerivedVerdict(b, rule.divisor, s, ev)
        gated == rule.signal \in DOMAIN avail /\ avail[rule.signal].gates # {}
    IN  IF streams = {} THEN "suspect"
        ELSE IF Cardinality(streams) > 1 \/ s.kind # b.entity \/ CharacterMismatch(b, s)
                \/ OutOfRange(b, rule.divisor, s, maxMemory) THEN "failed"
        ELSE IF d # "pass" THEN d
        ELSE IF Len(Recent(s)) < 2 \/ gated THEN "suspect" ELSE "verified"

MaxMemory(cfg) == 2 * Max({0} \cup {cfg.nodes[n] : n \in DOMAIN cfg.nodes})

(* No node, no envelope of its own: the fallback is generous.                *)
Plausible(cfg, fallback) == IF MaxMemory(cfg) = 0 THEN fallback ELSE MaxMemory(cfg)

ValidateBindings(g, bs, avail, ev, maxMemory) ==
    {IF b.state = "bound"
     THEN [b EXCEPT !.validation = ValidateOne(b, g.rules[b.rule], avail, ev, maxMemory)]
     ELSE b : b \in bs}

-----------------------------------------------------------------------------
(* A phenomenon is as observable as its required members; a member that is   *)
(* no signal is indeterminate, and no required member is none.               *)
Observability(p, avail) ==
    LET required == {m \in p.members : m.role = "required"}
        Is(m, state) == m.signal \in DOMAIN avail /\ avail[m.signal].state = state
    IN  CASE required # {} /\ (\A m \in required : Is(m, Obtainable)) -> "full"
          [] (\E m \in required : Is(m, Obtainable)) /\ (\E m \in required : ~Is(m, Obtainable)) -> "partial"
          [] OTHER -> "none"

PhenomenonObservability(g, avail) == [id \in DOMAIN g.phenomena |-> Observability(g.phenomena[id], avail)]
=============================================================================
