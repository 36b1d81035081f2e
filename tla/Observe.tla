------------------------------ MODULE Observe ------------------------------
(* From a scrape to a fingerprint (observe/scrape.go and its callers): a pod *)
(* and its node are scraped, rows are joined to entities by the normalizer   *)
(* and kept in rings, and bound variables are evaluated over the rings.  The *)
(* identity store is taken to know who held the pod's name at every instant  *)
(* (module IdentityWatch says when it does).                                 *)
EXTENDS Fingerprint, Normalize, TLC

CONSTANTS
    Runtime,     \* incarnation -> container runtime of the node it runs on
    Levels,      \* what the container's gauge may read
    Lags,        \* how old the collection a scrape reads may be
    Bindings,    \* the bound variables
    Types,       \* metric -> exposition type
    HotCapacity,
    MaxLag, MaxTime, MaxWork, MaxRestarts, MaxIncarnations, MaxShifts   \* bounds

ASSUME ObserveAssumption ==
    /\ MaxIncarnations \in Nat \ {0}
    /\ \A uid \in 1..MaxIncarnations : Runtime[uid] \in {"containerd", "dockershim"}
    /\ Levels \subseteq Nat /\ MaxLag \in Nat /\ Lags \subseteq 0..MaxLag /\ HotCapacity \in Nat \ {0}

(* A cycle an instant: what EvalRate is given reaches over its window.       *)
ASSUME WindowAssumption == RateWindow < RingWindowN

(* What the container counts: what happens to it, and the periods it lives   *)
(* through.                                                                  *)
Counter == {"counter", "periods"}

(* Families served as several rows of one entity, told apart by a further    *)
(* label: failure_type here; interface or device, elsewhere.                 *)
Labelled == {"failures"}

(* Bars are quantities, and a guard's bar asks for something to happen.      *)
ASSUME BindingAssumption ==
    /\ \A b \in Bindings :
          /\ b.bar.value \in Nat \X (Nat \ {0}) /\ (b.kind = "rate-of-change" => b.bar.value[1] > 0)
          /\ b.metric \in DOMAIN Types /\ (IsRatio(b) => b.divisor \in DOMAIN Types)
    /\ \A m \in DOMAIN Types : Types[m] = "counter" => m \in Counter \cup Labelled

VARIABLES
    instant,
    past,      \* the pod at the last instants, the present one last
    shifts,    \* how often the gauge moved
    scraped,   \* whether this instant's cycle has run
    rings      \* the hot store: stream -> samples in order of arrival

observeVars == <<instant, past, shifts, scraped, rings>>

(* The pod: which incarnation of its name (uid 0 is the node), what its      *)
(* counters read, how much of each really happened, how often the container  *)
(* restarted, and the gauge.                                                 *)
Pod(uid, count, total, restarts, level) ==
    [uid |-> uid, count |-> count, total |-> total, restarts |-> restarts, level |-> level]

Zero == [m \in Counter |-> 0]
OneMore(counts, happening) == [m \in Counter |-> IF m \in happening THEN counts[m] + 1 ELSE counts[m]]

Present == Last(past)
At(t) == past[Len(past) - (instant - t)]
Recent == (instant - Len(past) + 1)..instant

ObserveInit ==
    /\ instant = 0 /\ shifts = 0 /\ scraped = FALSE
    /\ \E level \in Levels : past = <<Pod(1, Zero, Zero, 0, level)>>
    /\ rings = <<>>

-----------------------------------------------------------------------------
(* The pod lives on, a period passing; every instant has its cycle, which    *)
(* may bring nothing.                                                        *)
Kept == IF Len(past) > MaxLag THEN Tail(past) ELSE past

Becomes(pod) ==
    /\ scraped /\ scraped' = FALSE
    /\ instant < MaxTime /\ instant' = instant + 1
    /\ past' = Append(Kept, pod)
    /\ UNCHANGED rings

LivesOn(happening, level) ==
    Becomes(Pod(Present.uid, OneMore(Present.count, happening), OneMore(Present.total, happening),
                Present.restarts, level))

Idle == LivesOn({"periods"}, Present.level) /\ UNCHANGED shifts

Work == Present.total["counter"] < MaxWork /\ LivesOn(Counter, Present.level) /\ UNCHANGED shifts

ContainerRestart ==
    /\ Present.restarts < MaxRestarts
    /\ Becomes(Pod(Present.uid, Zero, Present.total, Present.restarts + 1, Present.level))
    /\ UNCHANGED shifts

(* Deleted and made again under its name, as a StatefulSet does.             *)
Recreate ==
    /\ Present.uid < MaxIncarnations
    /\ Becomes(Pod(Present.uid + 1, Zero, Zero, 0, Present.level))
    /\ UNCHANGED shifts

Shift ==
    /\ shifts < MaxShifts /\ shifts' = shifts + 1
    /\ \E level \in Levels \ {Present.level} : LivesOn({"periods"}, level)

-----------------------------------------------------------------------------
(* What the endpoints serve.  src says what a row is really about: whose,    *)
(* and which series of the family, where it has several.                     *)
Row(family, class, metric, labels, event, value, finite, src) ==
    [family |-> family, class |-> class, metric |-> metric, labels |-> labels, source |-> "n",
     at |-> instant, event |-> event, value |-> value, finite |-> finite, src |-> src]

PodLabels(uid, container) ==
    IF Runtime[uid] = "dockershim" THEN [namespace |-> "ns", pod_name |-> "p", container_name |-> container]
    ELSE [namespace |-> "ns", pod |-> "p", container |-> container]

SandboxLabels(uid) ==
    IF Runtime[uid] = "dockershim" THEN PodLabels(uid, "POD")
    ELSE [namespace |-> "ns", pod |-> "p", container |-> "", image |-> "pause"]

Further(labels, label, value) ==
    [l \in DOMAIN labels \cup {label} |-> IF l = label THEN value ELSE labels[l]]

(* A kubelet's collection of t, its gauge unreadable at times.               *)
CAdvisorRows(t, finite) ==
    LET pod == At(t)
        own == PodLabels(pod.uid, "c")
        R(metric, labels, value, isFinite, src) == Row("cadvisor", "other", metric, labels, {t}, value, isFinite, src)
        Of(cgroup, series, total) ==
            [cgroup |-> cgroup, series |-> series, uid |-> pod.uid, total |-> total, restarts |-> pod.restarts]
        Count(m) == R(m, own, pod.count[m], TRUE, Of("container", "", pod.total[m]))
        Failures(type, n) ==
            R("failures", Further(own, "failure_type", type), n, TRUE, Of("container", type, n)) IN
    <<Count("counter"), Count("periods"),
      Failures("pgfault", pod.count["periods"]), Failures("pgmajfault", pod.count["counter"]),
      R("gauge", SandboxLabels(pod.uid), 0, TRUE, Of("sandbox", "", 0)),
      R("gauge", own, pod.level, finite, Of("container", "", 0)),
      R("gauge", PodLabels(pod.uid, ""), pod.level, finite, Of("slice", "", 0)),
      R("gauge", [id |-> "system.slice"], 0, TRUE, Of("system", "", 0)),
      Row("cadvisor", "machine", "machine_cpu_cores", <<>>, {}, 1, TRUE, [cgroup |-> "node", series |-> "machine"])>>

NodeRows ==
    [i \in 1..2 |-> LET device == <<"sda", "sdb">>[i] IN
        Row("node-exporter", "other", "fs_avail", [device |-> device], {}, i, TRUE,
            [cgroup |-> "node", series |-> device])]

-----------------------------------------------------------------------------
(* Ingest.                                                                   *)
Lookup ==
    [pods |-> [k \in {<<"ns", "p">>} \X Recent |-> {At(k[2]).uid}],
     nodes |-> [k \in {"n"} \X Recent |-> {0}]]

Pushed(ring, sample) == Append(IF Len(ring) = HotCapacity THEN Tail(ring) ELSE ring, sample)

RingOf(store, id) == IF id \in DOMAIN store THEN store[id] ELSE <<>>

IngestRow(store, row) ==
    LET result == Identified(row, Lookup)
        id == StreamID(row, result.cei)
        sample == [at |-> JoinTime(row), value |-> row.value, src |-> row.src] IN
    IF ~ row.finite \/ result.outcome # "resolved" THEN store
    ELSE [j \in DOMAIN store \cup {id} |-> IF j = id THEN Pushed(RingOf(store, id), sample) ELSE store[j]]

(* A payload that could not be fetched or parsed is a set without rows.      *)
IngestPayloads(payloads) ==
    rings' = FoldLeft(LAMBDA store, p : FoldLeft(IngestRow, store, p), rings, payloads)

(* One cycle, whole under the store gate.                                    *)
Cycle(payloads) ==
    /\ ~ scraped /\ scraped' = TRUE
    /\ IngestPayloads(payloads)
    /\ UNCHANGED <<instant, past, shifts>>

ScrapeAll == \E lag \in Lags : instant - lag \in Recent /\ Cycle(<<CAdvisorRows(instant - lag, TRUE), NodeRows>>)
ScrapeSpoilt == Cycle(<<CAdvisorRows(instant, FALSE), NodeRows>>)
ScrapePartial == Cycle(<<<<>>, NodeRows>>)

ObserveNext ==
    \/ Idle \/ Work \/ ContainerRestart \/ Recreate \/ Shift
    \/ ScrapeAll \/ ScrapeSpoilt \/ ScrapePartial

ObserveSpec == ObserveInit /\ [][ObserveNext]_observeVars

-----------------------------------------------------------------------------
(* What a tick at this moment would materialise.                             *)
RatesNow == Rates(Bindings, rings, instant)
ThresholdsNow == Thresholds(Bindings, rings, Types, instant)

(* Readings of one entity's own metric, wherever they are.                   *)
Readings(uid, metric) ==
    UNION {Range(rings[id]) : id \in {i \in DOMAIN rings : i.cei.uid = uid /\ i.metric = metric}}
Recently(readings) == {s \in readings : instant - s.at <= RateWindow}
Happened(a, b) == b.src.total - a.src.total
Newest(readings) == {s \in readings : \A t \in readings : t.at <= s.at}
IsFresh(readings) == \E s \in readings : instant - s.at <= Watermark

(* A ring holds readings of one cgroup, and of the entity it is kept for: no *)
(* reading of a predecessor or successor, of a sandbox or of another node is *)
(* ever mixed in, however late the reading was taken in                      *)
(* (normalize.go:156-240, scrape.go:228-300).  The devices of a node keep    *)
(* rings of their own.  The rows cAdvisor tells apart by a further label do  *)
(* not: streamSubID is empty for them (scrape.go:275-278), and the series of *)
(* such a family share the one ring of their entity.                         *)
Owner(src) ==
    CASE src.cgroup = "container" -> {[kind |-> "Container", uid |-> <<src.uid, "c">>]}
      [] src.cgroup = "slice" -> {[kind |-> "Pod", uid |-> <<src.uid>>]}
      [] src.cgroup = "node" -> {[kind |-> "Node", uid |-> <<0>>]}
      [] OTHER -> {}

RingsAreUnmixed ==
    \A id \in DOMAIN rings :
        /\ \A s \in Range(rings[id]) : id.cei \in Owner(s.src)
        /\ \A s, t \in Range(rings[id]) :
              /\ s.src.cgroup = t.src.cgroup
              /\ id.metric \notin Labelled => s.src.series = t.src.series

(* A guard that is breached counted things that happened, to this very       *)
(* container, within the window.  One that is quiet had two readings close   *)
(* to each other at the end of the window, unless the window held only one   *)
(* instant; and with no gap and no restart too few things happened.          *)
GuardIsHonest(r) ==
    LET w == Recently(Readings(r.binding.uid, r.binding.metric))
        bar == r.binding.bar.value IN
    /\ r.breached => \E a, b \in w : a.at <= b.at /\ AtLeast(Whole(Happened(a, b)), bar)
    /\ ~ r.breached /\ (\E a, b \in w : a.at < b.at) =>
          /\ \E a \in w, z \in Newest(w) : a.at \in (z.at - 2 * ScrapeInterval)..(z.at - 1)
          /\ ~ r.gapBroken /\ (\A a, b \in w : a.src.restarts = b.src.restarts) =>
                \A a, b \in w : ~ AtLeast(Whole(Happened(a, b)), bar)

(* A crossing was read: a level by the newest reading there is, a rate above *)
(* its bar by two readings, a ratio of a counter and a gauge by both; and    *)
(* none is older than the watermark.  In a ratio of two counters above its   *)
(* bar something happened, and without a restart so much of the one to so    *)
(* much of the other, between the same two instants.                         *)
Beyond(q, bar) == IF bar.dir = "below" THEN AtLeast(bar.value, q) ELSE AtLeast(q, bar.value)

InCores(bar) == IF bar.unit = "millicores" THEN <<bar.value[1], 1000 * bar.value[2]>> ELSE bar.value

RatioWasCounted(w, other, bar) ==
    \E s, z \in w :
        /\ s.at <= z.at /\ (bar.value[1] > 0 => Happened(s, z) > 0)
        /\ \E c, d \in other :
              /\ s.at = c.at /\ z.at = d.at
              /\ (\A a, b \in w : a.src.restarts = b.src.restarts) =>
                    Happened(c, d) > 0 /\ AtLeast(<<Happened(s, z), Happened(c, d)>>, bar.value)

CrossingIsHonest(b) ==
    LET own == Readings(b.uid, b.metric)
        w == Recently(own)
        other == Readings(b.uid, b.divisor) IN
    /\ IsFresh(own) /\ (IsRatio(b) => IsFresh(other))
    /\ ~ IsRatio(b) /\ Types[b.metric] # "counter" => \E s \in Newest(own) : Beyond(Whole(s.value), b.bar)
    /\ ~ IsRatio(b) /\ Types[b.metric] = "counter" /\ b.bar.dir # "below" =>
          \E s, z \in w : s.at < z.at /\ AtLeast(<<Happened(s, z), z.at - s.at>>, InCores(b.bar))
    /\ IsRatio(b) /\ Types[b.metric] = "counter" /\ Types[b.divisor] # "counter" /\ b.bar.dir # "below" =>
          \E s, z \in w, d \in Newest(other) : s.at <= z.at /\ AtLeast(<<Happened(s, z), d.value>>, b.bar.value)
    /\ IsRatio(b) /\ Types[b.metric] = "counter" /\ Types[b.divisor] = "counter" /\ b.bar.dir # "below" =>
          RatioWasCounted(w, Recently(other), b.bar)

(* What a fingerprint says is loud, or says with confidence is quiet, is so  *)
(* (primitives.go:67-270, fingerprint.go:207-345, loud.go:38-65): through    *)
(* readings out of order, gaps, restarts and missing divisors; of families   *)
(* whose series keep rings of their own.                                     *)
Single(b) == b.metric \notin Labelled /\ b.divisor \notin Labelled

FingerprintTellsTheTruth ==
    /\ \A r \in RatesNow :
          Single(r.binding) /\ Types[r.binding.metric] = "counter" /\ ~ r.stale /\ ~ r.inconclusive => GuardIsHonest(r)
    /\ \A t \in Loud({}, ThresholdsNow) : Single(t.binding) => CrossingIsHonest(t.binding)
=============================================================================
