----------------------------- MODULE Normalize -----------------------------
(* Identity of a scraped row (identity/normalize.go, cei.go): each exporter  *)
(* family's labels become an entity, a deliberate drop or a quarantine.  The *)
(* kube-state-metrics dialect is left out, the program never fetches it.     *)
EXTENDS Integers, Sequences

(* A row names its family, metric, class of metric ("machine" for machine_*, *)
(* "other"), labels, scrape source, and two instants: at, of receipt, and    *)
(* event, its own time stamp, a set of at most one.                          *)
Label(row, k) == IF k \in DOMAIN row.labels THEN row.labels[k] ELSE ""

FirstLabel(row, k, alias) == IF Label(row, k) # "" THEN Label(row, k) ELSE Label(row, alias)

(* A slip: a late row joins whoever holds the name when it is received.      *)
SlipTimeOfReceipt(row) == row.at

(* The instant the join keys off: the row's own stamp before the receipt.    *)
JoinTime(row) == IF row.event # {} THEN CHOOSE t \in row.event : TRUE ELSE row.at

Resolved(kind, uid) == [outcome |-> "resolved", cei |-> [kind |-> kind, uid |-> uid]]
Dropped(why) == [outcome |-> "dropped", reason |-> why]
Quarantined(why) == [outcome |-> "quarantined", reason |-> why]

(* lookup: pods and nodes map a name and an instant to the uids that held it *)
(* then, a set of at most one.  A container's uid extends its pod's.         *)
Joined(uids, kind, suffix, why) ==
    IF uids = {} THEN Quarantined(why) ELSE Resolved(kind, <<CHOOSE u \in uids : TRUE>> \o suffix)

OfNode(row, lookup) == Joined(lookup.nodes[row.source, JoinTime(row)], "Node", <<>>, "unknown-node")

OfSource(row, lookup) ==
    IF row.source = "" THEN Quarantined("missing-scrape-source") ELSE OfNode(row, lookup)

(* container="" is the pod's aggregate only when no concrete container is    *)
(* behind the row.                                                           *)
IsSandbox(row) ==
    LET container == FirstLabel(row, "container", "container_name") IN
    \/ container = "POD"
    \/ container = "" /\ (Label(row, "image") # "" \/ Label(row, "name") # "")

OfCAdvisor(row, lookup) ==
    LET ns == Label(row, "namespace")
        pod == FirstLabel(row, "pod", "pod_name")
        container == FirstLabel(row, "container", "container_name")
        uids == lookup.pods[<<ns, pod>>, JoinTime(row)] IN
    CASE row.class = "machine" -> OfSource(row, lookup)
      [] row.class # "machine" /\ ns = "" /\ pod = "" -> Dropped("non-pod-cgroup")
      [] row.class # "machine" /\ (ns = "") # (pod = "") -> Quarantined("missing-identity-labels")
      [] row.class # "machine" /\ ns # "" /\ pod # "" ->
            IF uids = {} /\ container # "POD" THEN Quarantined("unknown-pod")
            ELSE IF IsSandbox(row) THEN Dropped("pause-sandbox-row")
            ELSE IF container = "" THEN Joined(uids, "Pod", <<>>, "unknown-pod")
            ELSE Joined(uids, "Container", <<container>>, "unknown-pod")

Identified(row, lookup) ==
    CASE row.family = "cadvisor" -> OfCAdvisor(row, lookup)
      [] row.family = "node-exporter" -> OfSource(row, lookup)
      [] OTHER -> Quarantined("unknown-exporter-family")

(* Minting takes no part in the join but refuses blank coordinates, which no *)
(* object of a cluster has.                                                  *)

(* Every node-exporter row joins the node: its labels tell its streams apart.*)
StreamSubID(row) == IF row.family = "node-exporter" THEN row.labels ELSE <<>>

StreamID(row, cei) == [cei |-> cei, metric |-> row.metric, sub |-> StreamSubID(row)]
=============================================================================
