------------------------------- MODULE Overlay -------------------------------
(* The ontology as it is loaded: the knowledge graph of internal/graph, the  *)
(* authored overlays merged into it, and the independent copy of the same    *)
(* rules that tools/graphlint applies before a merge.  Operators only.       *)
(*                                                                           *)
(* A file is [nodes: set of [id, type, data], edges: set of [type, src, dst, *)
(* srcType, dstType, role, early], stats: declared totals].  An overlay is   *)
(* [name, author, spans, rules, anchors, checks]: rules is a sequence,       *)
(* checks maps a phenomenon to a sequence.  "" is a field left out.          *)
EXTENDS Integers, Sequences, FiniteSets, SequencesExt, Functions

SimpleTypes == {"Entity", "Tool", "Modality", "CapabilityPrereq", "DistroVersionGate", "Agent"}
NodeTypes == {"Signal", "CorrelationGroup", "EquivalenceGroup", "Gotcha"} \cup SimpleTypes

OfType(file, types) == {n \in file.nodes : n.type \in types}
IdsOf(file, types) == {n.id : n \in OfType(file, types)}
Data(file, id, type) == (CHOOSE n \in file.nodes : n.id = id /\ n.type = type).data

(* participates_in, read at the phenomenon it points to; phenomenon_relation *)
(* at the one it leaves.  An edge to an unknown phenomenon is left to lint.  *)
MembersOf(file, id) ==
    {[signal |-> e.src, role |-> e.role, early |-> e.early] :
        e \in {x \in file.edges : x.type = "participates_in" /\ x.dst = id}}
RelationsOf(file, id) ==
    {[target |-> e.dst, role |-> e.role, early |-> e.early] :
        e \in {x \in file.edges : x.type = "phenomenon_relation" /\ x.src = id}}

(* A truncated file is caught by its own totals, where it declares them.     *)
StatsAgree(file) ==
    LET parsed == [nodes_total |-> Cardinality(file.nodes), edges_total |-> Cardinality(file.edges),
                   signals |-> Cardinality(OfType(file, {"Signal"}))]
    IN  \A key \in DOMAIN parsed \cap DOMAIN file.stats : file.stats[key] = parsed[key]

Parses(file) ==
    /\ \A n \in file.nodes : n.id # "" /\ n.type \in NodeTypes
    /\ StatsAgree(file)

Parse(file) ==
    LET Phenomenon(id) ==
            LET d == Data(file, id, "CorrelationGroup")
            IN  [members |-> MembersOf(file, id), relations |-> RelationsOf(file, id), checks |-> {},
                 span |-> d.span, walks |-> d.walks, anchor |-> "", prose |-> d.prose]
    IN  [signals   |-> [id \in IdsOf(file, {"Signal"}) |-> Data(file, id, "Signal")],
         phenomena |-> [id \in IdsOf(file, {"CorrelationGroup"}) |-> Phenomenon(id)],
         groups    |-> [id \in IdsOf(file, {"EquivalenceGroup"}) |-> Data(file, id, "EquivalenceGroup")],
         gates     |-> [id \in IdsOf(file, {"DistroVersionGate"}) |-> Data(file, id, "DistroVersionGate")],
         tools     |-> IdsOf(file, {"Tool"}),
         simple    |-> {<<n.type, n.id>> : n \in OfType(file, SimpleTypes \cup {"Gotcha"})},
         rules     |-> [id \in {} |-> 0]]

-----------------------------------------------------------------------------
(* The authored vocabulary.                                                  *)
Spans      == {"entity-local", "first-order", "second-order"}
EdgeTypes  == {"runs-on", "mounts", "selects", "node-lease"}
Scopes     == {"Container", "Pod", "Node", "PVC"}
Directions == {"above", "below"}
Paths      == {"limits.memory", "limits.cpu", "requests.storage", "allocatable.memory"}
Facets     == {"level", "slope", "ratio", "rate-guard"}
Expects    == {"rising", "falling", "crossed", "at-or-above", "breached"}
MinStates  == {"", "at-threshold", "above", "well-above"}
Sites      == {"", "anchor", "neighbour", "two-hop"}
BadWindow  == "unparseable"
NoDefaultBar == -1

IsSpanned(span) == span \notin {"", "entity-local"}

(* Where a check is evaluated, against the span its phenomenon has; walks    *)
(* follow only declared edges, and the place of evaluation is never inferred. *)
CoherentSite(span, anchor, sites) ==
    /\ anchor # "" => IsSpanned(span)
    /\ sites \cap {"neighbour", "two-hop"} # {} => IsSpanned(span)
    /\ "two-hop" \in sites => span = "second-order"
    /\ IsSpanned(span) /\ sites # {} => anchor # ""

-----------------------------------------------------------------------------
(* The loader: one overlay after the other, the first error ends it.         *)
SpanFits(p, d) ==
    /\ d.span \in Spans
    /\ d.walks \subseteq EdgeTypes
    /\ (d.span = "entity-local") <=> (d.walks = {})
    /\ d.rationale # ""
    /\ p.span \in {"", d.span}

SpansFit(g, doc) ==
    \A id \in DOMAIN doc.spans : id \in DOMAIN g.phenomena /\ SpanFits(g.phenomena[id], doc.spans[id])

KindFits(r) ==
    \/ r.kind = "config-relative" /\ r.path \in Paths /\ r.factor > 0
    \/ r.kind \in {"absolute", "rate-of-change"} /\ r.default # NoDefaultBar /\ r.path = ""
    \/ r.kind = "co-occurrence"

RuleFits(g, r) ==
    /\ r.id # "" /\ r.id \notin DOMAIN g.rules
    /\ r.signal \in DOMAIN g.signals /\ r.metric # ""
    /\ r.scope \in Scopes /\ r.dir \in Directions /\ r.window # BadWindow
    /\ r.eligible \in Paths \cup {""}
    /\ KindFits(r)

(* A rule is attached before the next one is looked at.                      *)
RulesFit(g, doc) ==
    \A i \in DOMAIN doc.rules :
        /\ RuleFits(g, doc.rules[i])
        /\ \A j \in 1..(i - 1) : doc.rules[j].id # doc.rules[i].id

AnchorsFit(g, doc) ==
    \A id \in DOMAIN doc.anchors :
        /\ id \in DOMAIN g.phenomena
        /\ doc.anchors[id] \in Scopes
        /\ g.phenomena[id].anchor \in {"", doc.anchors[id]}

(* A check binds a member that was declared, and one check a member.         *)
CheckFits(g, id, c) ==
    /\ c.signal \in DOMAIN g.signals /\ c.metric # ""
    /\ c.facet \in Facets /\ c.expect \in Expects /\ c.min \in MinStates
    /\ c.min # "" => c.facet = "slope"
    /\ c.on \in Sites
    /\ \E m \in g.phenomena[id].members : m.signal = c.signal

SignalsOf(checks) == {checks[i].signal : i \in DOMAIN checks}
NoDuplicates(checks) == Cardinality(SignalsOf(checks)) = Len(checks)

ChecksFit(g, doc) ==
    \A id \in DOMAIN doc.checks :
        /\ id \in DOMAIN g.phenomena
        /\ \A i \in DOMAIN doc.checks[id] : CheckFits(g, id, doc.checks[id][i])
        /\ NoDuplicates(doc.checks[id])
        /\ SignalsOf(doc.checks[id]) \cap {c.signal : c \in g.phenomena[id].checks} = {}

Applies(g, doc) ==
    /\ doc.name # "" /\ doc.author # ""
    /\ SpansFit(g, doc) /\ RulesFit(g, doc) /\ AnchorsFit(g, doc) /\ ChecksFit(g, doc)

Apply(g, doc) ==
    LET Given(f, id, kept) == IF id \in DOMAIN f THEN f[id] ELSE kept
        Edited(id, p) ==
            LET d == Given(doc.spans, id, p)
                checks == Given(doc.checks, id, <<>>)
            IN  [p EXCEPT !.span = d.span, !.walks = d.walks,
                          !.anchor = Given(doc.anchors, id, p.anchor),
                          !.checks = @ \cup {checks[i] : i \in DOMAIN checks}]
        new == {doc.rules[i] : i \in DOMAIN doc.rules}
        ids == {r.id : r \in new}
    IN  [g EXCEPT !.phenomena = [id \in DOMAIN g.phenomena |-> Edited(id, g.phenomena[id])],
                  !.rules = [id \in DOMAIN g.rules \cup ids |->
                                IF id \in ids THEN CHOOSE r \in new : r.id = id ELSE g.rules[id]]]

(* What crosses the files is looked at when all of them are merged.          *)
Finalizes(g) ==
    \A id \in DOMAIN g.phenomena :
        LET p == g.phenomena[id]
        IN  CoherentSite(p.span, p.anchor, {c.on : c \in p.checks})

NotLoaded == [ok |-> FALSE]
Loaded(g) == [ok |-> TRUE, graph |-> g]

Merge(acc, doc) == IF acc.ok /\ Applies(acc.graph, doc) THEN Loaded(Apply(acc.graph, doc)) ELSE NotLoaded

Merged(file, docs) ==
    LET upTo[n \in 0..Len(docs)] == IF n = 0 THEN Loaded(Parse(file)) ELSE Merge(upTo[n - 1], docs[n])
    IN  upTo

LoadWithOverlayPaths(file, docs) ==
    LET last == Merged(file, docs)[Len(docs)]
    IN  IF ~Parses(file) THEN NotLoaded
        ELSE IF docs = <<>> THEN Loaded(Parse(file))
        ELSE IF last.ok /\ Finalizes(last.graph) THEN last ELSE NotLoaded

(* The pin hashes the base and then each overlay, in the order of the merge: *)
(* the contents and their order, not the names of the files.                 *)
ContentHash(file, docs) == <<file>> \o docs

-----------------------------------------------------------------------------
(* graphlint: all overlays at once, over the file and not the loaded graph.  *)
HasType(file, id, type) == \E n \in file.nodes : n.id = id /\ n.type = type

AllRules(docs) == FlattenSeq([i \in DOMAIN docs |-> docs[i].rules])
DeclaredSpans(docs, id) == {docs[i].spans[id].span : i \in {j \in DOMAIN docs : id \in DOMAIN docs[j].spans}}
DeclaredAnchors(docs, id) == {docs[i].anchors[id] : i \in {j \in DOMAIN docs : id \in DOMAIN docs[j].anchors}}
AllChecks(docs, id) ==
    FlattenSeq([i \in DOMAIN docs |-> IF id \in DOMAIN docs[i].checks THEN docs[i].checks[id] ELSE <<>>])
Named(docs) == UNION {DOMAIN docs[i].spans \cup DOMAIN docs[i].anchors \cup DOMAIN docs[i].checks : i \in DOMAIN docs}

RuleLints(file, rules) ==
    \A i \in DOMAIN rules :
        LET r == rules[i] IN
        /\ r.id # "" /\ (\A j \in 1..(i - 1) : rules[j].id # r.id)
        /\ HasType(file, r.signal, "Signal") /\ r.metric # ""
        /\ r.scope \in Scopes /\ r.dir \in Directions /\ r.window # BadWindow
        /\ r.eligible \in Paths \cup {""}
        /\ r.kind \in {"config-relative", "absolute", "rate-of-change", "co-occurrence"}
        /\ r.kind = "config-relative" => r.path \in Paths /\ r.factor > 0
        /\ r.kind \in {"absolute", "rate-of-change"} => r.default # NoDefaultBar /\ r.path = ""

SpanLints(doc) ==
    \A id \in DOMAIN doc.spans :
        LET d == doc.spans[id] IN
        /\ d.span \in Spans /\ d.walks \subseteq EdgeTypes /\ d.rationale # ""
        /\ IF d.span = "entity-local" THEN d.walks = {} ELSE d.walks # {}

CheckLints(file, id, checks) ==
    /\ \A i \in DOMAIN checks :
           LET c == checks[i] IN
           /\ HasType(file, c.signal, "Signal") /\ c.metric # ""
           /\ \E e \in file.edges : e.type = "participates_in" /\ e.src = c.signal /\ e.dst = id
           /\ c.facet \in Facets /\ c.expect \in Expects /\ c.on \in Sites
           /\ c.min \in MinStates /\ (c.min = "" \/ c.facet = "slope")
    /\ NoDuplicates(checks)

SlipOwnFileOnly(docs, id) ==
    \A i \in DOMAIN docs :
        CoherentSite(IF id \in DOMAIN docs[i].spans THEN docs[i].spans[id].span ELSE "",
                     IF id \in DOMAIN docs[i].anchors THEN docs[i].anchors[id] ELSE "",
                     IF id \in DOMAIN docs[i].checks
                     THEN {docs[i].checks[id][k].on : k \in DOMAIN docs[i].checks[id]} ELSE {})

(* Span, anchor and checks may each come from another file; no span declared *)
(* in the base is looked at.                                                 *)
CoherenceLints(docs, id) ==
    \A span \in IF DeclaredSpans(docs, id) = {} THEN {""} ELSE DeclaredSpans(docs, id) :
        \A anchor \in IF DeclaredAnchors(docs, id) = {} THEN {""} ELSE DeclaredAnchors(docs, id) :
            LET checks == AllChecks(docs, id)
            IN  CoherentSite(span, anchor, {checks[i].on : i \in DOMAIN checks})

LintsClean(file, docs) ==
    /\ \A i \in DOMAIN docs : docs[i].name # "" /\ docs[i].author # "" /\ SpanLints(docs[i])
    /\ RuleLints(file, AllRules(docs))
    /\ \A id \in Named(docs) :
           /\ HasType(file, id, "CorrelationGroup")
           /\ Cardinality(DeclaredSpans(docs, id)) =< 1 /\ Cardinality(DeclaredAnchors(docs, id)) =< 1
           /\ DeclaredAnchors(docs, id) \subseteq Scopes
           /\ CheckLints(file, id, AllChecks(docs, id))
           /\ CoherenceLints(docs, id)

(* Every end of an edge is a node of the type the edge declares for it; an   *)
(* owned_by_agent edge is only warned about.                                 *)
EndLints(file, id, declared) == \E n \in file.nodes : n.id = id /\ declared \in {"", n.type}

EdgesLint(file) ==
    \A e \in {x \in file.edges : x.type # "owned_by_agent"} :
        EndLints(file, e.src, e.srcType) /\ EndLints(file, e.dst, e.dstType)

(* What strict lint wants of the merge: every phenomenon has a span, and no  *)
(* warning is left.                                                          *)
SpanGaps(file, docs) ==
    {id \in IdsOf(file, {"CorrelationGroup"}) :
        Data(file, id, "CorrelationGroup").span = "" /\ DeclaredSpans(docs, id) = {}}

LintsStrictly(file, docs) ==
    /\ EdgesLint(file) /\ LintsClean(file, docs) /\ SpanGaps(file, docs) = {}
    /\ \A e \in {x \in file.edges : x.type = "owned_by_agent"} :
           EndLints(file, e.src, e.srcType) /\ EndLints(file, e.dst, e.dstType)
=============================================================================
