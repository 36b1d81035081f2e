----------------------------- MODULE Governance -----------------------------
(* The life of a release of the ontology: overlays are edited in the tree,   *)
(* strict lint lets a release be cut, a proposal for it is verified against  *)
(* the diff and the ledger of its gates, and a rollout takes it through the  *)
(* stages (internal/governance, cmd/govern, internal/graph/release.go).      *)
EXTENDS ChangeClass

CONSTANTS
    Nil,             \* no ledger, no review, no rollout
    Dirs,            \* the directories that hold a base, with its overlays under it
    Bases,           \* id -> the knowledge graph file
    FirstBase,       \* the one that is there at first
    Docs,            \* id -> the overlay
    Slots,           \* the number of overlay file names, in their order
    Names,           \* the names a release may be given
    Proposals,       \* what is put forward
    Ledgers,         \* the ledgers the harness wrote
    Plans,           \* the rollouts that are asked for, as [release, prior]
    StageReports,    \* what a plan measured, as [stage, signals]: any stage it names, a set of health signals
    Inventory, Configuration, Platform, Evidence,    \* the cluster that is bound under each release
    FallbackMemory,  \* the memory envelope of a cluster without nodes
    MaxEdits         \* bound: edits of the tree

AuthoredCheck == [signal : STRING, metric : STRING, facet : STRING, expect : STRING, min : STRING, on : STRING]
AuthoredRule ==
    [id : STRING, signal : STRING, metric : STRING, divisor : STRING, kind : STRING, path : STRING,
     eligible : STRING, factor : Int, default : Int, dir : STRING, scope : STRING, window : STRING,
     rationale : STRING]
GateResult == [gate : STRING, status : STRING]

ASSUME GovernanceAssumption ==
    /\ Slots \in Nat /\ MaxEdits \in Nat /\ FirstBase \in DOMAIN Bases
    /\ \A d \in DOMAIN Docs : \A id \in DOMAIN Docs[d].checks : Docs[d].checks[id] \in Seq(AuthoredCheck)
    /\ \A d \in DOMAIN Docs : Docs[d].rules \in Seq(AuthoredRule)
    /\ \A p \in Proposals : p.class \in UnknownClass..NormativeHigh
    /\ \A ledger \in Ledgers : ledger.results \in Seq(GateResult)
    /\ Plans \subseteq [release : STRING, prior : STRING]
    /\ \A rep \in StageReports : \A h \in rep.signals : {h.baseline, h.candidate, h.limit} \subseteq Int

(* An entity has one row, and no claim bears the identity of one.            *)
ASSUME InventoryAssumption ==
    \A r \in Inventory : r.cei \notin DOMAIN Configuration.pvcs /\ \A x \in Inventory : x.cei = r.cei => x = r

VARIABLES
    tree,       \* of each directory, [base, files]: files maps a slot to an overlay or Absent
    releases,   \* the committed manifests
    review,     \* what the last command was, if it verified a proposal, and its outcome
    rollout,    \* or the rollout it runs
    edits
vars == <<tree, releases, review, rollout, edits>>

Absent == "absent"
FirstRelease == ""

-----------------------------------------------------------------------------
(* Overlays merge in the order of their file names.                          *)
Nth(S, k) == CHOOSE i \in S : Cardinality({j \in S : j =< i}) = k

InOrder(files, names) ==
    LET present == {i \in names : files[i] # Absent}
    IN  [k \in 1..Cardinality(present) |-> files[Nth(present, k)]]

Pins == {ContentHash(b, s) : b \in DOMAIN Bases, s \in UNION {[1..n -> DOMAIN Docs] : n \in 0..Slots}}

DocsIn(pin) == [k \in 1..(Len(pin) - 1) |-> Docs[pin[k + 1]]]

(* What a pin stands for: content is all it hashes.                          *)
LoadedAs == [pin \in Pins |-> LoadWithOverlayPaths(Bases[pin[1]], DocsIn(pin))]

TreePin(d) == ContentHash(d.base, InOrder(d.files, 1..Slots))

(* The manifest names the files; they are read as they are now, and what     *)
(* they hash to must be what was pinned.                                     *)
SlipGlobsTheTree(t, m) ==
    IF TreePin(t[m.dir]) # m.pin THEN NotLoaded ELSE LoadedAs[TreePin(t[m.dir])]

LoadReleasePinned(t, m) ==
    LET d == t[m.dir]
        pin == ContentHash(d.base, InOrder(d.files, m.overlays))
    IN  IF (\E i \in m.overlays : d.files[i] = Absent) \/ pin # m.pin THEN NotLoaded ELSE LoadedAs[pin]

ResolveRelease(t, rs, name) ==
    IF name = FirstRelease THEN Loaded(NoGraph)
    ELSE IF name \in DOMAIN rs THEN LoadReleasePinned(t, rs[name]) ELSE NotLoaded

-----------------------------------------------------------------------------
(* The gates a class must pass: each class those of the lower ones too.      *)
RequiredGates(class) ==
    {"authoring-lints"}
    \cup (IF class >= AdditiveLow \/ class = UnknownClass THEN {"binding-qa"} ELSE {})
    \cup (IF class >= BehaviouralMedium \/ class = UnknownClass THEN {"falsification", "replay-diff"} ELSE {})
    \cup (IF class >= NormativeHigh \/ class = UnknownClass THEN {"shipped-class-backtest"} ELSE {})

(* Only the last result of a gate counts, and only if it passed.             *)
GatePassed(results, gate) ==
    \E i \in DOMAIN results :
        /\ results[i].gate = gate /\ results[i].status = "passed"
        /\ \A j \in DOMAIN results : results[j].gate = gate => j =< i

(* A ledger that states no class is not compared with any.                   *)
Unstated == NormativeHigh + 1

(* A ledger is bound to its proposal and to a class at least as wide.        *)
LedgerBlocks(ledger, p, class) ==
    /\ ledger # Nil
    /\ \/ ledger.proposal \notin {"", "(none)", p.release}
       \/ ledger.class = UnknownClass \/ ledger.class < class
       \/ \E g \in RequiredGates(class) : ~GatePassed(ledger.results, g)

SlipBlocks(p, derived, ledger) ==
    LET effective == IF p.class >= derived THEN p.class ELSE derived
    IN  \/ ~p.authored
        \/ effective >= BehaviouralMedium /\ ~p.evidence
        \/ LedgerBlocks(ledger, p, effective)

(* Over-declaring is safe; the wider of the two classes sets the gates.      *)
Blocks(p, derived, ledger) ==
    LET effective == IF p.class >= derived THEN p.class ELSE derived
    IN  \/ ~p.authored
        \/ derived # None /\ p.class < derived
        \/ effective >= BehaviouralMedium /\ ~p.evidence
        \/ LedgerBlocks(ledger, p, effective)

(* Approval is a person's: a clean run of the gates waits for one.           *)
VerdictOf(p, derived, ledger) ==
    IF Blocks(p, derived, ledger) THEN "blocked"
    ELSE IF p.review = "approve" THEN "approved" ELSE "ready-for-review"

-----------------------------------------------------------------------------
(* Health at a stage.  With no baseline the limit itself is the most.        *)
Healthy(h) ==
    CASE h.kind = "absolute-max" -> h.candidate =< h.limit
      [] h.kind = "ratio-vs-baseline" ->
             IF h.baseline =< 0 THEN h.candidate =< h.limit ELSE h.candidate =< h.baseline * h.limit
      [] OTHER -> FALSE

SlipNothingIsHealthy(signals) == \A h \in signals : Healthy(h)

(* Nothing measured is not healthy.                                          *)
EvaluateStage(signals) == signals # {} /\ \A h \in signals : Healthy(h)

NextStage == [reference |-> "canary", canary |-> "fleet"]

NewRollout(release, prior) ==
    [release |-> release, prior |-> prior, stage |-> "reference", active |-> release, back |-> FALSE,
     open |-> TRUE, history |-> <<>>]

(* One report: hold and go back, complete, or advance.  The stage that the   *)
(* report names is not compared with the stage of the rollout; what is held  *)
(* is recorded under the former, what goes on under the latter.              *)
StepRollout(r, rep) ==
    LET Recorded(at, action) == Append(r.history, [stage |-> at, action |-> action, measured |-> rep.signals])
    IN  IF r.back THEN [r EXCEPT !.open = FALSE]
        ELSE IF ~EvaluateStage(rep.signals)
        THEN [r EXCEPT !.back = TRUE, !.active = r.prior, !.open = FALSE, !.history = Recorded(rep.stage, "rolled-back")]
        ELSE IF r.stage \notin DOMAIN NextStage
        THEN [r EXCEPT !.open = FALSE, !.history = Recorded(r.stage, "completed")]
        ELSE [r EXCEPT !.stage = NextStage[r.stage], !.history = Recorded(r.stage, "advanced")]

-----------------------------------------------------------------------------
Init ==
    /\ tree = [dir \in Dirs |-> [base |-> FirstBase, files |-> [i \in 1..Slots |-> Absent]]]
    /\ releases = <<>>
    /\ review = Nil
    /\ rollout = Nil
    /\ edits = 0

Edit(t) ==
    /\ edits < MaxEdits /\ t # tree
    /\ tree' = t
    /\ edits' = edits + 1
    /\ UNCHANGED <<releases, review, rollout>>

EditOverlay(dir, i, d) == Edit([tree EXCEPT ![dir].files[i] = d])
ReplaceBase(dir, b) == Edit([tree EXCEPT ![dir].base = b])

(* A manifest pins what the tree holds, and CI refuses it unless strict lint *)
(* does; old manifests stay.                                                 *)
Cut(name, dir) ==
    LET pin == TreePin(tree[dir])
        manifest == [pin |-> pin, dir |-> dir, overlays |-> {i \in 1..Slots : tree[dir].files[i] # Absent}]
    IN  /\ name \notin DOMAIN releases
        /\ LintsStrictly(Bases[tree[dir].base], DocsIn(pin))
        /\ releases' = [n \in DOMAIN releases \cup {name} |-> IF n = name THEN manifest ELSE releases[n]]
        /\ UNCHANGED <<tree, review, rollout, edits>>

(* govern verify: both releases must load as pinned, and the class of the    *)
(* proposal must be one there is.                                            *)
Verify(p, ledger) ==
    LET from == ResolveRelease(tree, releases, p.from)
        to == ResolveRelease(tree, releases, p.release)
        derived == Classify(from.graph, to.graph)
    IN  /\ p.release # FirstRelease /\ from.ok /\ to.ok
        /\ p.class # UnknownClass
        /\ review' = [proposal |-> p, ledger |-> ledger, derived |-> derived,
                      from |-> IF p.from = FirstRelease THEN <<>> ELSE releases[p.from].pin,
                      to |-> releases[p.release].pin, verdict |-> VerdictOf(p, derived, ledger)]
        /\ rollout' = Nil
        /\ UNCHANGED <<tree, releases, edits>>

(* govern rollout runs the plan it is given: no verdict is asked for, nor    *)
(* whether the names it gives were committed, or are two.                    *)
StartRollout(plan) ==
    /\ rollout' = NewRollout(plan.release, plan.prior)
    /\ review' = Nil
    /\ UNCHANGED <<tree, releases, edits>>

(* The next stage of the plan, until a step says that there is no going on.  *)
Report(rep) ==
    /\ rollout # Nil /\ rollout.open
    /\ rollout' = StepRollout(rollout, rep)
    /\ UNCHANGED <<tree, releases, review, edits>>

Next ==
    \/ \E dir \in Dirs, i \in 1..Slots, d \in DOMAIN Docs \cup {Absent} : EditOverlay(dir, i, d)
    \/ \E dir \in Dirs, b \in DOMAIN Bases : ReplaceBase(dir, b)
    \/ \E name \in Names, dir \in Dirs : Cut(name, dir)
    \/ \E p \in Proposals, ledger \in Ledgers \cup {Nil} : Verify(p, ledger)
    \/ \E plan \in Plans : StartRollout(plan)
    \/ \E rep \in StageReports : Report(rep)

Spec == Init /\ [][Next]_vars

-----------------------------------------------------------------------------
(* One cluster, bound under a release.                                       *)
BoundUnder(g) ==
    LET avail == GateSignals(g, Platform)
        bs == ValidateBindings(g, Compile(g, Inventory, Configuration, avail), avail, Evidence,
                               Plausible(Configuration, FallbackMemory))
    IN  [bindings |-> bs, observability |-> PhenomenonObservability(g, avail), tierA |-> TierASet(bs, g)]

NothingBound == [bindings |-> {}, observability |-> <<>>, tierA |-> <<>>]

Migration(from, to) ==
    LET d == BindingDiff(from.bindings, to.bindings)
    IN  [gained |-> d.gained, lost |-> d.lost, bars |-> d.bars, validation |-> d.validation,
         observability |-> ObservabilityShift(from.observability, to.observability),
         selection |-> SelectionShift(from.tierA, to.tierA)]

BoundAs == [pin \in {x \in Pins : LoadedAs[x].ok} |-> BoundUnder(LoadedAs[pin].graph)]

BoundOf(pin) == IF pin = <<>> THEN NothingBound ELSE BoundAs[pin]
GraphOf(pin) == IF pin = <<>> THEN NoGraph ELSE LoadedAs[pin].graph

(* The same signals from the same sources: what is obtainable is compared by *)
(* no classification.                                                        *)
SameTelemetry(f, g) ==
    /\ f.tools = g.tools /\ f.gates = g.gates
    /\ \A id \in DOMAIN f.signals \cap DOMAIN g.signals :
           /\ f.signals[id].tools = g.signals[id].tools
           /\ f.signals[id].caps = g.signals[id].caps
           /\ f.signals[id].gates = g.signals[id].gates

(* A required member of a phenomenon is a signal, or another phenomenon and  *)
(* then a signal in no base.  The linter holds an edge to the types that it  *)
(* declares, but an edge may declare none: this is said of the data.         *)
RequiredMembersKeepTheirKind ==
    \A a, b \in DOMAIN Bases : \A e \in Bases[a].edges :
        /\ e.type = "participates_in" /\ e.role = "required" /\ e.dst \in IdsOf(Bases[a], {"CorrelationGroup"})
        /\ e.src \in IdsOf(Bases[b], {"Signal"})
        => e.src \in IdsOf(Bases[a], {"Signal"})

-----------------------------------------------------------------------------
(* The linter and the runtime are written twice and must agree: over a base  *)
(* that parses and leaves the spans to the overlays, lint passes exactly the *)
(* overlays that load, whichever files the span, the anchor and the checks   *)
(* of a phenomenon come from, in whichever order.                            *)
LintMirrorsLoader ==
    \A dir \in Dirs :
        LET pin == TreePin(tree[dir])
            file == Bases[tree[dir].base]
        IN  /\ Parses(file)
            /\ \A id \in IdsOf(file, {"CorrelationGroup"}) : Data(file, id, "CorrelationGroup").span = ""
            => (LintsClean(file, DocsIn(pin)) <=> LoadedAs[pin].ok)

(* A release loads as what was pinned or not at all, and one that loads goes *)
(* on loading whatever is added to the tree beside the files it names.       *)
ReleasesOutliveTheTree ==
    [][\A name \in DOMAIN releases :
          LET m == releases[name]
              now == LoadReleasePinned(tree, m)
              next == LoadReleasePinned(tree', m)
          IN  /\ next.ok => next = LoadedAs[m.pin]
              /\ /\ now.ok
                 /\ tree'[m.dir].base = tree[m.dir].base
                 /\ \A i \in m.overlays : tree'[m.dir].files[i] = tree[m.dir].files[i]
                 => next.ok]_vars

(* No upgrade changes what a cluster shows below the class that says so: an  *)
(* effect on bindings, validation, observability or Tier A is behavioural at *)
(* least, and a bar that moves under a binding that stays is normative.      *)
EffectIsClassed ==
    \A a, b \in {releases[n].pin : n \in DOMAIN releases} :
        LET d == Migration(BoundOf(a), BoundOf(b))
            class == Classify(GraphOf(a), GraphOf(b))
        IN  LoadedAs[a].ok /\ LoadedAs[b].ok /\ SameTelemetry(GraphOf(a), GraphOf(b))
            => /\ HasEffect(d) => class >= BehaviouralMedium
               /\ d.bars # {} => class = NormativeHigh

(* An approved proposal was declared as wide as it reaches: evidence for     *)
(* what changes a cluster, the normative class for a bar that moves, and in  *)
(* the ledger, where there is one, every gate of its class, of which what    *)
(* did not pass was run again.                                               *)
ApprovedWasTested ==
    review # Nil /\ review.verdict = "approved" =>
        LET p == review.proposal
            d == Migration(BoundOf(review.from), BoundOf(review.to))
            same == review.from = <<>> \/ SameTelemetry(GraphOf(review.from), GraphOf(review.to))
            Of(gate) == {i \in DOMAIN review.ledger.results : review.ledger.results[i].gate = gate}
        IN  /\ p.authored
            /\ same /\ HasEffect(d) => p.evidence
            /\ same /\ d.bars # {} => p.class = NormativeHigh
            /\ review.ledger # Nil =>
                  \A gate \in RequiredGates(review.derived) :
                      /\ Of(gate) # {}
                      /\ \A i \in Of(gate) :
                             review.ledger.results[i].status # "passed" => \E j \in Of(gate) : j > i

(* Behind every advance something was measured and nothing was out of bounds; *)
(* what is fleet-wide passed three reports, and what was held is withdrawn.  *)
RolloutIsHonest ==
    rollout # Nil =>
        LET h == rollout.history
            Within(x) == IF x.kind = "ratio-vs-baseline" /\ x.baseline > 0
                         THEN x.candidate =< x.limit * x.baseline ELSE x.candidate =< x.limit
        IN  /\ \A i \in DOMAIN h : h[i].action # "rolled-back" =>
                   h[i].measured # {} /\ \A x \in h[i].measured : Within(x)
            /\ (\E i \in DOMAIN h : h[i].action = "completed") => Len(h) = 3 /\ ~rollout.open
            /\ rollout.active = IF h # <<>> /\ Last(h).action = "rolled-back"
                                THEN rollout.prior ELSE rollout.release
            /\ \A i \in 1..(Len(h) - 1) : h[i].action = "advanced"
=============================================================================
