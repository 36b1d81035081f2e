-------------------------------- MODULE Binder --------------------------------
(* The binder of cmd/obsd/binder.go between the cluster and the evaluation:  *)
(* the bound graph is compiled when the inventory changes and every so many  *)
(* ticks, from snapshots that can fail, and kept in between.  Every tick     *)
(* selects Tier A and the budgeted targets of Tier B from what it returns.   *)
EXTENDS Selection

CONSTANTS
    Graph,           \* the loaded release
    Inventories,     \* the active instances, as sets of [cei, name, role, kind]
    Configurations,  \* what the API server declares: [pods, nodes, pvcs]
    Platforms,       \* what GatherFacts may find
    Sightings,       \* the stream evidence a compile may find
    Topologies,      \* the edges of a tick's snapshot
    Ceiling,         \* the Tier B budget
    FallbackMemory,  \* the memory envelope without a node
    DriftTicks,      \* configDriftRebindTicks
    MaxEdits         \* bound on the changes of inventory and configuration

ASSUME BinderAssumption ==
    /\ DriftTicks \in Nat /\ MaxEdits \in Nat
    /\ \A id \in DOMAIN Graph.rules : Graph.rules[id].id = id
    /\ \A declared \in Configurations : \A p \in DOMAIN declared.pods : DOMAIN declared.pods[p] # {}

(* What module Lifecycle keeps of the active instances: one record for an    *)
(* identity, one of them alive under a name.                                 *)
ASSUME InstancesAssumption ==
    /\ \A rows \in Inventories :
           /\ IsFiniteSet(rows) /\ \A x \in rows : DOMAIN x = {"cei", "name", "role", "kind"}
           /\ \A x, y \in rows : x.cei = y.cei \/ (x.kind = y.kind /\ x.name = y.name) => x = y
    /\ \A x, y \in UNION Inventories : x.cei = y.cei => x.kind = y.kind

VARIABLES
    inv, cfg, platform,   \* the cluster
    last,         \* the kept result: a set of at most one [bindings, avail, obs]
    lastInventory,  \* the inventory it was compiled for, of which the code keeps the fingerprint
    ticksUnseen,  \* ticks that used it since
    bound,        \* what the latest tick was given: "none", "current" or "stale"
    selection,    \* the records of that tick
    targets,      \* the budgeted targets it published
    crashed,      \* the process died in a compile
    edits,        \* history: changes of the cluster so far
    compiled,     \* history: the configuration of the kept result
    behind        \* history: ticks that used the kept result although the
                  \* cluster it is of had changed, no snapshot failing

vars == <<inv, cfg, platform, last, lastInventory, ticksUnseen, bound, selection, targets, crashed,
          edits, compiled, behind>>

Empty == [pods |-> [p \in {} |-> {}], nodes |-> [n \in {} |-> 0], pvcs |-> [p \in {} |-> 0]]
NoSelection == [cei \in {} |-> "none"]

Init ==
    /\ inv \in Inventories /\ cfg \in Configurations /\ platform \in Platforms
    /\ last = {} /\ lastInventory = {} /\ ticksUnseen = 0
    /\ bound = "none" /\ selection = NoSelection /\ targets = {} /\ crashed = FALSE
    /\ edits = 0 /\ compiled = Empty /\ behind = 0

-----------------------------------------------------------------------------
(* One compile: gating, instantiation, validation, observability.  Without   *)
(* facts there is no gating and no observability for this compile.           *)
Report(g, facts) == IF facts = {} THEN NoReport ELSE GateSignals(g, CHOOSE f \in facts : TRUE)

ResultOf(facts, ev) ==
    LET avail == Report(Graph, facts)
        bs == Compile(Graph, inv, cfg, avail)
    IN  [bindings |-> ValidateBindings(Graph, bs, avail, ev, Plausible(cfg, FallbackMemory)),
         avail |-> avail,
         obs |-> IF facts = {} THEN {} ELSE {PhenomenonObservability(Graph, avail)}]

(* What two inventories are compared by: the identities of the instances,    *)
(* and nothing else of them.                                                 *)
InventoryFingerprint(rows) == {r.cei : r \in rows}

SameFingerprint(rows) == InventoryFingerprint(inv) = InventoryFingerprint(rows)

(* The tick's view of a result: Tier A, its reasons and the budget.          *)
Use(kept, rows, topo) ==
    /\ bound' = IF kept = {} THEN "none" ELSE IF SameFingerprint(rows) THEN "current" ELSE "stale"
    /\ selection' = IF kept = {} THEN selection
                    ELSE Select(inv, (CHOOSE r \in kept : TRUE).bindings, Graph, ~SameFingerprint(rows), topo)
    /\ targets' = IF kept = {} THEN targets
                  ELSE SelectTierB(EligibleTargets((CHOOSE r \in kept : TRUE).bindings, Graph), Ceiling)

SlipFreshForever == last # {} /\ SameFingerprint(lastInventory)

(* The kept result serves, unless a trigger is due.                          *)
Fresh == last # {} /\ SameFingerprint(lastInventory) /\ ticksUnseen < DriftTicks

UseCached ==
    /\ Fresh
    /\ ticksUnseen' = ticksUnseen + 1
    /\ \E topo \in Topologies : Use(last, lastInventory, topo)
    /\ behind' = IF cfg # compiled \/ inv # lastInventory THEN behind + 1 ELSE 0
    /\ UNCHANGED <<last, lastInventory, crashed, compiled>>

(* The snapshot of the configuration fails: the kept result, or none.        *)
SnapshotFails ==
    /\ ~Fresh
    /\ \E topo \in Topologies : Use(last, lastInventory, topo)
    /\ UNCHANGED <<last, lastInventory, ticksUnseen, crashed, compiled, behind>>

(* GatherFacts may fail on its own.                                          *)
Recompile ==
    /\ ~Fresh
    /\ \E facts \in {{}, {platform}}, ev \in Sightings, topo \in Topologies :
           /\ ~CompilePanics(Graph, cfg, Report(Graph, facts))
           /\ last' = {ResultOf(facts, ev)}
           /\ Use({ResultOf(facts, ev)}, inv, topo)
    /\ lastInventory' = inv /\ ticksUnseen' = 0
    /\ compiled' = cfg /\ behind' = 0
    /\ UNCHANGED crashed

(* Nothing recovers a panic of the evaluation loop: the process is gone.     *)
Crash ==
    /\ ~Fresh
    /\ \E facts \in {{}, {platform}} : CompilePanics(Graph, cfg, Report(Graph, facts))
    /\ crashed' = TRUE
    /\ UNCHANGED <<last, lastInventory, ticksUnseen, bound, selection, targets, compiled, behind>>

Tick ==
    /\ ~crashed
    /\ UseCached \/ SnapshotFails \/ Recompile \/ Crash
    /\ UNCHANGED <<inv, cfg, platform, edits>>

-----------------------------------------------------------------------------
(* The cluster changes between ticks.                                        *)
Edit ==
    /\ ~crashed /\ edits < MaxEdits /\ edits' = edits + 1
    /\ \/ inv' \in Inventories \ {inv} /\ UNCHANGED <<cfg, platform>>
       \/ cfg' \in Configurations \ {cfg} /\ UNCHANGED <<inv, platform>>
       \/ platform' \in Platforms \ {platform} /\ UNCHANGED <<inv, cfg>>
    /\ UNCHANGED <<last, lastInventory, ticksUnseen, bound, selection, targets, crashed, compiled, behind>>

(* The supervisor starts the process again.                                  *)
Restart ==
    /\ crashed' = FALSE
    /\ last' = {} /\ lastInventory' = {} /\ ticksUnseen' = 0
    /\ bound' = "none" /\ selection' = NoSelection /\ targets' = {}
    /\ compiled' = Empty /\ behind' = 0
    /\ UNCHANGED <<inv, cfg, platform, edits>>

Next == Tick \/ Edit \/ Restart

Spec == Init /\ [][Next]_vars

-----------------------------------------------------------------------------
(* The kept result is of its types: every binding is in one state, carries a *)
(* bar only when it is bound, and a bar of the default only when flagged.    *)
BinderTypeOK ==
    /\ ticksUnseen \in 0..DriftTicks /\ edits \in 0..MaxEdits /\ crashed \in BOOLEAN
    /\ last = {} => compiled = Empty /\ lastInventory = {}
    /\ \A r \in last : \A b \in r.bindings :
          /\ b.state \in {"bound", "unresolved", "out-of-scope"}
          /\ b.bar # NoBar => b.state = "bound"
          /\ \A bar \in b.bar : bar.flagged = (bar.source = "default")

(* Hidden gaps are impossible: whatever failed on the way, every pod and     *)
(* node of the inventory a result was compiled for has a binding of every    *)
(* rule of its scope, and a container without one has the reason of its pod. *)
Scoped(r, rule) == <<r.kind, rule.scope>> \in {<<"Pod", "Container">>, <<"Node", "Node">>}

EveryPairLands ==
    \A res \in last, r \in lastInventory, id \in DOMAIN Graph.rules :
        LET rows == {b \in res.bindings : b.cei = r.cei /\ b.rule = id}
        IN  Scoped(r, Graph.rules[id]) =>
                \/ \E b \in rows : b.container = "" /\ b.state # "bound"
                \/ r.kind = "Node" /\ rows # {}
                \/ r.name \in DOMAIN compiled.pods /\ {b.container : b \in rows} = DOMAIN compiled.pods[r.name]

(* The kept result is sound, whatever failed while it was made.              *)
BindingsSound == BinderTypeOK /\ EveryPairLands

(* What selection says of an entity is true of the cluster: an entity that   *)
(* some rule instruments is never called structural, however late or failed  *)
(* the compile was, and none is called stale while the graph is of its       *)
(* inventory.                                                                *)
Instrumentable(cei) ==
    \E r \in UNION Inventories, id \in DOMAIN Graph.rules : r.cei = cei /\ Scoped(r, Graph.rules[id])

SelectionIsTruthful ==
    \A cei \in DOMAIN selection :
        /\ Instrumentable(cei) => selection[cei].reason # "structural-entity"
        /\ selection[cei].reason = "bindings-stale" => bound = "stale"
        /\ selection[cei].reason = "phenomenon-member" =>
              \E r \in last, b \in {x \in UNION {r2.bindings : r2 \in last} : x.cei = cei} :
                  b.bar # NoBar /\ b.validation # "failed"

(* A role absorbs the churn of its instances: a compile after pods were only *)
(* recreated, of the same configuration and report, gives every role the     *)
(* same aggregate.                                                           *)
Nameless(rows) == {[r EXCEPT !.cei = ""] : r \in rows}

RolesAbsorbChurn ==
    [][\A old \in last, new \in last' :
           /\ Nameless(lastInventory) = Nameless(lastInventory')
           /\ compiled = compiled' /\ old.avail = new.avail
           => Roles(old.bindings) = Roles(new.bindings)]_vars

(* What changes without a new identity, a limit edited in place or the role  *)
(* of a pod corrected when its owner is known, is in force after a bounded   *)
(* number of ticks, not counting those whose snapshot failed.                *)
DriftIsBounded == behind =< DriftTicks

(* Every release the loader accepts can be bound on every cluster: the       *)
(* loader's rule validation asks no bar fields of a co-occurrence rule       *)
(* ("participation-only; no bar fields required").                           *)
LoadedRulesBind == ~crashed
=============================================================================
