----------------------------- MODULE ChangeClass -----------------------------
(* How far a change of the ontology reaches: the classification of two       *)
(* releases, and the migration diff of one cluster bound under both          *)
(* (internal/governance/changeclass.go, diff.go).  Operators only.           *)
EXTENDS Selection, Overlay

None == 0
AdditiveLow == 1
BehaviouralMedium == 2
NormativeHigh == 3
UnknownClass == -1

-----------------------------------------------------------------------------
(* One item for each element that differs, and for each field of it.         *)
Item(element, kind, op, class) == [element |-> element, kind |-> kind, op |-> op, class |-> class]

Added(from, to, kind, class) == {Item(id, kind, "added", class) : id \in DOMAIN to \ DOMAIN from}
Removed(from, to, kind, class) == {Item(id, kind, "removed", class) : id \in DOMAIN from \ DOMAIN to}
Changed(from, to, kind, reach) ==
    UNION {{Item(id, kind, "changed", reach[f]) : f \in {x \in DOMAIN reach : from[id][x] # to[id][x]}} :
              id \in DOMAIN from \cap DOMAIN to}

(* The character of a signal.  Its tools, capabilities and gates are not     *)
(* compared, though they decide what is obtainable.                          *)
SignalReach == [modality |-> BehaviouralMedium, shape |-> BehaviouralMedium]

SignalItems(from, to) ==
    Added(from, to, "Signal", AdditiveLow) \cup Removed(from, to, "Signal", BehaviouralMedium)
    \cup Changed(from, to, "Signal", SignalReach)

PhenomenonReach ==
    [span |-> BehaviouralMedium, anchor |-> BehaviouralMedium, walks |-> BehaviouralMedium,
     members |-> BehaviouralMedium, relations |-> BehaviouralMedium, prose |-> AdditiveLow]

PhenomenonItems(from, to) ==
    Added(from, to, "Phenomenon", BehaviouralMedium) \cup Removed(from, to, "Phenomenon", BehaviouralMedium)
    \cup Changed(from, to, "Phenomenon", PhenomenonReach)

(* What a bar is made of reaches everyone who relies on it; prose no one.    *)
SlipReach ==
    [default |-> NormativeHigh, factor |-> NormativeHigh, kind |-> NormativeHigh, path |-> NormativeHigh,
     signal |-> NormativeHigh, dir |-> NormativeHigh, divisor |-> NormativeHigh,
     window |-> NormativeHigh, scope |-> BehaviouralMedium, metric |-> BehaviouralMedium,
     rationale |-> AdditiveLow]

RuleReach ==
    [default |-> NormativeHigh, factor |-> NormativeHigh, kind |-> NormativeHigh, path |-> NormativeHigh,
     signal |-> NormativeHigh, eligible |-> NormativeHigh, dir |-> NormativeHigh, divisor |-> NormativeHigh,
     window |-> NormativeHigh, scope |-> BehaviouralMedium, metric |-> BehaviouralMedium,
     rationale |-> AdditiveLow]

RuleItems(from, to) ==
    Added(from, to, "ThresholdRule", BehaviouralMedium)
    \cup {Item(id, "ThresholdRule", "removed",
               IF from[id].default # NoDefault THEN NormativeHigh ELSE BehaviouralMedium) :
             id \in DOMAIN from \ DOMAIN to}
    \cup Changed(from, to, "ThresholdRule", RuleReach)

(* A check is known by its phenomenon and its signal; an edit of one is seen *)
(* on either side.                                                           *)
CheckItems(from, to) ==
    LET ChecksOf(ps, id) == IF id \in DOMAIN ps THEN ps[id].checks ELSE {}
        OpOf(c, other) == IF \E x \in other : x.signal = c.signal THEN "changed" ELSE "removed"
    IN  UNION {{Item(id, "DetectionCheck", OpOf(c, ChecksOf(to, id)), BehaviouralMedium) :
                    c \in ChecksOf(from, id) \ ChecksOf(to, id)}
               \cup {Item(id, "DetectionCheck", "added", BehaviouralMedium) :
                    c \in {x \in ChecksOf(to, id) : \A y \in ChecksOf(from, id) : y.signal # x.signal}} :
                  id \in DOMAIN from \cup DOMAIN to}

(* A new variant is new; a variant withdrawn or another canonical name       *)
(* redefines every binding through the group.                                *)
GroupItems(from, to) ==
    LET both == DOMAIN from \cap DOMAIN to
        Edits(id) ==
            {Item(id, "EquivalenceGroup", "changed", NormativeHigh) : x \in from[id].patterns \ to[id].patterns}
            \cup {Item(id, "EquivalenceGroup", "changed", AdditiveLow) : x \in to[id].patterns \ from[id].patterns}
            \cup {Item(id, "EquivalenceGroup", "changed", NormativeHigh) :
                     x \in {from[id].canonical} \ {to[id].canonical}}
    IN  Added(from, to, "EquivalenceGroup", AdditiveLow)
        \cup Removed(from, to, "EquivalenceGroup", NormativeHigh)
        \cup UNION {Edits(id) : id \in both}

SimpleItems(from, to) ==
    {Item(n[2], n[1], "added", AdditiveLow) : n \in to \ from}
    \cup {Item(n[2], n[1], "removed", BehaviouralMedium) : n \in from \ to}

(* Nothing came before the first release.                                    *)
NoGraph ==
    [signals |-> <<>>, phenomena |-> <<>>, groups |-> <<>>, gates |-> <<>>, tools |-> {}, simple |-> {},
     rules |-> <<>>]

Items(from, to) ==
    SignalItems(from.signals, to.signals) \cup PhenomenonItems(from.phenomena, to.phenomena)
    \cup RuleItems(from.rules, to.rules) \cup CheckItems(from.phenomena, to.phenomena)
    \cup GroupItems(from.groups, to.groups) \cup SimpleItems(from.simple, to.simple)

(* The widest-reaching change sets the class.                                *)
Classify(from, to) == Max({None} \cup {it.class : it \in Items(from, to)})

-----------------------------------------------------------------------------
(* The migration diff: the same inventory and configuration, two releases.   *)
BindingKey(b) == <<b.cei, b.container, b.rule, b.metric>>

(* A window or a divisor that changed is not seen here.                      *)
BarMoved(a, b) ==
    \/ (a = NoBar) # (b = NoBar)
    \/ \E x \in a, y \in b : x.value # y.value \/ x.source # y.source \/ x.flagged # y.flagged \/ x.dir # y.dir

BarChange(key, a, b) ==
    [key |-> key, from |-> {bar.source : bar \in a}, to |-> {bar.source : bar \in b}]

BindingDiff(from, to) ==
    LET kept == {pair \in from \X to : BindingKey(pair[1]) = BindingKey(pair[2])}
        keys == {BindingKey(b) : b \in from}
    IN  [gained |-> {BindingKey(b) : b \in to} \ keys,
         lost |-> keys \ {BindingKey(b) : b \in to},
         bars |-> {BarChange(BindingKey(p[1]), p[1].bar, p[2].bar) : p \in {k \in kept : BarMoved(k[1].bar, k[2].bar)}},
         validation |-> {BindingKey(p[1]) : p \in {k \in kept : k[1].validation # k[2].validation}}]

(* A phenomenon that appears or goes shifts from or to absent.               *)
ObservabilityShift(from, to) ==
    LET Of(o, id) == IF id \in DOMAIN o THEN o[id] ELSE "absent"
    IN  {id \in DOMAIN from \cup DOMAIN to : Of(from, id) # Of(to, id)}

SelectionShift(from, to) ==
    LET Of(a, key) == IF key \in DOMAIN a THEN a[key] ELSE {}
    IN  {key \in DOMAIN from \cup DOMAIN to : Of(from, key) # Of(to, key)}

HasEffect(d) ==
    d.gained \cup d.lost # {} \/ d.bars # {} \/ d.validation # {} \/ d.observability # {} \/ d.selection # {}
=============================================================================
