----------------------------- MODULE BinderProofs -----------------------------
(***************************************************************************)
(* Proofs about the binder, for any release, inventories, configurations,  *)
(* platforms and evidence. The kept result is always what the compiler     *)
(* makes of the inventory and the configuration it was compiled for, and   *)
(* what a tick selected is always of the kept result: what a binding says  *)
(* and what selection says of an entity follow from that.                  *)
(***************************************************************************)
EXTENDS Binder, FiniteSetTheorems, TLAPS

-----------------------------------------------------------------------------
(* What the compiler makes of an inventory and a configuration.              *)

\* The name of a container, and the role of a row, that are not there.
NoName == ""

LEMMA PodsBind ==
    ASSUME NEW rule, NEW i, NEW c, NEW a, rule.scope = "Container"
    PROVE  Instantiate(rule, i, c, a) =
               IF Unobtainable(rule, a)
               THEN {BindingOf(rule, "Container", r.cei, r.role, NoName, "out-of-scope", NoBar) : r \in OfKind(i, "Pod")}
               ELSE UNION {BindContainers(rule, r, c) : r \in OfKind(i, "Pod")}
  BY DEF Instantiate, BindAllOutOfScope, NoName

LEMMA NodesBind ==
    ASSUME NEW rule, NEW i, NEW c, NEW a, rule.scope = "Node"
    PROVE  Instantiate(rule, i, c, a) =
               IF Unobtainable(rule, a)
               THEN {BindingOf(rule, "Node", r.cei, NoName, NoName, "out-of-scope", NoBar) : r \in OfKind(i, "Node")}
               ELSE {BindNode(rule, r, c) : r \in OfKind(i, "Node")}
  BY DEF Instantiate, BindAllOutOfScope, NoName

LEMMA ClaimsBind ==
    ASSUME NEW rule, NEW i, NEW c, NEW a, rule.scope = "PVC"
    PROVE  Instantiate(rule, i, c, a) =
               IF Unobtainable(rule, a)
               THEN {BindingOf(rule, "PVC", p, NoName, NoName, "out-of-scope", NoBar) : p \in DOMAIN c.pvcs}
               ELSE {BindPVC(rule, p, c) : p \in DOMAIN c.pvcs}
  BY DEF Instantiate, BindAllOutOfScope, NoName

LEMMA NothingElseBinds ==
    ASSUME NEW rule, NEW i, NEW c, NEW a, NEW b \in Instantiate(rule, i, c, a)
    PROVE  rule.scope \in {"Container", "Node", "PVC"}
  BY DEF Instantiate, BindAllOutOfScope

\* What the container named k of a pod has of one rule.
ContainerBinding(rule, r, c, k) ==
    IF EligibilityMet(rule.eligible, c.pods[r.name][k])
    THEN BindingOf(rule, "Container", r.cei, r.role, k, "bound", ContainerBar(rule, c.pods[r.name][k]))
    ELSE BindingOf(rule, "Container", r.cei, r.role, k, "out-of-scope", NoBar)

LEMMA ContainersBind ==
    ASSUME NEW rule, NEW r, NEW c
    PROVE  BindContainers(rule, r, c) =
               IF r.name \notin DOMAIN c.pods
               THEN {BindingOf(rule, "Container", r.cei, r.role, NoName, "unresolved", NoBar)}
               ELSE {ContainerBinding(rule, r, c, k) : k \in DOMAIN c.pods[r.name]}
  BY DEF BindContainers, ContainerBinding, NoName

\* A bar is flagged exactly when it is the default's.
Honest(bar) == \A x \in bar : x.flagged = (x.source = "default")

LEMMA BarsAreHonest ==
    ASSUME NEW rule
    PROVE  /\ Honest(NoBar) /\ Honest(DefaultBar(rule))
           /\ \A declared, unit : Honest(ConfigBar(rule, declared, unit))
           /\ \A k : Honest(ContainerBar(rule, k))
  <1>1. \A source \in {"default", "config"} : \A value, unit : Honest(BarOf(rule, source, value, unit))
    BY DEF BarOf, Honest
  <1>2. Honest(NoBar)
    BY DEF NoBar, Honest
  <1>3. Honest(DefaultBar(rule))
    BY <1>1 DEF DefaultBar
  <1>4. \A declared, unit : Honest(ConfigBar(rule, declared, unit))
    BY <1>1, <1>2 DEF ConfigBar
  <1>5. \A k : Honest(ContainerBar(rule, k))
    BY <1>2, <1>3, <1>4 DEF ContainerBar
  <1> QED
    BY <1>2, <1>3, <1>4, <1>5

LEMMA NodesAndClaimsAreBound ==
    ASSUME NEW rule, NEW c
    PROVE  /\ \A r : \E bar : Honest(bar) /\ BindNode(rule, r, c)
                                             = BindingOf(rule, "Node", r.cei, NoName, NoName, "bound", bar)
           /\ \A p : \E bar : Honest(bar) /\ BindPVC(rule, p, c)
                                             = BindingOf(rule, "PVC", p, NoName, NoName, "bound", bar)
  <1>1. ASSUME NEW r
        PROVE  \E bar : Honest(bar) /\ BindNode(rule, r, c) = BindingOf(rule, "Node", r.cei, NoName, NoName, "bound", bar)
    <2> DEFINE limit == Declared(c.nodes, r.name)
               bar == CASE rule.kind = "config-relative" -> ConfigBar(rule, limit, "bytes")
                        [] rule.kind \in {"absolute", "rate-of-change"} -> DefaultBar(rule)
                        [] OTHER -> NoBar
    <2>1. Honest(ConfigBar(rule, limit, "bytes"))
      BY BarsAreHonest
    <2>2. Honest(bar)
      <3> HIDE DEF limit
      <3> QED
        BY <2>1, BarsAreHonest
    <2>3. BindNode(rule, r, c) = BindingOf(rule, "Node", r.cei, NoName, NoName, "bound", bar)
      BY DEF BindNode, NoName
    <2> HIDE DEF bar
    <2> QED
      BY <2>2, <2>3
  <1>2. ASSUME NEW p
        PROVE  \E bar : Honest(bar) /\ BindPVC(rule, p, c) = BindingOf(rule, "PVC", p, NoName, NoName, "bound", bar)
    <2> DEFINE limit == Declared(c.pvcs, p)
               bar == IF rule.kind = "config-relative" THEN ConfigBar(rule, limit, "bytes") ELSE DefaultBar(rule)
    <2>1. Honest(ConfigBar(rule, limit, "bytes"))
      BY BarsAreHonest
    <2>2. Honest(bar)
      <3> HIDE DEF limit
      <3> QED
        BY <2>1, BarsAreHonest
    <2>3. BindPVC(rule, p, c) = BindingOf(rule, "PVC", p, NoName, NoName, "bound", bar)
      BY DEF BindPVC, NoName
    <2> HIDE DEF bar
    <2> QED
      BY <2>2, <2>3
  <1> QED
    BY <1>1, <1>2

Fields == {"rule", "metric", "entity", "cei", "role", "container", "state", "bar", "validation"}

\* A binding is of its rule, in one state, and carries an honest bar or none; only what is
\* bound carries one, and only pods give theirs a role.
LEMMA BindingsAreTyped ==
    ASSUME NEW rule, NEW i, NEW c, NEW a, NEW b \in Instantiate(rule, i, c, a)
    PROVE  /\ DOMAIN b = Fields /\ b.rule = rule.id
           /\ b.state \in {"bound", "unresolved", "out-of-scope"}
           /\ b.bar # NoBar => b.state = "bound"
           /\ Honest(b.bar)
           /\ b.role # NoName => rule.scope = "Container"
  <1> DEFINE Typed(x) == /\ DOMAIN x = Fields /\ x.rule = rule.id
                         /\ x.state \in {"bound", "unresolved", "out-of-scope"}
                         /\ x.bar # NoBar => x.state = "bound"
                         /\ Honest(x.bar)
  <1>1. \A scope, cei, role, container, bar, state :
            LET x == BindingOf(rule, scope, cei, role, container, state, bar)
            IN  /\ x.role = role
                /\ state \in {"bound", "unresolved", "out-of-scope"} /\ Honest(bar) /\ (bar # NoBar => state = "bound")
                   => Typed(x)
    BY DEF BindingOf, Fields
  <1>2. Honest(NoBar)
    BY BarsAreHonest
  <1> HIDE DEF Typed
  <1>3. CASE rule.scope = "Container"
    <2>1. \A role, state, r \in i : state \in {"unresolved", "out-of-scope"}
              => Typed(BindingOf(rule, "Container", r.cei, role, NoName, state, NoBar))
      BY <1>1, <1>2
    <2>2. \A r, k : Typed(ContainerBinding(rule, r, c, k))
      BY <1>1, <1>2, BarsAreHonest DEF ContainerBinding
    <2>3. CASE Unobtainable(rule, a)
      <3>1. b \in {BindingOf(rule, "Container", r.cei, r.role, NoName, "out-of-scope", NoBar) : r \in OfKind(i, "Pod")}
        BY <1>3, <2>3, PodsBind
      <3> QED
        BY <1>1, <1>2, <1>3, <3>1 DEF Typed
    <2>4. CASE ~Unobtainable(rule, a)
      <3> DEFINE Of(r) == BindContainers(rule, r, c)
      <3>1. b \in UNION {Of(r) : r \in OfKind(i, "Pod")}
        BY <1>3, <2>4, PodsBind
      <3>2. PICK r \in OfKind(i, "Pod") : b \in Of(r)
        BY <3>1
      <3>3. \/ b = BindingOf(rule, "Container", r.cei, r.role, NoName, "unresolved", NoBar)
            \/ \E k : b = ContainerBinding(rule, r, c, k)
        BY <3>2, ContainersBind
      <3> QED
        BY <1>1, <1>2, <1>3, <2>2, <3>3 DEF Typed
    <2> QED
      BY <2>3, <2>4
  <1>4. CASE rule.scope = "Node"
    <2>1. \E cei, state, bar : /\ b = BindingOf(rule, "Node", cei, NoName, NoName, state, bar)
                               /\ Honest(bar) /\ (state = "bound" \/ (state = "out-of-scope" /\ bar = NoBar))
      <3>1. \/ b \in {BindingOf(rule, "Node", r.cei, NoName, NoName, "out-of-scope", NoBar) : r \in OfKind(i, "Node")}
            \/ b \in {BindNode(rule, r, c) : r \in OfKind(i, "Node")}
        BY <1>4, NodesBind
      <3> QED
        BY <1>2, <3>1, NodesAndClaimsAreBound
    <2> QED
      BY <1>1, <2>1 DEF Typed
  <1>5. CASE rule.scope = "PVC"
    <2>1. \E cei, state, bar : /\ b = BindingOf(rule, "PVC", cei, NoName, NoName, state, bar)
                               /\ Honest(bar) /\ (state = "bound" \/ (state = "out-of-scope" /\ bar = NoBar))
      <3>1. \/ b \in {BindingOf(rule, "PVC", p, NoName, NoName, "out-of-scope", NoBar) : p \in DOMAIN c.pvcs}
            \/ b \in {BindPVC(rule, p, c) : p \in DOMAIN c.pvcs}
        BY <1>5, ClaimsBind
      <3> QED
        BY <1>2, <3>1, NodesAndClaimsAreBound
    <2> QED
      BY <1>1, <2>1 DEF Typed
  <1> QED
    BY <1>3, <1>4, <1>5, NothingElseBinds

-----------------------------------------------------------------------------
(* What a compile leaves: the bindings of every rule, each with a verdict.   *)

Result(i, c, a, ev) == ValidateBindings(Graph, Compile(Graph, i, c, a), a, ev, Plausible(c, FallbackMemory))

\* A verdict changes nothing else of a binding.
AsBound(v, b) == /\ v.rule = b.rule /\ v.cei = b.cei /\ v.role = b.role /\ v.container = b.container
                 /\ v.state = b.state /\ v.bar = b.bar

\* A binding with its verdict.
Shown(b, c, a, ev) ==
    IF b.state = "bound"
    THEN [b EXCEPT !.validation = ValidateOne(b, Graph.rules[b.rule], a, ev, Plausible(c, FallbackMemory))]
    ELSE b

LEMMA ResultsAreShown ==
    ASSUME NEW i, NEW c, NEW a, NEW ev
    PROVE  /\ Result(i, c, a, ev)
                 = {Shown(b, c, a, ev) : b \in UNION {Instantiate(Graph.rules[id], i, c, a) : id \in DOMAIN Graph.rules}}
           /\ \A id \in DOMAIN Graph.rules : \A b \in Instantiate(Graph.rules[id], i, c, a) :
                 AsBound(Shown(b, c, a, ev), b) /\ b.rule = id
  <1>1. \A b : DOMAIN b = Fields => AsBound(Shown(b, c, a, ev), b)
    BY DEF Fields, Shown, AsBound
  <1>2. \A id \in DOMAIN Graph.rules : \A b \in Instantiate(Graph.rules[id], i, c, a) :
            DOMAIN b = Fields /\ b.rule = id
    BY BindingsAreTyped, BinderAssumption DEF BinderAssumption
  <1>3. Result(i, c, a, ev)
            = {Shown(b, c, a, ev) : b \in UNION {Instantiate(Graph.rules[id], i, c, a) : id \in DOMAIN Graph.rules}}
    BY DEF Result, Shown, ValidateBindings, Compile
  <1> QED
    BY <1>1, <1>2, <1>3

\* A binding is of the rule id, or of the entity cei.
IsOf(b, id) == b.rule = id
IsAt(b, cei) == b.cei = cei

LEMMA BindingIsShown ==
    ASSUME NEW i, NEW c, NEW a, NEW ev, NEW id \in DOMAIN Graph.rules, NEW b \in Instantiate(Graph.rules[id], i, c, a)
    PROVE  /\ Shown(b, c, a, ev) \in Result(i, c, a, ev)
           /\ AsBound(Shown(b, c, a, ev), b) /\ IsOf(b, id)
  <1> DEFINE Of(x) == Instantiate(Graph.rules[x], i, c, a)
             All == UNION {Of(x) : x \in DOMAIN Graph.rules}
  <1>1. b \in All
    OBVIOUS
  <1>2. Result(i, c, a, ev) = {Shown(x, c, a, ev) : x \in All}
    BY ResultsAreShown
  <1>3. AsBound(Shown(b, c, a, ev), b) /\ b.rule = id
    BY ResultsAreShown
  <1> HIDE DEF All
  <1> QED
    BY <1>1, <1>2, <1>3 DEF IsOf

LEMMA ShownIsBinding ==
    ASSUME NEW i, NEW c, NEW a, NEW ev, NEW v \in Result(i, c, a, ev)
    PROVE  \E id \in DOMAIN Graph.rules : \E b \in Instantiate(Graph.rules[id], i, c, a) :
               v = Shown(b, c, a, ev) /\ AsBound(v, b) /\ v.rule = id
  <1> DEFINE Of(x) == Instantiate(Graph.rules[x], i, c, a)
             All == UNION {Of(x) : x \in DOMAIN Graph.rules}
  <1>1. Result(i, c, a, ev) = {Shown(x, c, a, ev) : x \in All}
    BY ResultsAreShown
  <1>2. \A id \in DOMAIN Graph.rules : \A b \in Of(id) : AsBound(Shown(b, c, a, ev), b) /\ b.rule = id
    BY ResultsAreShown
  <1>3. PICK b \in All : v = Shown(b, c, a, ev)
    <2> HIDE DEF All
    <2> QED
      BY <1>1
  <1> HIDE DEF Of
  <1>4. PICK id \in DOMAIN Graph.rules : b \in Of(id)
    BY <1>3
  <1>5. AsBound(v, b) /\ v.rule = id
    BY <1>2, <1>3, <1>4 DEF AsBound
  <1> QED
    BY <1>3, <1>4, <1>5 DEF Of

LEMMA ResultsAreBindings ==
    ASSUME NEW i, NEW c, NEW a, NEW ev
    PROVE  /\ \A v \in Result(i, c, a, ev) :
                 \E id \in DOMAIN Graph.rules : \E b \in Instantiate(Graph.rules[id], i, c, a) :
                     AsBound(v, b) /\ v.rule = id
           /\ \A id \in DOMAIN Graph.rules : \A b \in Instantiate(Graph.rules[id], i, c, a) :
                 \E v \in Result(i, c, a, ev) : AsBound(v, b) /\ v.rule = id
  <1>1. \A v \in Result(i, c, a, ev) :
            \E id \in DOMAIN Graph.rules : \E b \in Instantiate(Graph.rules[id], i, c, a) :
                AsBound(v, b) /\ v.rule = id
    BY ShownIsBinding
  <1>2. ASSUME NEW id \in DOMAIN Graph.rules, NEW b \in Instantiate(Graph.rules[id], i, c, a)
        PROVE  \E v \in Result(i, c, a, ev) : AsBound(v, b) /\ v.rule = id
    <2> DEFINE v == Shown(b, c, a, ev)
    <2>1. v \in Result(i, c, a, ev) /\ AsBound(v, b) /\ IsOf(b, id)
      BY BindingIsShown
    <2> HIDE DEF v
    <2> QED
      BY <2>1 DEF AsBound, IsOf
  <1> QED
    BY <1>1, <1>2

\* Two rows of one inventory are one when their identities are, and so are two pods of one name.
LEMMA RowsAreUnique ==
    ASSUME NEW i \in Inventories, NEW x \in i, NEW y \in i,
           x.cei = y.cei \/ (x.kind = y.kind /\ x.name = y.name)
    PROVE  x = y
  BY InstancesAssumption DEF InstancesAssumption

\* Every pod and node has a binding of every rule of its scope.
Lands(i, c, a, ev, r, id) ==
    LET rows == {b \in Result(i, c, a, ev) : b.cei = r.cei /\ b.rule = id}
    IN  \/ \E b \in rows : b.container = NoName /\ b.state # "bound"
        \/ r.kind = "Node" /\ rows # {}
        \/ r.name \in DOMAIN c.pods /\ {b.container : b \in rows} = DOMAIN c.pods[r.name]

LEMMA PairsLand ==
    ASSUME NEW i \in Inventories, NEW c, NEW a, NEW ev, NEW r \in i, NEW id \in DOMAIN Graph.rules,
           Scoped(r, Graph.rules[id])
    PROVE  Lands(i, c, a, ev, r, id)
  <1> DEFINE rule == Graph.rules[id]
             rows == {b \in Result(i, c, a, ev) : b.cei = r.cei /\ b.rule = id}
             Bs == Instantiate(rule, i, c, a)
  <1>1. \A b \in Bs : b.cei = r.cei => \E v \in rows : AsBound(v, b)
    BY ResultsAreBindings DEF AsBound
  <1>2. \A v \in rows : \E b \in Bs : AsBound(v, b)
    BY ResultsAreBindings
  <1>3. \/ r.kind = "Pod" /\ rule.scope = "Container"
        \/ r.kind = "Node" /\ rule.scope = "Node"
    BY DEF Scoped
  <1>4. \A scope, cei, role, container, state, bar :
            LET x == BindingOf(rule, scope, cei, role, container, state, bar)
            IN  x.cei = cei /\ x.container = container /\ x.state = state
    BY DEF BindingOf
  <1>5. CASE r.kind = "Node" /\ rule.scope = "Node"
    <2>1. r \in OfKind(i, "Node")
      BY <1>5 DEF OfKind
    <2>2. BindingOf(rule, "Node", r.cei, NoName, NoName, "out-of-scope", NoBar) \in Bs \/ BindNode(rule, r, c) \in Bs
      BY <1>5, <2>1, NodesBind
    <2>3. \E b \in Bs : b.cei = r.cei
      BY <1>4, <2>2, NodesAndClaimsAreBound
    <2>4. rows # {}
      <3> HIDE DEF rows, Bs
      <3> QED
        BY <1>1, <2>3
    <2> QED
      BY <1>5, <2>4 DEF Lands
  <1>6. CASE r.kind = "Pod" /\ rule.scope = "Container" /\ Unobtainable(rule, a)
    <2> DEFINE b == BindingOf(rule, "Container", r.cei, r.role, NoName, "out-of-scope", NoBar)
    <2>1. b \in Bs
      BY <1>6, PodsBind DEF OfKind
    <2>2. b.cei = r.cei /\ b.container = NoName /\ b.state = "out-of-scope"
      BY <1>4
    <2> HIDE DEF b
    <2>3. \E v \in rows : v.container = NoName /\ v.state # "bound"
      BY <1>1, <2>1, <2>2 DEF AsBound
    <2> QED
      BY <2>3 DEF Lands
  <1>7. CASE r.kind = "Pod" /\ rule.scope = "Container" /\ ~Unobtainable(rule, a)
    <2> DEFINE Of(x) == BindContainers(rule, x, c)
    <2>1. Bs = UNION {Of(x) : x \in OfKind(i, "Pod")}
      BY <1>7, PodsBind
    <2>2. r \in OfKind(i, "Pod")
      BY <1>7 DEF OfKind
    <2>3. \A b \in Of(r) : b \in Bs
      BY <2>1, <2>2
    <2>4. ASSUME NEW b \in Bs, b.cei = r.cei PROVE b \in Of(r)
      <3>1. PICK x \in OfKind(i, "Pod") : b \in Of(x)
        BY <2>1
      <3>2. \/ b = BindingOf(rule, "Container", x.cei, x.role, NoName, "unresolved", NoBar)
            \/ \E k : b = ContainerBinding(rule, x, c, k)
        BY <3>1, ContainersBind
      <3>3. b.cei = x.cei
        BY <1>4, <3>2 DEF ContainerBinding
      <3>4. x = r
        BY <2>4, <3>3, RowsAreUnique DEF OfKind
      <3> QED
        BY <3>1, <3>4
    <2> HIDE DEF Of
    <2>5. CASE r.name \notin DOMAIN c.pods
      <3> DEFINE b == BindingOf(rule, "Container", r.cei, r.role, NoName, "unresolved", NoBar)
      <3>1. b \in Of(r)
        BY <2>5, ContainersBind DEF Of
      <3>2. b.cei = r.cei /\ b.container = NoName /\ b.state = "unresolved"
        BY <1>4
      <3> HIDE DEF b
      <3>3. \E v \in rows : v.container = NoName /\ v.state # "bound"
        BY <1>1, <2>3, <3>1, <3>2 DEF AsBound
      <3> QED
        BY <3>3 DEF Lands
    <2>6. CASE r.name \in DOMAIN c.pods
      <3> DEFINE ks == DOMAIN c.pods[r.name]
      <3>1. Of(r) = {ContainerBinding(rule, r, c, k) : k \in ks}
        BY <2>6, ContainersBind DEF Of
      <3>2. \A k : ContainerBinding(rule, r, c, k).cei = r.cei /\ ContainerBinding(rule, r, c, k).container = k
        BY <1>4 DEF ContainerBinding
      <3> HIDE DEF ks
      <3>3. \A k \in ks : \E v \in rows : v.container = k
        BY <1>1, <2>3, <3>1, <3>2 DEF AsBound
      <3>4. \A v \in rows : v.container \in ks
        <4> TAKE v \in rows
        <4>1. PICK b \in Bs : AsBound(v, b)
          BY <1>2
        <4>2. b.cei = r.cei /\ b.container = v.container
          BY <4>1 DEF AsBound
        <4> QED
          BY <2>4, <3>1, <3>2, <4>2
      <3> HIDE DEF rows
      <3>5. {b.container : b \in rows} = ks
        BY <3>3, <3>4
      <3> QED
        BY <2>6, <3>5 DEF Lands, ks, rows
    <2> QED
      BY <2>5, <2>6
  <1> QED
    BY <1>3, <1>5, <1>6, <1>7

-----------------------------------------------------------------------------
(* The inductive invariant: there is no kept result, or it is what the       *)
(* compiler made of the inventory and the configuration it is of, and the    *)
(* latest selection was made from it.                                        *)

TheKept == CHOOSE r \in last : TRUE

NothingKept == last = {} /\ lastInventory = {} /\ compiled = Empty /\ selection = NoSelection

Compiled ==
    \E ev \in Sightings : TheKept.bindings = Result(lastInventory, compiled, TheKept.avail, ev)

SameKeys(i, j) == InventoryFingerprint(i) = InventoryFingerprint(j)

Selected ==
    \E i \in Inventories, topo \in Topologies :
        /\ selection = Select(i, TheKept.bindings, Graph, ~SameKeys(i, lastInventory), topo)
        /\ bound = IF SameKeys(i, lastInventory) THEN "current" ELSE "stale"

ResultKept ==
    /\ last = {TheKept} /\ lastInventory \in Inventories /\ compiled \in Configurations
    /\ Compiled /\ Selected

BinderInv ==
    /\ inv \in Inventories /\ cfg \in Configurations
    /\ ticksUnseen \in 0..DriftTicks /\ behind \in 0..ticksUnseen
    /\ edits \in 0..MaxEdits /\ crashed \in BOOLEAN
    /\ NothingKept \/ ResultKept

LEMMA InitBinder == Init => BinderInv
  <1> SUFFICES ASSUME Init PROVE BinderInv
    OBVIOUS
  <1>1. NothingKept
    BY DEF Init, NothingKept
  <1>2. /\ inv \in Inventories /\ cfg \in Configurations
        /\ ticksUnseen = 0 /\ behind = 0 /\ edits = 0 /\ crashed = FALSE
    BY DEF Init
  <1>3. ticksUnseen \in 0..DriftTicks /\ behind \in 0..ticksUnseen /\ edits \in 0..MaxEdits
    BY <1>2, BinderAssumption DEF BinderAssumption
  <1> QED
    BY <1>1, <1>2, <1>3 DEF BinderInv

\* What a tick selects of the kept result.
LEMMA UseSelects ==
    ASSUME ResultKept, inv \in Inventories, NEW topo \in Topologies, Use(last, lastInventory, topo),
           UNCHANGED <<last, lastInventory, compiled>>
    PROVE  ResultKept'
  <1>1. TheKept' = TheKept /\ last # {}
    BY DEF TheKept, ResultKept
  <1>2. Compiled'
    BY <1>1 DEF ResultKept, Compiled
  <1>3. /\ selection' = Select(inv, TheKept.bindings, Graph, ~SameKeys(inv, lastInventory), topo)
        /\ bound' = IF SameKeys(inv, lastInventory) THEN "current" ELSE "stale"
    BY <1>1 DEF Use, TheKept, SameFingerprint, SameKeys
  <1>4. Selected'
    BY <1>1, <1>3 DEF Selected
  <1> QED
    BY <1>1, <1>2, <1>4 DEF ResultKept

LEMMA UseOfNothing ==
    ASSUME NothingKept, NEW topo, Use(last, lastInventory, topo), UNCHANGED <<last, lastInventory, compiled>>
    PROVE  NothingKept'
  BY DEF NothingKept, Use

\* What a compile keeps.
LEMMA RecompileKeeps ==
    ASSUME inv \in Inventories, cfg \in Configurations, Recompile
    PROVE  ResultKept'
  <1>1. PICK facts \in {{}, {platform}}, ev \in Sightings, topo \in Topologies :
            /\ last' = {ResultOf(facts, ev)}
            /\ Use({ResultOf(facts, ev)}, inv, topo)
    BY DEF Recompile
  <1> DEFINE kept == ResultOf(facts, ev)
  <1>2. TheKept' = kept
    BY <1>1 DEF TheKept
  <1>3. kept.bindings = Result(inv, cfg, kept.avail, ev)
    BY DEF ResultOf, Result
  <1>4. (CHOOSE r \in {kept} : TRUE) = kept
    OBVIOUS
  <1> HIDE DEF kept
  <1>5. /\ selection' = Select(inv, kept.bindings, Graph, ~SameKeys(inv, inv), topo)
        /\ bound' = "current"
    BY <1>1, <1>4 DEF Use, kept, SameFingerprint, SameKeys
  <1>6. lastInventory' = inv /\ compiled' = cfg
    BY DEF Recompile
  <1>7. Compiled'
    BY <1>2, <1>3, <1>6 DEF Compiled
  <1>8. Selected'
    BY <1>2, <1>5, <1>6 DEF Selected, SameKeys
  <1> QED
    BY <1>1, <1>2, <1>6, <1>7, <1>8 DEF ResultKept, kept

LEMMA UnchangedKept ==
    ASSUME UNCHANGED <<last, lastInventory, compiled, selection, bound>>
    PROVE  (NothingKept => NothingKept') /\ (ResultKept => ResultKept')
  <1>1. TheKept' = TheKept
    BY DEF TheKept
  <1> QED
    BY <1>1 DEF NothingKept, ResultKept, Compiled, Selected

LEMMA BinderStep ==
    ASSUME BinderInv, [Next]_vars
    PROVE  BinderInv'
  <1> USE DEF BinderInv
  <1>0. DriftTicks \in Nat /\ MaxEdits \in Nat /\ ticksUnseen \in Nat /\ behind \in Nat
    BY BinderAssumption DEF BinderAssumption
  <1>1. CASE Tick
    <2>1. UNCHANGED <<inv, cfg, edits>>
      BY <1>1 DEF Tick
    <2>2. CASE UseCached
      <3>1. ticksUnseen' = ticksUnseen + 1 /\ ticksUnseen < DriftTicks /\ behind' \in {behind + 1, 0}
        BY <2>2 DEF UseCached, Fresh
      <3>2. ticksUnseen' \in 0..DriftTicks /\ behind' \in 0..ticksUnseen'
        BY <1>0, <3>1
      <3>3. ResultKept
        BY <2>2 DEF UseCached, Fresh, NothingKept
      <3>4. ResultKept'
        BY <2>2, <3>3, UseSelects DEF UseCached
      <3>5. crashed' \in BOOLEAN
        BY <2>2 DEF UseCached
      <3> QED
        BY <2>1, <3>2, <3>4, <3>5
    <2>3. CASE SnapshotFails
      <3>1. UNCHANGED <<last, lastInventory, ticksUnseen, crashed, compiled, behind>>
        BY <2>3 DEF SnapshotFails
      <3>2. PICK topo \in Topologies : Use(last, lastInventory, topo)
        BY <2>3 DEF SnapshotFails
      <3>3. NothingKept' \/ ResultKept'
        BY <3>1, <3>2, UseSelects, UseOfNothing
      <3> QED
        BY <2>1, <3>1, <3>3
    <2>4. CASE Recompile
      <3>1. ticksUnseen' = 0 /\ behind' = 0 /\ crashed' = crashed
        BY <2>4 DEF Recompile
      <3> QED
        BY <1>0, <2>1, <2>4, <3>1, RecompileKeeps
    <2>5. CASE Crash
      BY <2>1, <2>5, UnchangedKept DEF Crash
    <2> QED
      BY <1>1, <2>2, <2>3, <2>4, <2>5 DEF Tick
  <1>2. CASE Edit
    <2>1. edits' \in 0..MaxEdits
      BY <1>0, <1>2 DEF Edit
    <2>2. inv' \in Inventories /\ cfg' \in Configurations
      BY <1>2 DEF Edit
    <2> QED
      BY <1>2, <2>1, <2>2, UnchangedKept DEF Edit
  <1>3. CASE Restart
    <2>1. NothingKept'
      BY <1>3 DEF Restart, NothingKept
    <2>2. UNCHANGED <<inv, cfg, edits>> /\ crashed' = FALSE /\ ticksUnseen' = 0 /\ behind' = 0
      BY <1>3 DEF Restart
    <2>3. ticksUnseen' \in 0..DriftTicks /\ behind' \in 0..ticksUnseen'
      BY <1>0, <2>2
    <2>4. edits' \in 0..MaxEdits /\ inv' \in Inventories /\ cfg' \in Configurations /\ crashed' \in BOOLEAN
      BY <2>2
    <2> QED
      BY <2>1, <2>3, <2>4
  <1>4. CASE UNCHANGED vars
    BY <1>4, UnchangedKept DEF vars
  <1> QED
    BY <1>1, <1>2, <1>3, <1>4 DEF Next

\* What the binder keeps is what the compiler makes of the inventory and the configuration it is
\* of, and the latest selection was made from it, stale exactly when it says so (getBinding and
\* the tick of cmd/obsd/binder.go).
THEOREM BinderIsConsistent == Spec => []BinderInv
  BY InitBinder, BinderStep, PTL DEF Spec

\* A limit edited in place, or a role corrected in place, is in force after a bounded number of
\* ticks: the drift trigger of cmd/obsd/binder.go, not counting the ticks whose snapshot failed.
THEOREM DriftStaysBounded == Spec => []DriftIsBounded
  <1>1. BinderInv => DriftIsBounded
    BY BinderAssumption DEF BinderAssumption, BinderInv, DriftIsBounded
  <1> QED
    BY <1>1, BinderIsConsistent, PTL

-----------------------------------------------------------------------------
(* What the kept result says.                                                *)

LEMMA TheKeptIsTyped ==
    ASSUME ResultKept
    PROVE  \A r \in last : \A b \in r.bindings :
               /\ b.state \in {"bound", "unresolved", "out-of-scope"}
               /\ b.bar # NoBar => b.state = "bound"
               /\ \A bar \in b.bar : bar.flagged = (bar.source = "default")
  <1> SUFFICES ASSUME NEW v \in TheKept.bindings
               PROVE  /\ v.state \in {"bound", "unresolved", "out-of-scope"}
                      /\ v.bar # NoBar => v.state = "bound"
                      /\ Honest(v.bar)
    BY DEF ResultKept, Honest
  <1>1. PICK ev \in Sightings : TheKept.bindings = Result(lastInventory, compiled, TheKept.avail, ev)
    BY DEF ResultKept, Compiled
  <1> DEFINE Of(id) == Instantiate(Graph.rules[id], lastInventory, compiled, TheKept.avail)
  <1>2. PICK id \in DOMAIN Graph.rules : \E x \in Of(id) : AsBound(v, x)
    BY <1>1, ResultsAreBindings
  <1> PICK b \in Of(id) : AsBound(v, b)
    BY <1>2
  <1>3. /\ b.state \in {"bound", "unresolved", "out-of-scope"}
        /\ b.bar # NoBar => b.state = "bound"
        /\ Honest(b.bar)
    BY BindingsAreTyped
  <1> QED
    BY <1>3 DEF AsBound

LEMMA PairsNamed ==
    EveryPairLands <=>
        \A res \in last, r \in lastInventory, id \in DOMAIN Graph.rules :
            LET rows == {b \in res.bindings : b.cei = r.cei /\ b.rule = id}
            IN  Scoped(r, Graph.rules[id]) =>
                    \/ \E b \in rows : b.container = NoName /\ b.state # "bound"
                    \/ r.kind = "Node" /\ rows # {}
                    \/ r.name \in DOMAIN compiled.pods /\ {b.container : b \in rows} = DOMAIN compiled.pods[r.name]
  BY DEF EveryPairLands, NoName

LEMMA TheKeptLands ==
    ASSUME BinderInv
    PROVE  EveryPairLands
  <1>1. CASE NothingKept
    BY <1>1 DEF NothingKept, EveryPairLands
  <1>2. CASE ResultKept
    <2>1. PICK ev \in Sightings : TheKept.bindings = Result(lastInventory, compiled, TheKept.avail, ev)
      BY <1>2 DEF ResultKept, Compiled
    <2>2. lastInventory \in Inventories /\ \A res \in last : res = TheKept
      BY <1>2 DEF ResultKept
    <2>3. \A r \in lastInventory, id \in DOMAIN Graph.rules :
              Scoped(r, Graph.rules[id]) => Lands(lastInventory, compiled, TheKept.avail, ev, r, id)
      BY <2>2, PairsLand
    <2>4. \A res \in last : res.bindings = Result(lastInventory, compiled, TheKept.avail, ev)
      BY <2>1, <2>2
    <2> QED
      BY <2>3, <2>4, PairsNamed DEF Lands
  <1> QED
    BY <1>1, <1>2 DEF BinderInv

\* Hidden gaps are impossible: whatever failed on the way, the kept result is of its types and
\* every pod and node of the inventory it was compiled for has a binding of every rule of its
\* scope (Compile and bindContainers of internal/binding/bindings.go).
THEOREM BindingsStaySound == Spec => []BindingsSound
  <1>1. ASSUME BinderInv PROVE BindingsSound
    <2>1. last = {} => compiled = Empty /\ lastInventory = {}
      BY <1>1 DEF BinderInv, NothingKept, ResultKept
    <2>2. \A r \in last : \A b \in r.bindings :
              /\ b.state \in {"bound", "unresolved", "out-of-scope"}
              /\ b.bar # NoBar => b.state = "bound"
              /\ \A bar \in b.bar : bar.flagged = (bar.source = "default")
      BY <1>1, TheKeptIsTyped DEF BinderInv, NothingKept
    <2>3. BinderTypeOK
      BY <1>1, <2>1, <2>2 DEF BinderInv, BinderTypeOK
    <2> QED
      BY <1>1, <2>3, TheKeptLands DEF BindingsSound
  <1> QED
    BY <1>1, BinderIsConsistent, PTL

-----------------------------------------------------------------------------
(* What a selection says of an entity.                                       *)

LEMMA Reasons ==
    ASSUME NEW cei, NEW bs, NEW stale
    PROVE  LET reason == ReasonFor(cei, bs, Graph, stale)
           IN  /\ reason = "structural-entity" => ~stale /\ \A b \in bs : b.cei # cei
               /\ reason = "bindings-stale" => stale
               /\ reason = "phenomenon-member" => cei \in DOMAIN TierASet(bs, Graph)
  <1> DEFINE A == DOMAIN TierASet(bs, Graph)
             evaluable == \E b \in bs : b.cei = cei /\ Evaluable(b)
             reason == ReasonFor(cei, bs, Graph, stale)
  <1>1. reason = CASE cei \in A -> "phenomenon-member"
                   [] cei \notin A /\ evaluable -> "no-phenomenon-member"
                   [] (\E b \in bs : b.cei = cei) /\ (\A b \in bs : b.cei = cei => ~Evaluable(b)) ->
                          "no-evaluable-variable"
                   [] (\A b \in bs : b.cei # cei) /\ stale -> "bindings-stale"
                   [] OTHER -> "structural-entity"
    BY DEF ReasonFor
  <1> HIDE DEF A, reason
  <1>2. /\ reason = "structural-entity" => ~stale /\ \A b \in bs : b.cei # cei
        /\ reason = "bindings-stale" => stale
        /\ reason = "phenomenon-member" => cei \in A
    <2>1. CASE cei \in A
      BY <1>1, <2>1
    <2>2. CASE cei \notin A /\ evaluable
      BY <1>1, <2>2
    <2>3. CASE cei \notin A /\ ~evaluable /\ \E b \in bs : b.cei = cei
      BY <1>1, <2>3
    <2>4. CASE cei \notin A /\ ~evaluable /\ \A b \in bs : b.cei # cei
      BY <1>1, <2>4
    <2> QED
      BY <2>1, <2>2, <2>3, <2>4
  <1> QED
    BY <1>2 DEF A, reason

LEMMA MembersEarn ==
    ASSUME NEW bs, NEW cei \in DOMAIN TierASet(bs, Graph)
    PROVE  \E b \in bs : b.cei = cei /\ Evaluable(b)
  <1> DEFINE Earned(x) == {id \in DOMAIN Graph.phenomena : \E b \in bs : b.cei = x /\ Evaluable(b) /\ Earns(b, id, Graph)}
  <1>1. DOMAIN TierASet(bs, Graph) = {c \in {b.cei : b \in bs} : Earned(c) # {}}
    BY DEF TierASet
  <1> QED
    BY <1>1

\* A node or a pod of a rule's scope has a binding, under its own identity.
LEMMA InstrumentableIsBound ==
    ASSUME ResultKept, NEW x \in lastInventory, Instrumentable(x.cei)
    PROVE  \E b \in TheKept.bindings : b.cei = x.cei
  <1>1. PICK ev \in Sightings : TheKept.bindings = Result(lastInventory, compiled, TheKept.avail, ev)
    BY DEF ResultKept, Compiled
  <1>2. PICK r \in UNION Inventories : r.cei = x.cei /\ \E id \in DOMAIN Graph.rules : Scoped(r, Graph.rules[id])
    BY DEF Instrumentable
  <1>3. x.kind = r.kind
    BY <1>2, InstancesAssumption DEF InstancesAssumption, ResultKept
  <1>4. PICK id \in DOMAIN Graph.rules : Scoped(x, Graph.rules[id])
    BY <1>2, <1>3 DEF Scoped
  <1>5. Lands(lastInventory, compiled, TheKept.avail, ev, x, id)
    BY <1>4, PairsLand DEF ResultKept
  <1> DEFINE rows == {b \in TheKept.bindings : b.cei = x.cei /\ b.rule = id}
  <1>6. \/ rows # {}
        \/ x.name \in DOMAIN compiled.pods /\ {b.container : b \in rows} = DOMAIN compiled.pods[x.name]
    BY <1>1, <1>5 DEF Lands
  <1>7. x.name \in DOMAIN compiled.pods => DOMAIN compiled.pods[x.name] # {}
    BY BinderAssumption DEF BinderAssumption, ResultKept
  <1> QED
    BY <1>6, <1>7

\* What selection says of an entity is true of the cluster: an entity that some rule instruments
\* is never called structural, one is called stale only by a tick with a stale graph, and a
\* member of a phenomenon has a bar that did not fail (BuildTierA of internal/selection).
THEOREM SelectionStaysTruthful == Spec => []SelectionIsTruthful
  <1>1. ASSUME BinderInv PROVE SelectionIsTruthful
    <2>1. CASE NothingKept
      BY <2>1 DEF NothingKept, NoSelection, SelectionIsTruthful
    <2>2. CASE ResultKept
      <3> DEFINE bs == TheKept.bindings
      <3>1. PICK i \in Inventories, topo \in Topologies :
                /\ selection = Select(i, bs, Graph, ~SameKeys(i, lastInventory), topo)
                /\ bound = IF SameKeys(i, lastInventory) THEN "current" ELSE "stale"
        BY <2>2 DEF ResultKept, Selected
      <3>2. DOMAIN selection = {r.cei : r \in i}
        BY <3>1 DEF Select
      <3> DEFINE stale == ~SameKeys(i, lastInventory)
      <3>3. \A cei \in DOMAIN selection : selection[cei].reason = ReasonFor(cei, bs, Graph, stale)
        BY <3>1 DEF Select
      <3> SUFFICES ASSUME NEW cei \in DOMAIN selection
                   PROVE  /\ Instrumentable(cei) => selection[cei].reason # "structural-entity"
                          /\ selection[cei].reason = "bindings-stale" => bound = "stale"
                          /\ selection[cei].reason = "phenomenon-member" =>
                                \E r \in last, b \in {x \in UNION {r2.bindings : r2 \in last} : x.cei = cei} :
                                    b.bar # NoBar /\ b.validation # "failed"
        BY DEF SelectionIsTruthful
      <3>4. /\ selection[cei].reason = "structural-entity" => SameKeys(i, lastInventory) /\ \A b \in bs : b.cei # cei
            /\ selection[cei].reason = "bindings-stale" => ~SameKeys(i, lastInventory)
            /\ selection[cei].reason = "phenomenon-member" => cei \in DOMAIN TierASet(bs, Graph)
        <4> DEFINE reason == ReasonFor(cei, bs, Graph, stale)
        <4>1. selection[cei].reason = reason
          BY <3>3
        <4> HIDE DEF bs, stale
        <4>2. /\ reason = "structural-entity" => ~stale /\ \A b \in bs : b.cei # cei
              /\ reason = "bindings-stale" => stale
              /\ reason = "phenomenon-member" => cei \in DOMAIN TierASet(bs, Graph)
          BY Reasons
        <4> HIDE DEF reason
        <4> QED
          BY <4>1, <4>2 DEF stale
      <3>5. ASSUME Instrumentable(cei), SameKeys(i, lastInventory) PROVE \E b \in bs : b.cei = cei
        <4>1. PICK x \in lastInventory : x.cei = cei
          BY <3>2, <3>5 DEF SameKeys, InventoryFingerprint
        <4> QED
          BY <2>2, <3>5, <4>1, InstrumentableIsBound
      <3>6. ASSUME cei \in DOMAIN TierASet(bs, Graph)
            PROVE  \E r \in last, b \in {x \in UNION {r2.bindings : r2 \in last} : x.cei = cei} :
                       b.bar # NoBar /\ b.validation # "failed"
        <4>1. PICK b \in bs : b.cei = cei /\ b.bar # NoBar /\ b.validation # "failed"
          BY <3>6, MembersEarn DEF Evaluable
        <4>2. TheKept \in last
          BY <2>2 DEF ResultKept
        <4>3. b \in UNION {r2.bindings : r2 \in last}
          BY <4>2
        <4> QED
          BY <4>1, <4>2, <4>3
      <3> QED
        BY <3>1, <3>4, <3>5, <3>6
    <2> QED
      BY <1>1, <2>1, <2>2 DEF BinderInv
  <1> QED
    BY <1>1, BinderIsConsistent, PTL

-----------------------------------------------------------------------------
(* Roles. What a role holds for a rule and a container is one binding for    *)
(* each pod of the role that declares the container, so two inventories with *)
(* the same pods under other identities give it as many.                     *)

SameSize ==
    \A S, T : \A f \in [S -> T] :
        /\ IsFiniteSet(S) /\ (\A x, y \in S : f[x] = f[y] => x = y) /\ (\A z \in T : \E x \in S : f[x] = z)
        => Cardinality(T) = Cardinality(S)

LEMMA BijectionsKeepSize == SameSize
  <1> SUFFICES ASSUME NEW S, NEW T, NEW f \in [S -> T], IsFiniteSet(S),
                      \A x, y \in S : f[x] = f[y] => x = y, \A z \in T : \E x \in S : f[x] = z
               PROVE  Cardinality(T) = Cardinality(S)
    BY DEF SameSize
  <1>1. f \in Bijection(S, T)
    BY DEF Bijection, Injection, Surjection, IsInjective
  <1>2. ExistsBijection(S, T)
    BY <1>1 DEF ExistsBijection
  <1> QED
    BY <1>2, FS_Bijection

\* The pods of a role whose container named k is eligible for a rule that binds containers.
Seats(i, c, a, role, id, k) ==
    {r \in OfKind(i, "Pod") :
        /\ id \in DOMAIN Graph.rules /\ Graph.rules[id].scope = "Container"
        /\ ~Unobtainable(Graph.rules[id], a)
        /\ r.role = role /\ role # NoName
        /\ r.name \in DOMAIN c.pods /\ k \in DOMAIN c.pods[r.name]
        /\ EligibilityMet(Graph.rules[id].eligible, c.pods[r.name][k])}

\* Those whose bar the rule leaves open.
OpenSeats(i, c, a, role, id, k) ==
    {r \in Seats(i, c, a, role, id, k) : ContainerBar(Graph.rules[id], c.pods[r.name][k]) = NoBar}

\* What a pod of a seat has there.
Member(r, c, a, ev, id, k) == Shown(ContainerBinding(Graph.rules[id], r, c, k), c, a, ev)

Members(bs) == {b \in Bound(bs) : b.role # NoName}
Held(bs, key) == {b \in Members(bs) : RoleKey(b) = key}

LEMMA RolesNamed ==
    ASSUME NEW bs
    PROVE  Roles(bs) = [key \in {RoleKey(b) : b \in Members(bs)} |->
                           [members |-> Cardinality(Held(bs, key)),
                            unbounded |-> Cardinality(Unbounded(Held(bs, key)))]]
  BY DEF Roles, Members, Held, NoName

LEMMA SeatsAreBound ==
    ASSUME NEW i, NEW c, NEW a, NEW ev, NEW role, NEW id, NEW k, NEW r \in Seats(i, c, a, role, id, k)
    PROVE  LET v == Member(r, c, a, ev, id, k)
           IN  /\ v \in Held(Result(i, c, a, ev), [role |-> role, rule |-> id, container |-> k])
               /\ v.bar = ContainerBar(Graph.rules[id], c.pods[r.name][k])
               /\ IsAt(v, r.cei)
  <1> DEFINE rule == Graph.rules[id]
             b == ContainerBinding(rule, r, c, k)
             v == Member(r, c, a, ev, id, k)
             Of(x) == BindContainers(rule, x, c)
  <1>1. /\ id \in DOMAIN Graph.rules /\ rule.scope = "Container" /\ ~Unobtainable(rule, a)
        /\ r \in OfKind(i, "Pod") /\ r.role = role /\ role # NoName
        /\ r.name \in DOMAIN c.pods /\ k \in DOMAIN c.pods[r.name]
        /\ EligibilityMet(rule.eligible, c.pods[r.name][k])
    BY DEF Seats
  <1>2. Instantiate(rule, i, c, a) = UNION {Of(x) : x \in OfKind(i, "Pod")}
    BY <1>1, PodsBind
  <1>3. b \in Of(r)
    BY <1>1, ContainersBind
  <1>4. b = BindingOf(rule, "Container", r.cei, r.role, k, "bound", ContainerBar(rule, c.pods[r.name][k]))
    BY <1>1 DEF ContainerBinding
  <1>5. /\ b.cei = r.cei /\ b.role = role /\ b.container = k /\ b.state = "bound"
        /\ b.bar = ContainerBar(rule, c.pods[r.name][k])
    BY <1>1, <1>4 DEF BindingOf
  <1> HIDE DEF Of, b
  <1>6. b \in Instantiate(rule, i, c, a)
    BY <1>1, <1>2, <1>3
  <1>7. v = Shown(b, c, a, ev)
    BY DEF Member, b
  <1>8. v \in Result(i, c, a, ev) /\ AsBound(v, b) /\ IsOf(b, id)
    BY <1>1, <1>6, <1>7, BindingIsShown
  <1> HIDE DEF v
  <1> QED
    BY <1>1, <1>5, <1>8 DEF IsOf, IsAt, AsBound, Held, Members, Bound, RoleKey, v

LEMMA MembersAreSeated ==
    ASSUME NEW i, NEW c, NEW a, NEW ev, NEW role, NEW id, NEW k,
           NEW v \in Held(Result(i, c, a, ev), [role |-> role, rule |-> id, container |-> k])
    PROVE  \E r \in Seats(i, c, a, role, id, k) : v = Member(r, c, a, ev, id, k)
  <1>1. v \in Result(i, c, a, ev) /\ v.state = "bound" /\ v.role # NoName /\ v.role = role /\ v.rule = id /\ v.container = k
    BY DEF Held, Members, Bound, RoleKey
  <1> DEFINE rule == Graph.rules[id]
             Bs == Instantiate(rule, i, c, a)
             Of(x) == BindContainers(rule, x, c)
  <1>2. id \in DOMAIN Graph.rules /\ \E b \in Bs : v = Shown(b, c, a, ev) /\ AsBound(v, b)
    BY <1>1, ShownIsBinding
  <1>3. PICK b \in Bs : v = Shown(b, c, a, ev) /\ AsBound(v, b)
    BY <1>2
  <1>4. b.state = "bound" /\ b.role = role /\ b.role # NoName /\ b.container = k
    BY <1>1, <1>3 DEF AsBound
  <1>5. rule.scope = "Container"
    BY <1>4, BindingsAreTyped
  <1>6. \A x, y, container, state, bar :
            LET z == BindingOf(rule, "Container", x, y, container, state, bar)
            IN  z.role = y /\ z.container = container /\ z.state = state
    BY DEF BindingOf
  <1>7. ~Unobtainable(rule, a)
    <2> SUFFICES ASSUME Unobtainable(rule, a) PROVE FALSE
      OBVIOUS
    <2>1. b \in {BindingOf(rule, "Container", r.cei, r.role, NoName, "out-of-scope", NoBar) : r \in OfKind(i, "Pod")}
      BY <1>5, PodsBind
    <2> QED
      BY <1>4, <1>6, <2>1
  <1>8. b \in UNION {Of(x) : x \in OfKind(i, "Pod")}
    BY <1>5, <1>7, PodsBind
  <1>9. PICK r \in OfKind(i, "Pod") : b \in Of(r)
    BY <1>8
  <1>10. r.name \in DOMAIN c.pods /\ \E x \in DOMAIN c.pods[r.name] : b = ContainerBinding(rule, r, c, x)
    <2>1. b # BindingOf(rule, "Container", r.cei, r.role, NoName, "unresolved", NoBar)
      BY <1>4, <1>6
    <2> QED
      BY <1>9, <2>1, ContainersBind
  <1>11. /\ r.name \in DOMAIN c.pods /\ k \in DOMAIN c.pods[r.name] /\ b = ContainerBinding(rule, r, c, k)
         /\ EligibilityMet(rule.eligible, c.pods[r.name][k]) /\ r.role = role
    <2>1. PICK x \in DOMAIN c.pods[r.name] : b = ContainerBinding(rule, r, c, x)
      BY <1>10
    <2> DEFINE y == c.pods[r.name][x]
    <2>2. b = BindingOf(rule, "Container", r.cei, r.role, x, IF EligibilityMet(rule.eligible, y) THEN "bound" ELSE "out-of-scope",
                        IF EligibilityMet(rule.eligible, y) THEN ContainerBar(rule, y) ELSE NoBar)
      BY <2>1, Zenon DEF ContainerBinding
    <2>3. /\ b.role = r.role /\ b.container = x
          /\ b.state = IF EligibilityMet(rule.eligible, y) THEN "bound" ELSE "out-of-scope"
      BY <2>2 DEF BindingOf
    <2>4. x = k /\ r.role = role /\ EligibilityMet(rule.eligible, y)
      BY <1>4, <2>3
    <2> QED
      BY <1>10, <2>1, <2>4
  <1>12. r \in Seats(i, c, a, role, id, k)
    BY <1>2, <1>4, <1>5, <1>7, <1>11 DEF Seats
  <1> QED
    BY <1>3, <1>11, <1>12 DEF Member

\* What pods have there, and their names.
MembersOf(T, c, a, ev, id, k) == {Member(r, c, a, ev, id, k) : r \in T}
NamesOf(T) == {r.name : r \in T}

LEMMA SeatsCount ==
    ASSUME NEW i \in Inventories, NEW c, NEW a, NEW ev, NEW role, NEW id, NEW k,
           NEW T \in SUBSET Seats(i, c, a, role, id, k)
    PROVE  Cardinality(MembersOf(T, c, a, ev, id, k)) = Cardinality(NamesOf(T))
  <1>1. \A r \in T : r \in i /\ r.kind = "Pod" /\ r \in Seats(i, c, a, role, id, k)
    BY DEF Seats, OfKind
  <1>2. IsFiniteSet(T)
    <2>1. IsFiniteSet(i) /\ T \in SUBSET i
      BY <1>1, InstancesAssumption DEF InstancesAssumption
    <2> QED
      BY <2>1, FS_Subset
  <1>3. ASSUME NEW r \in T PROVE Member(r, c, a, ev, id, k).cei = r.cei
    <2>1. r \in Seats(i, c, a, role, id, k)
      BY <1>1
    <2>2. IsAt(Member(r, c, a, ev, id, k), r.cei)
      BY <2>1, SeatsAreBound
    <2> QED
      BY <2>2 DEF IsAt
  <1>4. \A x, y \in T : x.cei = y.cei \/ x.name = y.name => x = y
    BY <1>1, RowsAreUnique
  <1> DEFINE M == [r \in T |-> Member(r, c, a, ev, id, k)]
             N == [r \in T |-> r.name]
  <1>5. /\ M \in [T -> MembersOf(T, c, a, ev, id, k)] /\ (\A x, y \in T : M[x] = M[y] => x = y) /\ (\A z \in MembersOf(T, c, a, ev, id, k) : \E x \in T : M[x] = z)
    <2>1. \A r \in T : M[r].cei = r.cei
      BY <1>3
    <2>2. M \in [T -> MembersOf(T, c, a, ev, id, k)] /\ (\A z \in MembersOf(T, c, a, ev, id, k) : \E x \in T : M[x] = z)
      BY DEF MembersOf
    <2> HIDE DEF M
    <2> QED
      BY <1>4, <2>1, <2>2
  <1>6. /\ N \in [T -> NamesOf(T)] /\ (\A x, y \in T : N[x] = N[y] => x = y) /\ (\A z \in NamesOf(T) : \E x \in T : N[x] = z)
    BY <1>4 DEF NamesOf
  <1> HIDE DEF M, N
  <1>7. Cardinality(MembersOf(T, c, a, ev, id, k)) = Cardinality(T)
    BY <1>2, <1>5, BijectionsKeepSize DEF SameSize
  <1>8. Cardinality(NamesOf(T)) = Cardinality(T)
    BY <1>2, <1>6, BijectionsKeepSize DEF SameSize
  <1> QED
    BY <1>7, <1>8

LEMMA HeldAreMembers ==
    ASSUME NEW i, NEW c, NEW a, NEW ev, NEW role, NEW id, NEW k
    PROVE  LET held == Held(Result(i, c, a, ev), [role |-> role, rule |-> id, container |-> k])
           IN  /\ held = MembersOf(Seats(i, c, a, role, id, k), c, a, ev, id, k)
               /\ Unbounded(held) = MembersOf(OpenSeats(i, c, a, role, id, k), c, a, ev, id, k)
  <1> DEFINE held == Held(Result(i, c, a, ev), [role |-> role, rule |-> id, container |-> k])
             S == Seats(i, c, a, role, id, k)
             Bar(r) == ContainerBar(Graph.rules[id], c.pods[r.name][k])
             M(r) == Member(r, c, a, ev, id, k)
  <1>1. \A r \in S : M(r) \in held /\ M(r).bar = Bar(r)
    BY SeatsAreBound
  <1>2. \A v \in held : \E r \in S : v = M(r)
    BY MembersAreSeated
  <1>3. \A v \in held : v.state = "bound"
    BY DEF Held, Members, Bound
  <1>4. OpenSeats(i, c, a, role, id, k) = {r \in S : Bar(r) = NoBar}
    BY DEF OpenSeats
  <1> HIDE DEF held, S, M, Bar
  <1>5. held = {M(r) : r \in S}
    BY <1>1, <1>2
  <1>6. Unbounded(held) = {M(r) : r \in {x \in S : Bar(x) = NoBar}}
    BY <1>1, <1>2, <1>3 DEF Unbounded, Bound
  <1> QED
    BY <1>4, <1>5, <1>6 DEF held, S, M, MembersOf

\* The names of the seats survive a change of identities.
LEMMA NamelessSeats ==
    ASSUME NEW i \in Inventories, NEW j \in Inventories, Nameless(i) = Nameless(j), NEW c, NEW a, NEW role, NEW id, NEW k
    PROVE  /\ NamesOf(Seats(i, c, a, role, id, k)) \subseteq NamesOf(Seats(j, c, a, role, id, k))
           /\ NamesOf(OpenSeats(i, c, a, role, id, k)) \subseteq NamesOf(OpenSeats(j, c, a, role, id, k))
  <1>1. \A rows : Nameless(rows) = {[r EXCEPT !.cei = NoName] : r \in rows}
    BY DEF Nameless, NoName
  <1>2. ASSUME NEW r \in i PROVE \E s \in j : s.name = r.name /\ s.role = r.role /\ s.kind = r.kind
    <2>1. [r EXCEPT !.cei = NoName] \in {[s EXCEPT !.cei = NoName] : s \in j}
      BY <1>1, <1>2
    <2>2. PICK s \in j : [r EXCEPT !.cei = NoName] = [s EXCEPT !.cei = NoName]
      BY <2>1
    <2>3. DOMAIN r = {"cei", "name", "role", "kind"} /\ DOMAIN s = {"cei", "name", "role", "kind"}
      BY <1>2, InstancesAssumption DEF InstancesAssumption
    <2> QED
      BY <2>2, <2>3
  <1>3. ASSUME NEW r \in Seats(i, c, a, role, id, k)
        PROVE  \E s \in Seats(j, c, a, role, id, k) : s.name = r.name
    <2>1. r \in i /\ r.kind = "Pod" /\ r.role = role
      BY DEF Seats, OfKind
    <2>2. PICK s \in j : s.name = r.name /\ s.role = r.role /\ s.kind = r.kind
      BY <1>2, <2>1
    <2>3. s \in Seats(j, c, a, role, id, k)
      BY <2>1, <2>2 DEF Seats, OfKind
    <2> QED
      BY <2>2, <2>3
  <1>4. ASSUME NEW r \in OpenSeats(i, c, a, role, id, k)
        PROVE  \E s \in OpenSeats(j, c, a, role, id, k) : s.name = r.name
    BY <1>3 DEF OpenSeats
  <1> QED
    BY <1>3, <1>4 DEF NamesOf

LEMMA RolesSurvive ==
    ASSUME NEW i \in Inventories, NEW j \in Inventories, Nameless(i) = Nameless(j), NEW c, NEW a, NEW ev, NEW ew
    PROVE  Roles(Result(i, c, a, ev)) = Roles(Result(j, c, a, ew))
  <1> DEFINE is == Result(i, c, a, ev)
             js == Result(j, c, a, ew)
             Keys(bs) == {RoleKey(b) : b \in Members(bs)}
             Size(bs, key) == [members |-> Cardinality(Held(bs, key)),
                               unbounded |-> Cardinality(Unbounded(Held(bs, key)))]
  <1>1. \A bs : \A key \in Keys(bs) : \E role, id, k : key = [role |-> role, rule |-> id, container |-> k]
    BY DEF RoleKey
  <1>2. ASSUME NEW role, NEW id, NEW k
        PROVE  LET key == [role |-> role, rule |-> id, container |-> k]
               IN  /\ Size(is, key) = Size(js, key)
                   /\ Held(is, key) = {} <=> Held(js, key) = {}
    <2> DEFINE key == [role |-> role, rule |-> id, container |-> k]
               Si == Seats(i, c, a, role, id, k)
               Sj == Seats(j, c, a, role, id, k)
               Oi == OpenSeats(i, c, a, role, id, k)
               Oj == OpenSeats(j, c, a, role, id, k)
    <2>1. NamesOf(Si) = NamesOf(Sj) /\ NamesOf(Oi) = NamesOf(Oj)
      <3>1. NamesOf(Si) \subseteq NamesOf(Sj) /\ NamesOf(Oi) \subseteq NamesOf(Oj)
        BY NamelessSeats
      <3>2. NamesOf(Sj) \subseteq NamesOf(Si) /\ NamesOf(Oj) \subseteq NamesOf(Oi)
        BY NamelessSeats
      <3> QED
        BY <3>1, <3>2
    <2>2. Oi \in SUBSET Si /\ Oj \in SUBSET Sj /\ Si \in SUBSET Si /\ Sj \in SUBSET Sj
      BY DEF OpenSeats
    <2>3. /\ Held(is, key) = MembersOf(Si, c, a, ev, id, k)
          /\ Unbounded(Held(is, key)) = MembersOf(Oi, c, a, ev, id, k)
      BY HeldAreMembers
    <2>4. /\ Held(js, key) = MembersOf(Sj, c, a, ew, id, k)
          /\ Unbounded(Held(js, key)) = MembersOf(Oj, c, a, ew, id, k)
      BY HeldAreMembers
    <2>5. /\ Cardinality(MembersOf(Si, c, a, ev, id, k)) = Cardinality(NamesOf(Si))
          /\ Cardinality(MembersOf(Oi, c, a, ev, id, k)) = Cardinality(NamesOf(Oi))
      BY <2>2, SeatsCount
    <2>6. /\ Cardinality(MembersOf(Sj, c, a, ew, id, k)) = Cardinality(NamesOf(Sj))
          /\ Cardinality(MembersOf(Oj, c, a, ew, id, k)) = Cardinality(NamesOf(Oj))
      BY <2>2, SeatsCount
    <2>7. Size(is, key) = Size(js, key)
      BY <2>1, <2>3, <2>4, <2>5, <2>6
    <2>8. Si = {} <=> Sj = {}
      BY <2>1 DEF NamesOf
    <2> HIDE DEF Si, Sj, Oi, Oj
    <2>9. Held(is, key) = {} <=> Held(js, key) = {}
      BY <2>3, <2>4, <2>8 DEF MembersOf
    <2> QED
      BY <2>7, <2>9
  <1>3. \A bs, key : key \in Keys(bs) <=> Held(bs, key) # {}
    BY DEF Held
  <1>4. Roles(is) = [key \in Keys(is) |-> Size(is, key)] /\ Roles(js) = [key \in Keys(js) |-> Size(js, key)]
    BY RolesNamed
  <1> HIDE DEF is, js, Keys, Size
  <1>5. \A key \in Keys(is) \cup Keys(js) : Size(is, key) = Size(js, key) /\ key \in Keys(is) /\ key \in Keys(js)
    BY <1>1, <1>2, <1>3
  <1>6. Keys(is) = Keys(js)
    BY <1>5
  <1> QED
    BY <1>4, <1>5, <1>6 DEF is, js

\* A role absorbs the churn of its instances: a compile after pods were only recreated, of the
\* same configuration and report, gives every role the same aggregate (finalize of
\* internal/binding/bindings.go).
THEOREM RolesStayAbsorbing == Spec => RolesAbsorbChurn
  <1>1. ASSUME BinderInv, BinderInv', NEW old \in last, NEW new \in last',
               Nameless(lastInventory) = Nameless(lastInventory'), compiled = compiled', old.avail = new.avail
        PROVE  Roles(old.bindings) = Roles(new.bindings)
    <2>1. ResultKept /\ ResultKept'
      BY <1>1 DEF BinderInv, NothingKept
    <2>2. old = TheKept /\ new = TheKept' /\ lastInventory \in Inventories /\ lastInventory' \in Inventories
      BY <2>1 DEF ResultKept
    <2>3. PICK ev \in Sightings : old.bindings = Result(lastInventory, compiled, old.avail, ev)
      BY <2>1, <2>2 DEF ResultKept, Compiled
    <2>4. PICK ew \in Sightings : new.bindings = Result(lastInventory', compiled', new.avail, ew)
      BY <2>1, <2>2 DEF ResultKept, Compiled
    <2> QED
      BY <1>1, <2>2, <2>3, <2>4, RolesSurvive
  <1>2. BinderInv /\ BinderInv' => [\A old \in last, new \in last' :
            /\ Nameless(lastInventory) = Nameless(lastInventory')
            /\ compiled = compiled' /\ old.avail = new.avail
            => Roles(old.bindings) = Roles(new.bindings)]_vars
    BY <1>1
  <1> QED
    BY <1>2, BinderIsConsistent, PTL DEF RolesAbsorbChurn

=============================================================================
