# A TLA+ development of Vigil-Dilijens

Vigil-Dilijens (`src/obsd`, Go) watches a Kubernetes cluster, joins scraped
samples to the objects they came from, evaluates them every window against a
knowledge graph of failure phenomena, and says what matched, what is loud and
unexplained, and what it forecasts. Its promise is epistemic: a finding never
claims more than its evidence, and every evaluation can be replayed byte for
byte. The specifications here are about the parts on which that promise rests.

Contents: [1 inventory](#1-inventory) · [2 modules and their
correspondence to the code](#2-modules) · [3 runs](#3-runs) · [4 fairness](#4-fairness) ·
[5 proofs](#5-proofs) · [6 what the code does not promise](#6-what-the-code-does-not-promise) ·
[7 abstractions](#7-abstractions) · [8 plan](#8-plan)

Paths below are relative to `src/obsd` unless they start with `docs/`.

## 1. Inventory

`PROJECT.json` lists the components with their files. How they interact:

```
 API server ──informers──▶ identity watcher ──▶ lifecycle store ◀──lookup── normalizer ◀─┐
                      └──▶ edge derivation ──▶ edge store                                │
 kubelets ───────── scrape loop (fetch without gate; ingest under gate, write) ──────────┤
                                        ▼                                                │
                              hot rings + warm segment log                               │
                                        ▼ gate, read                                     │
 evaluation tick:  binder (compiled bars) ─▶ fingerprints ─▶ selection ─▶ matcher ─▶ cascades
                                        │                                 └─▶ unexplained channel ─▶ timeline (SQLite)
                                        ├─▶ capture: tick frame + bars epoch ─▶ replay engine
                                        └─▶ frozen inputs ─▶ forecast loop ─▶ clock daemon ─▶ warnings ─▶ API
```

| component | state | operations | what is hard | what makes it correct | here |
|---|---|---|---|---|---|
| lifecycle store `identity/lifecycle.go` | record map, per-name lists, heap of tombstones | Observe, TerminateInstance, GC, lookup | eviction inside the operations that build the list; skewed times | one live record per name; map, lists and heap agree; the cap; lookup well defined; tombstones final | modelled, proved |
| identity watcher `identity/informer.go` | none beyond the store; informer caches and queues | upsert and delete handlers | missed, late or ahead-of-clock deletions; relists; restarts | a settled name audits clean; no sample joins the wrong or an unborn incarnation; agreement in the end | modelled (audit counters and role resolution, `identity/resolver.go`, not) |
| edge store `identity/edges.go` | assertion per edge, two indexes | Assert, Retract, ReconcileOut, RetractAll…, GC, Traverse, Snapshot | stamps out of order | sound intervals, exact indexes, retractions final, replay walks alike | modelled, proved |
| edge derivation `identity/edges_watch.go` | none of its own | handlers for services, slices, pods, nodes, leases | reads of clock, listers and store before the write; other handlers in between | edges settle on what the cluster says; one home per pod; a silent node turns suspect | modelled, proved but for settling |
| warm tier `qss/warm.go` | segment files, open writer, latched error | append, roll, seal, sync, close, recover, retain | crash between any two steps | one log in order; synced entries survive; a stream is defined before use | modelled |
| scrape and evaluation loops, capture `cmd/obsd/main.go`, `replay/capture.go` | rings, epoch, tracker memory | Fetch, Ingest, Evaluate, Capture | two loops and one gate; the stamp taken before the gate | replay sees what the tick saw | modelled (manifest, topology file not) |
| matcher `detect/match.go` | none (pure) | Match, blast radius | certainty of paths, ambiguity, partial evidence | a full match is witnessed; less certain topology never convinces more | modelled, but for evaluation without topology or selection |
| cascades `detect/cascade.go` | instants of past findings | Observe, Recognize | the window's boundary, skipped ticks | the stories are those of the whole history | modelled, proved |
| unexplained channel `unexplained/` | open cards, recurrence map | Route, restart | a card's key drifts with its metrics | one story per entity, closed for the reason it states, counted once | modelled, proved |
| timeline `store/unexplained.go` | rows | UpsertUnexplained | transactions fail, restarts | rows agree with the tracker after a commit | modelled, proved |
| findings table `store/findings.go` | rows | upsert, query | as above, without a life cycle | | not modelled |
| normalizer, CEI `identity/normalize.go`, `cei.go` | none | Normalize, stream identity | label dialects, sandboxes, late rows | a ring holds readings of one cgroup and of the entity it is kept for | modelled, proved (kube-state-metrics dialect not) |
| observation `observe/` | none (rings are read) | scrape and ingest, ladder, rate, slope, rate guard, staleness, loudness | boundaries, resets, gaps, readings out of order | loud was read and is not stale; confidently quiet really was | modelled, proved |
| graph, overlays, releases `graph/` | a fixed release, manifests beside it | parse, merge, validate, pin, load | two files that declare the same thing; a tree that moves on | loads as pinned or not at all, and goes on loading | modelled |
| binding `binding/`, `cmd/obsd/binder.go` | last compiled result, its fingerprint and age | Compile, obtainability, semantic QA; Tick | limits missing or contradictory; snapshots and facts that fail; recreated pods | no pair goes missing; roles outlive instances; an edit is in force in time | modelled |
| selection `selection/`, `forecast/eligibility.go` | none | Tier A, Tier B | stale bindings, the ceiling | what it says of an entity is true | modelled |
| forecast pipeline and loop `forecast/`, `cmd/obsd/forecast.go` | frozen inputs, declared windows | decompose, guard, project, cycle | clock fails on some targets; inputs older than the rings | every target is a warning or a stated silence; the lanes never contradict | modelled |
| warning debouncer `api/warning_debounce.go` | held warnings, degraded since | Apply | silence for different reasons | an aging warning is recent and marginal; degradation is one stated run | modelled |
| governance `governance/`, `cmd/govern` | tree, releases, review, rollout | classify, diff, gate, verify, step, roll back | a change whose effect is wider than its class | an effect is classed; approval was tested; an advance was measured | modelled (intake not) |
| linter `tools/graphlint` | none | lint, strict gate | the runtime's rules written a second time | lint passes exactly what loads | modelled (schema not) |
| clock daemon `clockd/`, client `clock/` | none | Forecast RPC, health | it is remote | an input of the forecast cycle | client modelled, daemon external |
| API, chat, renderers, web console, tools, harness, Kubernetes client, params, version | views, files read once | | | presentation, input and output | not modelled |

## 2. Modules

Every module is followed by an `MC…` module with the small sets its `.cfg`
uses. An operator named `Slip…` is a plausible slip of the code, placed before
the definition it spoils; no specification uses one.

**`Lifecycle`**: the store under *any* sequence of calls. `rec`, `after` and
`dead` are `byCEI`, the per-name lists (as the relation "listed after") and
the tombstone heap. `Refresh` and `Discover` are the two halves of `Observe`
(lifecycle.go:167-238), `TerminateInstance` and `GC` the other operations;
each runs under the store's mutex and is one step, evictions included. `CapEvictions`
leaves ties of the heap open. `Lookup` and `TierOf` are the reads.

**`IdentityWatch`** extends it with a cluster that deletes and recreates a name,
an informer (one cache entry per name, notifications in order, `Relist` after
a broken watch, `Resync`), the handlers (`UpsertPod`, `DeletePod` in `Handle`),
and `Restart`. How a role is resolved (resolver.go) is not modelled: any role may arrive at any call. Cluster and
informer are external and modelled from the handlers' use of them.

**`EdgeStore`**: assertions of edges under stamps up to `Lag` behind and
`Lead` ahead of the clock. `Asserted` and `RetractedAs` are `assertLocked` and
`retractLocked`; every exported mutation is an action, `TraverseIn`, `Status` and
`NeighboursIn` the reads, `Snapshot`/`Rebuilt` edges_snapshot.go.

**`SelectsWatch`, `PlacementWatch`, `LeaseWatch`** extend it with the handlers of
edges_watch.go; **`NodeWatch`** is the node informer and handler the last two share. A handler is two steps or more, what it reads first (`ReconcileRead`,
`DeleteServiceRead`, `UpsertPodRead`, `DeletePodRead`, `LeaseRead`, `HandleNode`: clock, listers, identity store) and each call of
the edge store afterwards (`ReconcileWrite`, `DeleteService`, `UpsertPodRunsOn`, `UpsertPodMounts`, `DeletePod`, `LeaseWrite`, the two
of `DeleteNodeEdges`), so that other handlers act in between. `task`, `podTask`, `leaseTask` and `nodeTask` are what it has read.
Here the identity store is reduced to the one answer the handlers take from it.

**`WarmStore`** holds the warm tier as operators from a store to a store (the files,
`seg`, `idx`, `lastRecv`, the latched `err`; `SealLocked`, `EnsureSegment`,
`AppendSample`, `Tick`, `Sync`, `Close`, `Dead`, `Recovered`). **`Capture`**
composes it with the scrape loop (`Fetch`, `IngestSample`), the evaluation
loop (`TickEvaluate`, `TickCapture`, `TickNotCaptured`), the syncer, disk
failures, `Crash`, `CrashWhileSealing`, `Restart`, and replays the sealed
segments (`ReplayedTicks`, replay/engine.go). **`DurableLog`** is the abstract
promise of the warm tier to its callers: an ordered log whose unsynced end a
crash may take and whose beginning retention may forget.

**`Unexplained`**: one action per event. `Route` is the whole of a window's routing
(coverage, drift, closing, recurrence), then `UpsertUnexplained` writes the
window's cards in one transaction, or `UpsertFails`; `Restart` empties the tracker
and keeps the rows.

**`Matcher`** has the matcher as operators in the order of match.go: a check on one
fingerprint (`Usable`, `Holds`), reach (`Hop1`, `Hop2`, `Origin`), the three
verdicts on a member (`Met`, `Refuted`, neither), `IsFull`,
`CompleteEnough`, `Surfaces`, relatedness and the blast radius. **`Detect`** runs it
tick by tick with the cascade tracker (`Tick`, `Restart`); `surfaced` is a history
variable. A finding's `evidence` is what `Unexplained` takes as a match's `covers`.

**`Normalize`** turns a row into an entity, a drop or a quarantine and names its stream; **`Fingerprint`**
has the primitives over rings on exact fractions, and the materialisation of rates and thresholds.
**`Observe`** extends both with a pod that works, restarts and is recreated under its name, and the scrape
cycle (`ScrapeAll` of a collection up to `MaxLag` old, `ScrapeSpoilt`, `ScrapePartial`). The pod has two counters, of what happens and
of the periods it lives through, and cAdvisor serves a family of several rows told apart by a further label (`Labelled`); samples
carry what they are really about, which only the properties read. `ByTime` is the stable sort of a window, told by the place (`Rank`) of a reading in it.

**`Binding`** and **`Selection`** hold the binding engine and both funnels as operators. **`Binder`** runs them:
a `Tick` is `UseCached`, `SnapshotFails`, `Recompile` or `Crash`; `Edit` is the cluster, `Restart` the supervisor.

**`Forecast`** is the pipeline for one target, **`ForecastLoop`** the warm path around it: `Publish` is a
tick freezing its targets, `Add` an operator declaring an event, `Freeze` and `Finish` the two ends of a cycle with the clock
between them, `Pass` time, `Restart` the process.

**`Overlay`** has the loader and, next to it, the linter that mirrors it; **`ChangeClass`** the classification of
two releases and the diff of one cluster bound under both, with `Binding`, `Selection` and `Overlay`. **`Governance`**
composes them: the tree is edited (`EditOverlay`, `ReplaceBase`), a release is cut (`Cut`), a
proposal verified (`Verify`), a rollout run: the plan (`StartRollout`) and its stages one by one (`Report`). `govern verify` and
`govern rollout` are commands of their own that share nothing but the tree: `review` and `rollout` are what the last one made.

**`LifecycleProofs`, `TopologyProofs`, `UnexplainedProofs`, `DetectProofs`, `BinderProofs`,
`ForecastLoopProofs`, `GovernanceProofs`, `CaptureProofs`**: section 5.

## 3. Runs

Eleven runs pass, one exhibits a disagreement of a comment with the code. Distinct
states in parentheses.

| run | question | instance and why it suffices |
|---|---|---|
| `watch` (478 246) | is the store consistent, do late samples join their own object, does it end up agreeing with the cluster? | three incarnations of a name, deletion stamps one tick ahead, one slot, three instants, one restart: a deletion handled after the next birth, a missed one, and eviction under both. `LifecycleProofs` covers every other size of the store. |
| `selects` (103 407) | do two handlers recomputing one out-set settle on the slices? | two incarnations of the service, two slices, one pod moving between them twice; two notifications pending per queue |
| `placement` (196 649) | does a pod never have two live homes, and settle on the present one? | a node registered twice, one pod with a claim, a handler that takes up to one tick between read and write |
| `leases` (266 511) | is a silent node suspect on time, and are intervals sound? | a node registered twice with a clock one ahead, budget 1 of 4 instants, resyncs of old leases at any time. `TopologyProofs` covers stamps further off. |
| `capture` (611 974) | does the log survive, and does replay see what the tick saw? | two streams, two sets of bars, two cycles, two ticks, two runs, one fault; window 2, retention 1, rings of one sample: rolls, retention, a ring that overflows, a second epoch of bars in one process or after a restart, a crash at every step, a restart into the same window |
| `unexplained` (905 674) | is a story one card, and does the timeline agree? | a pod with three metrics and its node; six loudness patterns that grow, shrink and drift, matches that cover alone, together and across entities; four windows, failed transactions and restarts anywhere |
| `detect` (22 820) | does worse topology never convince more; are the cascades those of the history? | a container in a pod, a neighbour pod, their node; every verdict on both edges; one phenomenon per span, with a corroborating member; window 1 of 3 instants, ticks skipped |
| `binder` (25 276) | does a pair ever go missing, a reason lie, an edit stay unseen? | a pod recreated under its name, or whose role is corrected in place, its node, its claim; a rule of every kind; limits declared, changed, removed; a platform with and without the metrics pipeline; drift after 2 ticks; two edits of anything |
| `forecast` (57 482) | is what is shown recent, marginal at worst, and never contradicted by detection? | two targets whose series meet every guardrail (counter, flat, outlier, ramp after a restart, dip that recovers, two series); a clock that is silent, crosses narrowly, or wide; one declared event; bars that move |
| `governance` (237 862) | do lint and loader agree, and is what reaches a cluster classed, tested and measured? | two phenomena over three signals, two directories of two overlay files, some defective, three bases, one of them truncated; two releases, three edits; a rollout whose plan names its stages in another order |
| `observe` (417 480) | is a ring unmixed, and a verdict true? | two incarnations on nodes of both sandbox dialects, one restart, one shift of a gauge, collections up to two instants old; a window of 4 of 5 instants, a watermark of 2: gaps, resets, disorder, a missing divisor; a rate in millicores, a ratio of two counters, a family of two rows |
| `binder_pvc`, violated | `LoadedRulesBind` (binding/compile.go:285 against graph/overlay.go:485) | a co-occurrence rule over claims loads and stops the process at its first compile |

Deadlock is not checked where `CHECK_DEADLOCK FALSE` is given: clocks, counters and sequences
of incarnations are bounded, so every instance really stops. In `unexplained` it is checked.

`StoreSound`, `EdgeInv`, `HistoryKept`, `PlacementSound`, `SegmentsSound`, `ChannelSound` and `BindingsSound` are
conjunctions: the type invariant of their module and the named parts beside it.

What the properties say that a test would hardly reach:

* `LateSampleJoinsItsOwn`, `StoreSound`: the join stays right although recorded lifetimes *can* overlap (section 6).
* `SettledAudit`: whatever was lost before, a name whose notifications are handled audits clean.
* `HistoryKept`, `RevivedOnlyByRenewal`: no stale stamp brings an edge or a node back.
* `PlacementSound`: no order of resyncs and deletions leaves two homes or edges of a dead pod.
* `KeepsTheLog`: `Capture` implements `DurableLog` under the mapping `log <- EntryLog(store)`,
  `volatile <- VolatileEntries(store)`.
* `ReplaySeesWhatTheTickSaw`: rings and bars replay exactly; tracker memory differs by at most the
  ticks a write failure kept out of the bundle.
* `OneAgingCard`, `EveryWindowCountedOnce`: a drifting card is one story, and each window in which an entity had something
  unexplained is counted once among its kind's signatures, neither left out nor counted twice, until a restart begins anew.
* `FullIsWitnessed`: each required member of a full match holds at the end of a path of valid edges,
  stated without reference to how the matcher walks.
* `LessIsNeverMore`: make any edge worse and no full match appears, no finding gains evidence.
* `FingerprintTellsTheTruth`: what is loud is measured against what really happened to that container, and what is
  confidently quiet had two readings close together at the end of its window. A guard is judged where its metric is a counter;
  of thresholds only what is crossed is judged, not what is quiet; a ratio of two counters is judged by what happened of both between
  the same two instants, a family of several rows not at all (section 6);
  a crossing downwards is judged by its freshness and, where it is a level, by the newest reading: a reset only ever hides what happened.
* `SelectionIsTruthful`, `DriftIsBounded`, `RolesAbsorbChurn`: between an edit and the compile that sees it, through failing
  snapshots, nothing instrumented is called structural; how many bindings of a role are bound, unresolved or out of scope does not change
  when its pods are made again; and what keeps its identity, a limit or the role of a pod corrected when its owner is known
  (lifecycle.go:185), is taken up with the drift, as the inventory's fingerprint has only identities (binder.go:264).
* `ShownOrSilent`, `AgingIsMarginal`, `SoonIsNotNow`, `ContextIsClean`: the warm path holds a warning only over flicker, never
  beside a crossing that has happened, and never across an event known when it was made.
* `EffectIsClassed`: the diff of one cluster bound under two releases never exceeds what the class of the change says.
* `LintMirrorsLoader`: two independent implementations accept the same overlays, whichever file declares what.

## 4. Fairness

Only three properties are about what must happen; their specifications add:

* `WatchFairness`: handlers weakly fair (client-go's processor goroutine runs as long as the process);
  the reflector (`WatchEvent \/ Relist`) strongly fair, only because the model bounds the pending notifications:
  client-go's buffer is unbounded, so a delivery is never really disabled, while in the model a resync may take the last
  slot again and again.
* `SelectsFairness`, `PlacementFairness`: the same, and the resync timer and the
  clock go on (the daemon passes its `identity.reconciliation` parameter as the resync period, main.go:180, which must be positive, params.go:222). The clock is bounded, so the last tick waits (`Quiet`) until the informers have caught up: in the
  program a tick after the last change always comes. `PlacementSettles` needs the resync: a pod whose node is not yet known
  is skipped and nothing else asserts its edge.

No fairness is assumed of the cluster, of relists without a broken watch, of restarts or of any failure.

## 5. Proofs

Every theorem holds for every value of the constants that satisfies the named
assumptions of its module, which the runs evaluate on their instances. Most only type the constants. Those that say
more, and why the code makes them true:

* `WatchAssumption` (`IdentityWatch`), `PlacementAssumption`, `NodeAssumption`: the API server gives no UID twice, and a UID's object has one name.
* `WarmAssumption`, `CaptureAssumption`: a window has a width and a ring a capacity; a scrape cycle that brings nothing opens no segment and is no cycle here.
* `BinderAssumption`: a rule is kept under its id (a map of the loader), and a pod has a container (the API server rejects one without).
* `InstancesAssumption` (`Binder`), `InventoryAssumption` (`Governance`): inventory rows are unique by identity and by
  kind and name, and an identity is of one kind. That is `OneAlive` of `Lifecycle`, whose live records the rows are.
* `MatcherAssumption`: the completeness a degraded match needs is below 1 (params.go:254); edges join pods with nodes, claims and
  services, and a lease is an edge of a node to itself (identity/edges.go:31-35), so that the topology has two sides; a phenomenon
  has finitely many members.
* `FingerprintAssumption`: "well above" is no less than the bar itself, in percent (params.go:248 asks for more).
* `WindowAssumption` (`Observe`): an instant is a scrape cycle, and the readings taken from a ring reach over the rate window
  (fingerprint.go:333 pads the window by four cycles).
* `BindingAssumption` (`Observe`): a bar is a quantity, that of a guard is above zero, the metrics of a binding are typed, and the
  counters are those of the pod (`Counter`) and of its families of several rows.
* `RequiredMembersKeepTheirKind`, the hypothesis of two theorems about `Governance` and evaluated by `MCGovernance`: a required
  member of a phenomenon that is no signal (binding/report.go:64 knows such meta-members) is a signal in no base. The shipped data
  complies (all its members are signals), but nothing enforces it: section 6.

The modules, their inductive invariants and results:

* `LifecycleProofs`. Inductive invariant `StoreInv` with types: one live record per name,
  heap = dead residents, lists ordered by birth, cap, sound lifetimes. None is inductive alone: `OneAlive` after
  `Discover` needs that *all* live namesakes are closed, which is right because the list holds them
  (`ListIsByBirth`), whose preservation needs that evictions take the same records from map, lists and
  heap (`HeapIsTheDead`). Results: `TypeCorrect`, `SingleAlive`, `HeapExact`, `ListSorted`, `CapHolds`,
  `NoNegativeLifetime`, `AnswerIsYoungest`, `TombstonesAreFinal`, and `StoreIsSound`, which joins the first five
  as the property the `watch` run checks.
  The second half is about the watcher, under the full `WatchSpec`. `WatchInv` orders everything by `Pos`, the place of an
  incarnation among those of its name: the cluster's lifetimes follow it without overlap (`TruthInv`); the store recorded no other
  births and lists them in that order (`RecordsInv`); notifications in line follow it too, an end strictly before the next announcement
  (`QueueInv`); the store knows nothing younger than what is in line and holds nothing dead that is yet to be announced (`BehindInv`);
  an end finds its object announced before it or the only one alive (`DeletesInv`), which is what makes a skipped deletion harmless;
  and the line ends in what the cache holds (`TipInv`), so that an empty line means agreement. What the store's calls do to this
  is told by three abstractions of them, `Fades`, `Arrives` and "only the head of the line is taken". Results:
  `WatcherKeepsOrder` (the invariant), `WatchedStoreIsSound`, `SettledNamesAgree`, `LateSamplesJoinTheirOwn`. The last holds although
  *recorded* lifetimes overlap: what is listed later was born when the sampled object was already gone.
* `TopologyProofs`. The store first: `EdgeInv` = types, exact indexes and sound intervals; `RetractionsAreFinal` and
  `ConfirmationsAreMonotone` are action properties from it, joined in `HistoryIsKept`; `ReplayWalksTheSame` needs the indexes to be exact.
  The step lemmas are about `StoreStep`, any call with any stamp but Go's zero time, so that the watchers, whose steps are all
  such calls, inherit them (`LeaseStoreSound`, `LeaseHistoryKept`, `PlacementStoreSound`, `PlacementHistoryKept`).
  Leases: `LeaseInv` adds that every renew time on its way (cache, queue, handler under way) is one the
  node gave, hence no later than `newest`, and so is what the store holds as confirmed (`ConfirmedByRenewals`). A stale lease can
  then not postpone suspicion: `SilentNodesAreSuspect`, `StaleLeasesReviveNothing`.
  Placement: `PlacementInv` adds that two live homes of a pod are one (`OneRunsOn`, a step lemma about `ReconcileOut`); that a
  handler at work holds the head of its queue, so that it writes for no other pod; that a pod not yet made has no live edge; and
  that once the cache has dropped the last pod, its notifications in line end with its deletion, or that has been handled and no
  edge of it is live (`UnseenHasEnded`). The last is not inductive without the others: a write after the deletion must be one for
  another pod, and the next pod of the name must begin with no edge. Result: `PlacementsAreSound`.
* `UnexplainedProofs`. `UnexpInv` relates cards, reports and rows: one card per scope makes `Origins`
  at most a singleton, from which a card's origin and its history are determined. `RecurInv` adds that the windows of a kind's signatures
  sum to what was heard of the kind (the history `heardFrom`), and that the occurrences of each open card are counted under the signatures
  kin to it: `EveryWindowCountedOnce` then follows from lemmas about the fold over signatures (`CountedGrows`, `CountedGains` and their
  neighbours), which go by induction over the size of the set. Every property of the run is proved.
  The second half is about `Observe`, which says what the channel hears of. `ObserveInv` has four parts: the past that a collection
  can still report (`PastOK`); every ring holds readings that belong to its stream and, unless it is of a family of several rows, are dated so
  that the one k places before the last is at least k cycles old, and one cycle older still while the ring has yet to be served (`StoreOK`);
  the rings of the two counters of an incarnation are as long as each other and dated alike (`Paired`); and all readings of a counter, with
  those that may still arrive, tell one story (`OneStory`): of two of an incarnation, the later has no less work and restarts behind it, and its
  counter has grown by what happened in between, or, restarted, shows no more than that. The dates are needed because readings arrive out of order: only they show that the readings cut
  off by `LastN` are out of the window (`ReadingsAreUnmixed` needs only what belongs where). Then, from the invariant and for one ring: the sorted window is the chosen readings and
  no others (`Rank` is one to one), the run that ends it has no gap and is all of it when no gap is found, the rises of a run
  never count more than what happened and count all of it when nothing restarted, and on the ladder only what is beyond its bar
  is called crossed. For a ratio of two counters, paired rings have windows and latest runs in step (`WindowsInStep`, `RunsInStep`), so that
  what the one counted is set against what the other counted between the same two instants (`RatioOfCounters`). Result: `FingerprintsTellTheTruth`.
* `DetectProofs`. `DetectInv`: the tracker is the part of the run's history within the window at the last tick,
  so that (lemma `PruningCommutes`) pruning before and after noting a tick's findings comes to the same because
  the clock strictly advances. Results: `DetectTyped`, `PruningShowsInNoStory`, `WarnedBeforeTold`.
  Then the matcher itself: the best of a set of verdicts is valid exactly if one is (`BestOf`), so that one and two hops are told
  by two relations, "joined" and "joined for sure" (`Hop1Is`, `Hop2Is`), and both shrink with the verdicts (`LessJoins`). Two sides
  mean that two hops never lead back to a neighbour (`NoWayBack`), hence a worse edge takes targets away and adds none
  (`LessReach`, `LessHits`). Results: `FullMatchIsWitnessed`, `LessCertaintyIsNeverMore`.
* `BinderProofs`. `BinderInv`: either nothing is kept, or what is kept is `Result(lastInventory, compiled, ...)` of a sighting and
  the selection was made from it, current exactly when the inventory is still the one compiled for. It is needed because a tick
  whose snapshot or facts fail goes on with an older result. What the properties say then follows from lemmas
  about `Compile`, `Select` and the role aggregate: `BindingsStaySound` (every pod and node has a binding of every rule of its scope),
  `SelectionStaysTruthful`, `RolesStayAbsorbing` (renaming rows bijectively leaves the aggregate), `DriftStaysBounded`.
* `ForecastLoopProofs`. `LoopInv`: the cycle under way is later than all that was published, what is held is the card of the
  key's last projection and has been silenced only by margins since, and the view shows exactly what is held. Before it, what the
  pipeline makes of one target: which silences are marginal, that the context of a projection holds no declared event, that a card
  lies in order. Results: `EveryTargetIsShownOrSilent`, `HeldAcrossMarginsOnly`, `LanesNeverContradict`,
  `ProjectionsKeepTheirContext`, `DegradedSpellIsStated`: every property of the run.
* `GovernanceProofs`. `RolloutInv` ties the stage to what was reported (`RolloutsAreHonest`); `TreeInv`, `ReleasesInv` and `ReviewInv`
  say that pins stand for known contents and a review for its two pins, whatever became of the tree (`ReleasesStayLoadable`).
  `EffectsAreClassed` is the long one: each kind of effect (a binding, its bar, an obtainability verdict, a finding of the semantic QA, a
  selection record) is traced to the fields of the graph it is computed from, and a difference in these to the class the code gives it.
  `ApprovalsAreTested` follows from the review and the gates. `LintAgreesWithLoader` is by induction over the overlays: after as many
  files the loader has grown exactly the graph the files it took declare (`Took`, `Together`), so that what it asks of the next file
  against the grown graph is what the linter asks of its flattened lists (`FlattenIs`, `Fits`).
* `CaptureProofs`. `CaptureInv` says what the loops, the epochs and the store hold. For the store (`StoreOK`): one file is open or
  left over, its name is a window's start, and every stream indexed is defined in the open file (`FilesOK`); while the process
  writes, no file is left over beside its own (`Writing`). It is argued operation by operation, from `EnsureSegment` upwards, and
  gives `SegmentsAreSound`.
  `TheLogIsKept` is the refinement of `DurableLog`. `LogInv` adds what makes the *sorted directory* an arrival order: the sealed names
  can be listed in replay order (`Ordered`) and also end in that order (`Ends`); a file that is open or left over begins after every
  sealed one ended, or begins with the boundary of a run no earlier than that (`AfterSealed`, `Behind`); a linked file has its sealed
  name already; the newest stamp of the writer is its newest frame's and inside the window (`Stamped`), and none is later than the
  clock (`Until`); a writer without a file has its run boundary pending and opens after all that is sealed (`MayOpen`). Lemmas on
  sequences say that sealing appends to the listing and retention cuts its beginning (`ListedMore`, `ListedFewer`, `FilesOfConcat`)
  and that the entries of joined frames are the joined entries (`EntriesConcat`). Each operation then appends the boundary of the run,
  if it is pending, and its one frame (`Operates`), or nothing (`Settles`), or cuts the end (`Cuts`), and these are the steps of the
  abstract log.
  `ReplayIsFaithful` stands on that log. `ReplayInv` says that a replay of the whole log, sealed or not, has only faithful ticks and
  *stands where the process stood* before the evaluation at work: once the boundary of the run is in the log it has the rings, and the
  trackers but for at most `faults` ticks; until then the process has neither (`Follows`, `Stands`). The evaluation at work must be set
  apart because the trackers observe it before its tick is written, and no sample can come in between because of the gate. Three facts
  about replay carry it through every step, each by induction over the log: entries forgotten at its beginning change no tick whose run
  boundary is left (`Agrees`, `ReplayLater`); a log cut at its end, or the sealed part of it, has some of its ticks (`ReplayMore`); and a
  further bars file changes nothing, as no tick names an epoch that was not yet written (`Numbered`, `ReplayOther`). A store that refuses
  writes need not keep up with the process, whose ticks then reach no log. Definitions are no entries and change nothing (`ReplayEntries`).

`StoreIsSound`, `TombstonesAreFinal`, `EdgeInvInductive` and `HistoryIsKept` are about the stores under *any* calls.

Only model-checked: the three liveness properties `EventuallyMatches`, `SelectsSettles` and `PlacementSettles`, since liveness is beyond
the prover. Every other property of the passing runs is stated by a theorem.

The induction theorems of the library take an operator and cannot be used. Where a proof is by induction over data it states its claim as
the set of the numbers it holds for, and uses `NatInductive`, proved from the well-foundedness of the naturals.

## 6. What the code does not promise

Met while modelling; each was exhibited by a run at some point, or is read directly from the code. The one that stops
the process is kept as the violated run.

* A co-occurrence rule over claims passes the loader, which asks no bar fields of it (graph/overlay.go:485), and
  the first compile on a cluster with a claim reads its missing default (binding/compile.go:285): `binder_pvc`.
  No shipped rule is one.

Identity and edges:

* Recorded lifetimes of a name overlap when a deletion is handled before the successor is observed and is stamped after
  its birth (lifecycle.go:163-165, 200, 354). Lookups stay right all the same (`LateSampleJoinsItsOwn`).
* A slice reconcile that read the service before its deletion and writes afterwards leaves a live edge nobody retracts
  (edges_watch.go:154 against 15).
* A recreated pod scraped before the informer tells of it joins its predecessor.
* A sweep changes an answer: a tombstone past the stub horizon reads as absent, but once it is
  collected an older record that overlaps it answers (lifecycle.go:316 against 23-24, 304).
* Succession is linked only when the recreation is handled before the deletion (lifecycle.go:199 against docs/03:42).
* A resync that runs when the intermediate controller has left its lister replaces a resolved role by the partial one (lifecycle.go:185 against 177-179).
* An edge asserted again forgets its former interval, whatever the horizon (edges.go:206 against docs/14:33).
* `reconcileService` retracts only what it reads; edges a slice still lists can be torn down until the next resync (edges_watch.go:154 against 121).
* An edge to a node deleted between the lookup and the write stays live until the pod's next update (edges_watch.go:44 against 203).
* An edge retracted late is valid for windows after the pod's end (edges.go:306 against 303), and a resync from a
  stale cache keeps a dead pod's edge fresh (edges_watch.go:34 against docs/14:25).

Log, replay, channel, matching:

* A crash between link and remove of a seal makes every later `OpenWarm` refuse the taken name (warm.go:364-371 against 126-129). Nothing is lost.
* Retention deletes samples that the first retained ticks read: those ticks do not replay alike (warm.go:390 against replay/engine.go:99, docs/11:21).
* A tick left out because the bars file could not be written has already moved the trackers, so that later ticks replay
  with less memory (main.go:659 against engine.go:170).
* After the clock was set back between runs, the newer run's segments sort before the older ones' (warm.go:294).
* The recurrence map does not survive a restart, though candidate.go:17 says it accumulates across runs.
* A drifted card leaves its old key's row in the timeline as "aging" for good (store/unexplained.go:51-53, route.go:188).
* A corroborating member reached only over a suspect edge degrades a match, its absence does not: *removing* that edge can
  turn a degraded match into a full one. `LessIsNeverMore` therefore says that what is full matched before, and is strict for edges that turn suspect only.
* A rate guard with fewer than two samples, or two of one instant, and no gap reads as a confident "not breached"
  (fingerprint.go:301-305 looks for gaps only).
* Series of one cAdvisor family that differ in a further label (interface, device, failure_type) share the one ring of their entity
  (scrape.go:232, 275-278): values of the two alternate, and every step down reads as a reset. The model has such a family, `RingsAreUnmixed`
  grants the sharing in so many words, and nothing is claimed of verdicts on it. No shipped rule reads one.
* A ratio of a counter and a gauge reads a confident 0 over a window whose latest run has one reading (fingerprint.go:322-327 counts the
  window's readings, not the run's). Over another counter that is 0 too and the component is dropped.
* A sample stamped ahead of the clock counts as the newest and delays staleness, while the rate's window leaves it out.

Binding and selection:

* Configuration rows are looked up by namespace and name, not by UID. Node rules read allocatable memory whatever
  their path says.
* `configDriftRebindTicks` says every 4th tick; the code recompiles every 5th. A periodic recompile that fails while the
  configuration drifted is not stated as stale.
* The Tier B funnel keys pairs by pod and metric: of a pod with several containers the first binding decides
  (eligibility.go:47-49 says every pair has a visible state). It ignores a failed validation, which Tier A respects.
* The funnel that "provably covers everything detection could fire on" misses a spanned phenomenon that has only
  neighbour checks and an anchor of no phenomenon of its own.

Forecast:

* A clock timeout drops held warnings at once, and an aging card shows the bar of its last projection.
* `LatestAt` may precede `CrossAt` where the point lies below the lower quantile; a reset at the very last point is not spliced.

Ontology and governance:

* A required member of a phenomenon that is no signal and becomes one in the next release moves what is observable below the
  behavioural class (changeclass.go compares the members and calls the new signal additive).
* A completed rollout can be stepped again with the unhealthy report of another stage (rollout.go:176). It is not tied to a
  verification and asks neither for the releases it names to be committed nor for them to be two (cmd/govern/main.go:244-257). The stage
  names of its plan are never compared (rollout.go:13-15): what is rolled back is recorded under the stage reported, what goes on under the
  one it is at (rollout.go:170).
* Ledger and review are pinned to a release by name only. Two past releases can be compared only while both load; a file that a past release names, edited in place, ends that.
* `Classify` ignores a signal's tools, capabilities and gates (changeclass.go:120-137), and an added tool is additive though it changes what is
  obtainable. A changed window or divisor is normative but shows in no diff.
* Walks that two overlays declare for the same span are overwritten by the later one.
* The linter ignores spans declared in the base file and declared totals, and reads `.YAML` where the loader does not. It refuses an overlay
  whose name is blank (tools/graphlint/overlay.go:158), which the loader takes (graph/overlay.go:287). All of this is outside
  `LintMirrorsLoader`, and so is an id that a base gives to nodes of two types. A verdict without a ledger is advisory.

## 7. Abstractions

* Instants are small naturals and 0 is Go's zero time. Clocks never go back (section 6 has what
  happens at a restart if one does). One receive stamp per scrape cycle, as in main.go.
* Keys, names, metrics and payloads are model values. Texts, labels, notes and counters are left out.
* Store operations under one mutex are one step; handlers that read before they lock are several.
* Segment frames survive a crash whole or not at all (the checksum rejects torn ones); a frame over the size
  bound, the manifest and the topology file are left out of `Capture`.
* The loudness rule and the matches are inputs of `Unexplained`; fingerprints and edge verdicts are inputs of `Detect`
  (their rules are in `Fingerprint` and `Matcher`).
* `Observe` takes the identity store to know who held a name at every instant (`IdentityWatch` says when it does), and
  sample stamps never to be ahead of the clock. One cycle per instant, which may bring nothing. The
  kube-state-metrics dialect is left out because nothing fetches it; so is overflow of floats.
* `Binder` compiles against names, as the code does. Stream evidence is any of a few sightings, not the rings of `Observe`.
* `Forecast` takes any answer of the requested shape from the clock. Traces and the switch that turns decomposition off are left out.
* `Governance`: a file is what it declares; the JSON schema, the intake queue and text renderings are left out.
* `Matcher` has one definition for entity-local and spanned evaluation (`SpanBoundsTheWalk` makes the first a case of the
  second), and leaves out evaluation without a topology or without a selection. Edges are bipartite (pods against
  nodes, services, claims), so two hops never lead back to a neighbour.
* Bounds, all named constants or operators: `MaxTime`, `MaxStep`, `MaxWindows` (clocks, windows), `MaxPending`,
  `MaxHandling`, `MaxBusy` (queues, handlers, a cycle), `MaxGrace`, `MaxSkew`, `MaxLag`, `Lag`, `Lead` (stamps), `MaxCycles`,
  `MaxTicks`, `MaxRuns`, `MaxRestarts`, `MaxFaults`, `MaxChanges`, `MaxEdits`, `MaxWork`, `MaxShifts`, `MaxIncarnations`,
  `Slots`.

## 8. Plan

Done, in this order: `Lifecycle` and its proofs, `IdentityWatch`, `EdgeStore` and its proofs, the three
watch modules, `WarmStore`/`DurableLog`/`Capture`, `Unexplained` and its proofs, `Matcher`/`Detect` and its proofs,
`Binding`/`Selection`/`Binder`, `Forecast`/`ForecastLoop`, `Overlay`/`ChangeClass`/`Governance`,
`Normalize`/`Fingerprint`/`Observe`; then the proofs about `ForecastLoop`, `LeaseWatch`, `Governance`, `Binder`, `IdentityWatch` and the
matcher; then `NodeWatch`, shared by the two watchers of nodes, with the proofs about `PlacementWatch`, the counting of windows, the
linter against the loader, the warm tier (`SegmentsAreSound`, `TheLogIsKept`) and its replay (`ReplayIsFaithful`), and
`Observe` (`ReadingsAreUnmixed`, `FingerprintsTellTheTruth`).

Next, most important first:

1. `Observe` composed with `Detect` and `Unexplained`, so that their inputs are reachable ones.
2. The findings table, and a failed commit of it next to one of the timeline.
3. The kube-state-metrics dialect and the counters of the join audit; the intake queue of governance.

Not worth a model: views, renderers, the web console, the chat and the tools hold no state that a decision reads; the Kubernetes
client and the parameters are input; the harness is offline statistics; the clock daemon is numerics.
