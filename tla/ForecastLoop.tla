----------------------------- MODULE ForecastLoop -----------------------------
(* The warm path: cmd/obsd/forecast.go with the debouncer of the warnings    *)
(* and the operators' context windows (internal/api).  A cycle freezes what  *)
(* the latest tick published, the streams and the declared boundaries, asks  *)
(* the clock without a lock, and publishes a view; ticks and operators go on *)
(* meanwhile.                                                                *)
EXTENDS Forecast

CONSTANTS
    TargetSets,   \* what ticks publish: sets of targets [key, bar, dir]
    Values,       \* what the rings may hold of a key: key -> set of sightings,
                  \* each a set of [type, values]
    Answers,      \* what the clock may answer, as sets of at most one
    Cadence,      \* the scrape interval
    ClearAfter,   \* how long a warning is held past its last projection
    Ago,          \* how long ago a declared event may have begun
    Reach,        \* spliceRelevanceWindow
    Start,        \* when the model begins
    MaxTime, MaxWindows, MaxBusy   \* bounds

(* Instant 0 is time.Time{}; the client refuses an answer of another shape.  *)
ASSUME LoopAssumption ==
    /\ {Cadence, Start} \subseteq Nat \ {0} /\ Ago \subseteq Nat
    /\ {ClearAfter, Reach, MaxTime, MaxWindows, MaxBusy} \subseteq Nat
    /\ \A ts \in TargetSets : \A t \in ts : t.key \in DOMAIN Values
    /\ \A k \in DOMAIN Values : \A sighting \in Values[k] : \A s \in sighting : s.values \in Seq(Int)
    /\ \A answer \in Answers : \A fc \in answer : {fc.point, fc.lower, fc.upper} \subseteq Seq(Int)

None == [targets |-> {}, live |-> FALSE]

VARIABLES
    now,
    inputs,     \* the inputs the latest tick published: None or [targets, live]
    windows,    \* the boundaries operators declared that may be spliced at
    cycle,      \* the cycle under way: a set of at most one
    held,       \* the debouncer: key -> [card, first, projected]
    degraded,   \* degradedSince, 0 when healthy
    view,       \* the published view: a set of at most one, not kept while the
                \* next cycle is under way
    marginal,   \* history: the keys whose every cycle since their last projection
                \* ended at the margin of a guardrail
    projected,  \* history: key -> the cycle of its last projection
    lastGood    \* history: the last cycle in which nothing was wrong

vars == <<now, inputs, windows, cycle, held, degraded, view, marginal, projected, lastGood>>

Keys == DOMAIN Values
NoCards == [k \in {} |-> {}]

Init ==
    /\ now = Start /\ inputs = None /\ windows = {} /\ cycle = {}
    /\ held = NoCards /\ degraded = 0 /\ view = {}
    /\ marginal = {} /\ projected = [k \in Keys |-> 0] /\ lastGood = Start - 1

-----------------------------------------------------------------------------
(* Around the loop.                                                          *)
Pass ==
    /\ now < MaxTime /\ \A c \in cycle : now < c.at + MaxBusy
    /\ now' = now + 1
    /\ UNCHANGED <<inputs, windows, cycle, held, degraded, view, marginal, projected, lastGood>>

(* A tick bound the graph and froze the budgeted targets (inventoryLoop).    *)
Publish ==
    /\ \E ts \in TargetSets : inputs' = [targets |-> ts, live |-> TRUE]
    /\ UNCHANGED <<now, windows, cycle, held, degraded, view, marginal, projected, lastGood>>

(* An operator declares a deploy or a configuration change that has begun;   *)
(* windows of other kinds are no boundaries.                                 *)
Add ==
    /\ Cardinality(windows) < MaxWindows
    /\ \E ago \in Ago : windows' = windows \cup {now - ago}
    /\ UNCHANGED <<now, inputs, cycle, held, degraded, view, marginal, projected, lastGood>>

-----------------------------------------------------------------------------
(* What the rings hold now: values become samples up to the present.         *)
Sighted(sighting) ==
    {[type |-> s.type,
      history |-> [i \in DOMAIN s.values |->
                      [at |-> now - Cadence * (Len(s.values) - i), value |-> s.values[i]]]] : s \in sighting}

SplicePoints(ws) == {t \in ws : t > now - Reach}

TargetOf(targets, k) == CHOOSE t \in targets : t.key = k

(* The copy under the store gate, the declared boundaries, and what the      *)
(* guardrails before the clock make of the copy.  Without inputs the cycle   *)
(* is skipped.                                                               *)
Freeze ==
    /\ cycle = {} /\ inputs.live
    /\ \A v \in view : v.at < now
    /\ \E seen \in [{t.key : t \in inputs.targets} -> UNION {Values[k] : k \in Keys}] :
          /\ \A k \in DOMAIN seen : seen[k] \in Values[k]
          /\ cycle' = {[at |-> now, targets |-> inputs.targets, splices |-> SplicePoints(windows),
                        ready |-> [k \in DOMAIN seen |->
                            Prepared(TargetOf(inputs.targets, k), Sighted(seen[k]), SplicePoints(windows))]]}
    /\ view' = {}
    /\ UNCHANGED <<now, inputs, windows, held, degraded, marginal, projected, lastGood>>

-----------------------------------------------------------------------------
(* The debouncer: fresh warnings replace what is held; what is held and not  *)
(* projected again stays, aging, while this cycle silenced it at the margin  *)
(* of a guardrail and its last projection is recent.                         *)
Holdable == {"band-too-wide", "no-crossing-within-horizon"}

Fresh(cards, at) ==
    [k \in {c.key : c \in cards} |->
        LET card == CHOOSE c \in cards : c.key = k
        IN  [card |-> card, projected |-> at,
             first |-> IF k \in DOMAIN held THEN held[k].first ELSE card.basis]]

SlipHoldsAnything(fresh, reason, at) ==
    {k \in DOMAIN held \ fresh : at - held[k].projected =< ClearAfter}

Kept(fresh, reason, at) ==
    {k \in DOMAIN held \ fresh :
        /\ k \in DOMAIN reason /\ reason[k] \in Holdable
        /\ at - held[k].projected =< ClearAfter}

Warning(h, aging) == [card |-> h.card, first |-> h.first, aging |-> aging]

SlipShownIsSilent(shown, reason) == [k \in {x \in DOMAIN reason : reason[x] # ""} |-> reason[k]]

Silences(shown, reason) == [k \in {x \in DOMAIN reason : reason[x] # "" /\ x \notin shown} |-> reason[k]]

SlipStampsEveryCycle(bad, at) == IF bad THEN at ELSE 0

DegradedSince(bad, at) == IF ~bad THEN 0 ELSE IF degraded = 0 THEN at ELSE degraded

(* The targets a boundary frozen with the cycle lies inside the context of.  *)
Across(c) == {k \in DOMAIN c.ready : \E t \in c.splices : c.ready[k].from < t /\ t =< c.ready[k].basis}

(* The surface of one cycle, with what the properties ask of what it judged. *)
BuildWarnings(c, bad, warnings, silences, fresh) ==
    [at |-> c.at, ready |-> ~bad, since |-> DegradedSince(bad, c.at),
     warnings |-> warnings, silences |-> silences,
     judged |-> [keys |-> DOMAIN c.ready, across |-> Across(c) \cap fresh,
                 past |-> {k \in DOMAIN c.ready : c.ready[k].past}]]

(* The answers are in, that of the health call too: judge, debounce and      *)
(* publish.                                                                  *)
Finish ==
    \E c \in cycle, healthy \in BOOLEAN :
    \E answers \in [{k \in DOMAIN c.ready : c.ready[k].reason = ""} -> Answers] :
        LET verdicts == {[key |-> k,
                          of |-> RunTarget(TargetOf(c.targets, k), c.ready[k],
                                           IF k \in DOMAIN answers THEN answers[k] ELSE {}, Cadence)] :
                             k \in DOMAIN c.ready}
            cards == UNION {v.of.cards : v \in verdicts}
            reason == [k \in DOMAIN c.ready |-> (CHOOSE v \in verdicts : v.key = k).of.reason]
            fresh == Fresh(cards, c.at)
            kept == Kept({x.key : x \in cards}, reason, c.at)
            shown == {x.key : x \in cards} \cup kept
            bad == ~healthy \/ \E v \in verdicts : v.of.reason = "clock-degraded"
        IN  /\ cycle' = {}
            /\ held' = [k \in shown |-> IF k \in kept THEN held[k] ELSE fresh[k]]
            /\ degraded' = DegradedSince(bad, c.at)
            /\ view' = {BuildWarnings(c, bad, [k \in shown |-> Warning(held'[k], k \in kept)],
                                      Silences(shown, reason), {x.key : x \in cards})}
            /\ marginal' = DOMAIN fresh \cup {k \in marginal \cap DOMAIN reason : reason[k] \in Holdable}
            /\ projected' = [k \in Keys |-> IF k \in DOMAIN fresh THEN c.at ELSE projected[k]]
            /\ lastGood' = IF bad THEN lastGood ELSE c.at
            /\ UNCHANGED <<now, inputs, windows>>

(* The process dies: everything of the warm path is memory.                  *)
Restart ==
    /\ inputs' = None /\ windows' = {} /\ cycle' = {} /\ held' = NoCards /\ degraded' = 0 /\ view' = {}
    /\ marginal' = {} /\ projected' = [k \in Keys |-> 0] /\ lastGood' = now - 1
    /\ UNCHANGED now

Next == Pass \/ Publish \/ Add \/ Freeze \/ Finish \/ Restart

Spec == Init /\ [][Next]_vars

-----------------------------------------------------------------------------
(* Every target of the cycle is either a warning or a silence with a reason, *)
(* never both and never neither, and nothing else is shown: a target that    *)
(* left the funnel leaves the surface with it.                               *)
ShownOrSilent ==
    \A v \in view :
        /\ DOMAIN v.warnings \cap DOMAIN v.silences = {}
        /\ DOMAIN v.warnings \cup DOMAIN v.silences = v.judged.keys

(* A warning that is not of this cycle is flicker and nothing else: each     *)
(* cycle since its projection silenced it at the margin of a guardrail, and  *)
(* that projection is recent.  A clock that failed, a bar that was crossed   *)
(* or a series that went flat in between ends it at once.                    *)
AgingIsMarginal ==
    \A v \in view : \A k \in DOMAIN v.warnings :
        v.warnings[k].aging =>
            /\ projected[k] # 0 /\ v.at - projected[k] =< ClearAfter
            /\ k \in marginal

(* The two lanes never contradict: what is shown as about to cross, fresh or *)
(* aging, is short of the bar of the cycle's target in the samples that were *)
(* judged, and what is fresh crosses within its band, after its basis.       *)
SoonIsNotNow ==
    \A v \in view : \A k \in DOMAIN v.warnings :
        LET w == v.warnings[k] IN
        /\ k \notin v.judged.past
        /\ w.card.basis < w.card.earliest /\ w.card.earliest =< w.card.cross
        /\ w.first =< w.card.basis

(* No projection runs across an event that was known when it was made.       *)
ContextIsClean == \A v \in view : v.judged.across = {}

(* A degraded clock is stated for exactly the unbroken run of cycles in      *)
(* which it was: since the first one after the last cycle that was good.     *)
DegradedIsStated ==
    [][/\ degraded # 0 /\ degraded' # 0 => degraded' = degraded
       /\ \A v \in view' :
             /\ v.ready = (v.since = 0) /\ v.ready = (lastGood' = v.at)
             /\ v.since # 0 => lastGood' < v.since /\ v.since =< v.at
             /\ (\E k \in DOMAIN v.silences : v.silences[k] = "clock-degraded") => ~v.ready]_vars
=============================================================================
