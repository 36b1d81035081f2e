------------------------------- MODULE Forecast -------------------------------
(* The forecast pipeline of internal/forecast for one target: what is cut    *)
(* from its context, which guardrail silences it, and what one answer of the *)
(* clock becomes.  Operators only; module ForecastLoop runs them in cycles.  *)
(*                                                                           *)
(* A series is a sequence of [at, value], oldest first; fractions are        *)
(* percentages.                                                              *)
EXTENDS Integers, Sequences, FiniteSets, FiniteSetsExt, SequencesExt

CONSTANTS
    MinContext,       \* samples below which nothing is projected
    DropPercent,      \* ResetDropFraction
    PersistWindow,    \* resetPersistWindow
    MaxExplained,     \* MaxExplainedFraction
    FlatPercent,      \* FlatEpsilon
    FlatTail,         \* the steps the flatness looks back
    MaxBand           \* MaxBandRatio

ASSUME ForecastAssumption ==
    /\ MinContext \in Nat \ {0, 1} /\ PersistWindow \in Nat /\ FlatTail \in Nat \ {0}
    /\ {DropPercent, MaxExplained, FlatPercent, MaxBand} \subseteq 0..100

RecoverPercent == 90

-----------------------------------------------------------------------------
(* Decomposition: the context begins at the latest known event, a restart    *)
(* seen in the values or a boundary an operator declared.                    *)
Span(h) == Max({s.value : s \in ToSet(h)}) - Min({s.value : s \in ToSet(h)})

SharpDrop(h, i) ==
    LET prev == h[i - 1].value cur == h[i].value IN
    /\ prev > 0 /\ 100 * cur < prev * (100 - DropPercent)
    /\ Span(h) > 0 => 100 * (prev - cur) >= DropPercent * Span(h)

(* A dip climbs back to the level before it; a restart stays low.            *)
Recovered(h, i) ==
    \E j \in (i + 1)..Min({i + PersistWindow, Len(h)}) :
        100 * h[j].value >= RecoverPercent * h[i - 1].value

(* A drop at the very last point cannot be confirmed.                        *)
Resets(h) ==
    IF DropPercent = 0 THEN {}
    ELSE {i \in 2..(Len(h) - 1) : SharpDrop(h, i) /\ ~Recovered(h, i)}

(* The first sample at or after a declared boundary, with history before it. *)
SplicedAt(h, splices) ==
    {i \in 2..Len(h) : \E t \in splices : h[i - 1].at < t /\ t =< h[i].at}

SlipEarliestEvent(h, splices) ==
    LET events == Resets(h) \cup SplicedAt(h, splices)
    IN  [aborted |-> FALSE, spliced |-> events # {},
         series |-> IF events = {} THEN h ELSE SubSeq(h, Min(events), Len(h))]

Decompose(h, splices) ==
    LET events == Resets(h) \cup SplicedAt(h, splices)
        cut == Max({1} \cup events)
        rest == SubSeq(h, cut, Len(h))
    IN  [aborted |-> /\ events # {}
                     /\ \/ MaxExplained > 0 /\ 100 * (cut - 1) > MaxExplained * Len(h)
                        \/ Len(rest) < MinContext,
         spliced |-> events # {},
         series |-> rest]

-----------------------------------------------------------------------------
(* The guardrails before the clock is asked.                                 *)
Past(v, bar, dir) == IF dir = "below" THEN v =< bar ELSE v >= bar

(* The deviation of the tail relative to its last level, without roots.      *)
Flat(h) ==
    LET tail == SubSeq(h, Max({1, Len(h) - FlatTail + 1}), Len(h))
        n == Len(tail)
        sum == FoldSeq(LAMBDA s, a : s.value + a, 0, tail)
        squares == FoldSeq(LAMBDA s, a : s.value * s.value + a, 0, tail)
        spread == n * squares - sum * sum
        level == Last(tail).value * n
    IN  /\ FlatPercent > 0
        /\ IF level = 0 THEN spread = 0
           ELSE 10000 * spread < FlatPercent * FlatPercent * level * level

SlipCrossedProjects(t, d) ==
    IF d.aborted THEN "decomposition-aborted" ELSE IF Flat(d.series) THEN "flat-series" ELSE ""

SeriesSilence(t, d) ==
    IF d.aborted THEN "decomposition-aborted"
    ELSE IF Past(Last(d.series).value, t.bar, t.dir) THEN "already-crossed"
    ELSE IF Flat(d.series) THEN "flat-series" ELSE ""

(* A sighting is the set of the target's streams: [type, history].           *)
StreamSilence(streams) ==
    CASE streams = {} -> "no-stream"
      [] Cardinality(streams) > 1 -> "ambiguous-stream"
      [] OTHER ->
            LET s == CHOOSE x \in streams : TRUE
            IN  IF s.type = "counter" THEN "counter-stream-deferred"
                ELSE IF Len(s.history) < MinContext THEN "short-context" ELSE ""

(* What a target brings to the clock, or the reason it does not.  "past" is  *)
(* what detection sees at the same instant, whatever the reason.             *)
Prepared(t, streams, splices) ==
    LET s == CHOOSE x \in streams : TRUE
        d == Decompose(s.history, splices)
        silent == StreamSilence(streams)
    IN  IF silent # "" THEN [reason |-> silent, past |-> FALSE, basis |-> 0, from |-> 0, spliced |-> FALSE]
        ELSE [reason |-> SeriesSilence(t, d),
              past |-> Past(Last(s.history).value, t.bar, t.dir),
              basis |-> Last(s.history).at, from |-> Head(d.series).at, spliced |-> d.spliced]

-----------------------------------------------------------------------------
(* One answer of the clock, [point, lower, upper], against the bar: the step *)
(* of the first crossing, 0 for none.                                        *)
CrossIndex(traj, bar, dir) ==
    LET past == {i \in DOMAIN traj : Past(traj[i], bar, dir)}
    IN  IF past = {} THEN 0 ELSE Min(past)

(* The edge that crosses soonest may lead the point, never follow it.        *)
Earliest(fc, t) ==
    LET point == CrossIndex(fc.point, t.bar, t.dir)
        edge == CrossIndex(IF t.dir = "below" THEN fc.lower ELSE fc.upper, t.bar, t.dir)
    IN  IF edge = 0 \/ edge > point THEN point ELSE edge

Latest(fc, t) == CrossIndex(IF t.dir = "below" THEN fc.upper ELSE fc.lower, t.bar, t.dir)

Confidence(fc, t) ==
    LET horizon == Len(fc.point)
        width == Latest(fc, t) - Earliest(fc, t)
    IN  CASE Latest(fc, t) # 0 /\ 5 * width =< horizon -> "tight"
          [] Latest(fc, t) # 0 /\ 5 * width > horizon /\ 20 * width =< 9 * horizon -> "moderate"
          [] OTHER -> "wide"

(* Judged on the cone that can be acted on, from the earliest crossing to    *)
(* the point's, against the horizon.                                         *)
ProjectSilence(fc, t) ==
    LET point == CrossIndex(fc.point, t.bar, t.dir) IN
    IF point = 0 THEN "no-crossing-within-horizon"
    ELSE IF MaxBand > 0 /\ 100 * (point - Earliest(fc, t)) > MaxBand * Len(fc.point) THEN "band-too-wide"
    ELSE ""

Candidate(t, ready, fc, cadence) ==
    LET Step(i) == ready.basis + i * cadence IN
    [key |-> t.key, bar |-> t.bar, basis |-> ready.basis,
     cross |-> Step(CrossIndex(fc.point, t.bar, t.dir)),
     earliest |-> Step(Earliest(fc, t)),
     latest |-> {Step(i) : i \in {Latest(fc, t)} \ {0}},
     confidence |-> Confidence(fc, t), spliced |-> ready.spliced]

(* One target of a cycle: the answer is the set of at most one trajectory,   *)
(* empty when the call failed or timed out.                                  *)
Verdict(reason, cards) == [reason |-> reason, cards |-> cards]

RunTarget(t, ready, answer, cadence) ==
    LET fc == CHOOSE a \in answer : TRUE
    IN  IF ready.reason # "" THEN Verdict(ready.reason, {})
        ELSE IF answer = {} THEN Verdict("clock-degraded", {})
        ELSE IF ProjectSilence(fc, t) # "" THEN Verdict(ProjectSilence(fc, t), {})
        ELSE Verdict("", {Candidate(t, ready, fc, cadence)})
=============================================================================
