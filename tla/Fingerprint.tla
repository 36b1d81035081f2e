---------------------------- MODULE Fingerprint ----------------------------
(* The primitives and the materialisation of fingerprints                    *)
(* (observe/primitives.go, observe/fingerprint.go) over rings of samples     *)
(* [at, value, ...].  A quantity is a fraction <<n, d>>, d > 0, so that      *)
(* ratios and rates stay exact; overflow of floats is left out.              *)
EXTENDS Integers, Sequences, FiniteSets, SequencesExt

CONSTANTS
    ScrapeInterval, RateWindow, Watermark,
    Band, WellAbove    \* percentages: at_threshold_band, wellAboveFactor

ASSUME FingerprintAssumption ==
    /\ {ScrapeInterval, RateWindow} \subseteq Nat \ {0}
    /\ Watermark \in Nat /\ Band \in 0..100 /\ WellAbove \in Nat /\ WellAbove >= 100

Whole(n) == <<n, 1>>
AtLeast(q, r) == q[1] * r[2] >= r[1] * q[2]
Percent(q, p) == <<q[1] * p, q[2] * 100>>
PerPercent(q, p) == <<q[1] * 100, q[2] * p>>

-----------------------------------------------------------------------------
(* The ladder.                                                               *)
WellAboveLine(bar) ==
    IF bar.dir = "below" THEN PerPercent(bar.value, WellAbove)
    ELSE IF bar.factor \in 1..99 THEN PerPercent(bar.value, bar.factor)
    ELSE Percent(bar.value, WellAbove)

EvalThreshold(q, bar) ==
    LET deep == WellAboveLine(bar) IN
    IF bar.dir = "below"
    THEN IF AtLeast(deep, q) THEN "WellAbove"
         ELSE IF ~ AtLeast(q, bar.value) THEN "Above"
         ELSE IF AtLeast(Percent(bar.value, 100 + Band), q) THEN "AtThreshold" ELSE "Below"
    ELSE IF AtLeast(q, deep) THEN "WellAbove"
         ELSE IF AtLeast(q, bar.value) THEN "Above"
         ELSE IF AtLeast(q, Percent(bar.value, 100 - Band)) THEN "AtThreshold" ELSE "Below"

IsCrossed(state) == state \in {"Above", "WellAbove"}

-----------------------------------------------------------------------------
(* Windows: the samples of the window by their own time stamps, arrival      *)
(* order breaking ties, cut at every gap but for the latest run.             *)
InWindow(samples, now) == {i \in DOMAIN samples : samples[i].at \in (now - RateWindow)..now}

(* A slip: rings keep the order of arrival, which is not that of the stamps. *)
SlipArrivalOrder(samples, is) ==
    LET order == SetToSortSeq(is, LAMBDA i, j : i < j) IN [k \in DOMAIN order |-> samples[order[k]]]

IsBefore(samples, j, i) == samples[j].at < samples[i].at \/ (samples[j].at = samples[i].at /\ j < i)

Rank(samples, is, i) == Cardinality({j \in is : IsBefore(samples, j, i)})

ByTime(samples, is) ==
    [k \in 1..Cardinality(is) |-> samples[CHOOSE i \in is : Rank(samples, is, i) = k - 1]]

Gaps(win) == {i \in 2..Len(win) : win[i].at - win[i - 1].at > 2 * ScrapeInterval}

LatestRun(win) == SubSeq(win, CHOOSE i \in {1} \cup Gaps(win) : \A j \in Gaps(win) : j <= i, Len(win))

Elapsed(run) == IF Len(run) < 2 THEN 0 ELSE Last(run).at - Head(run).at

(* A fall is a counter's reset and contributes nothing.                      *)
Rise(run, i) == IF run[i].value > run[i - 1].value THEN run[i].value - run[i - 1].value ELSE 0

WindowDelta(run) == FoldLeft(LAMBDA sum, i : sum + Rise(run, i), 0, [i \in 1..(Len(run) - 1) |-> i + 1])

EvalRate(samples, now) ==
    LET win == ByTime(samples, InWindow(samples, now))
        run == LatestRun(win) IN
    IF Len(win) < 2 THEN [samples |-> Len(win), delta |-> 0, elapsed |-> 0, gapBroken |-> FALSE]
    ELSE [samples |-> Len(win), delta |-> WindowDelta(run), elapsed |-> Elapsed(run), gapBroken |-> Gaps(win) # {}]

(* The slope of a gauge over the same run: its sign and whether a gap left   *)
(* too little to measure it on.                                              *)
Level == [delta |-> 0, elapsed |-> 0, inconclusive |-> FALSE]

EvalGaugeSlope(samples, now) ==
    LET win == ByTime(samples, InWindow(samples, now))
        run == LatestRun(win) IN
    IF Len(win) < 2 THEN Level
    ELSE [delta |-> Last(run).value - Head(run).value, elapsed |-> Elapsed(run),
          inconclusive |-> Gaps(win) # {} /\ Len(run) < 2]

-----------------------------------------------------------------------------
(* Reading the rings.                                                        *)
RingWindowN == RateWindow \div ScrapeInterval + 4

LastN(ring) == SubSeq(ring, IF Len(ring) > RingWindowN THEN Len(ring) - RingWindowN + 1 ELSE 1, Len(ring))

(* The newest by its own time stamp, the first to arrive among equals.       *)
Latest(ring) ==
    LET newest == {i \in DOMAIN ring : \A j \in DOMAIN ring : ring[j].at <= ring[i].at} IN
    ring[CHOOSE i \in newest : \A j \in newest : i <= j]

IsStale(at, now) == now - at > Watermark

StreamsFor(rings, uid, metric) == {id \in DOMAIN rings : id.cei.uid = uid /\ id.metric = metric}

(* What a ratio divides: a counter's rise over the window, a gauge's level;  *)
(* a set of at most one quantity with the instant it is as fresh as.         *)
WindowValue(ring, type, now) ==
    IF type = "counter"
    THEN LET rate == EvalRate(LastN(ring), now) IN
         IF rate.samples < 2 THEN {} ELSE {[value |-> rate.delta, at |-> Latest(ring).at]}
    ELSE {[value |-> Latest(ring).value, at |-> Latest(ring).at]}

-----------------------------------------------------------------------------
(* One component of a fingerprint per usable binding, a set of at most one.  *)
ThresholdOf(b, quantity, slope, at, now) ==
    {[binding |-> b, state |-> EvalThreshold(quantity, b.bar), value |-> quantity, slope |-> slope,
      stale |-> IsStale(at, now)]}

Older(s, t) == IF s < t THEN s ELSE t

IsRatio(b) == b.divisor # ""

EvalRatio(b, ring, rings, types, now) ==
    LET divs == StreamsFor(rings, b.uid, b.divisor) IN
    UNION {UNION {UNION {
        IF den.value = 0 THEN {} ELSE ThresholdOf(b, <<num.value, den.value>>, Level, Older(num.at, den.at), now)
            : num \in WindowValue(ring, types[b.metric], now)}
            : den \in WindowValue(rings[div], types[b.divisor], now)}
            : div \in IF \E d \in divs : divs = {d} THEN divs ELSE {}}

(* A counter's rate, in the unit of the bar it is held against.              *)
PerSecond(rate, bar) ==
    <<IF bar.unit = "millicores" THEN 1000 * rate.delta ELSE rate.delta, rate.elapsed>>

EvalThresholdVar(b, ring, rings, types, now) ==
    LET rate == EvalRate(LastN(ring), now) IN
    IF IsRatio(b) THEN EvalRatio(b, ring, rings, types, now)
    ELSE IF types[b.metric] = "counter"
    THEN IF rate.elapsed <= 0 THEN {} ELSE ThresholdOf(b, PerSecond(rate, b.bar), Level, Latest(ring).at, now)
    ELSE ThresholdOf(b, Whole(Latest(ring).value), EvalGaugeSlope(LastN(ring), now), Latest(ring).at, now)

(* A gap that leaves less than two readings after it measured nothing.       *)
IsInconclusive(rate) == rate.gapBroken /\ rate.elapsed <= 0

EvalRateGuard(b, ring, now) ==
    LET rate == EvalRate(LastN(ring), now) IN
    {[binding |-> b, delta |-> rate.delta, gapBroken |-> rate.gapBroken,
      breached |-> AtLeast(Whole(rate.delta), b.bar.value) /\ ~ IsInconclusive(rate),
      inconclusive |-> IsInconclusive(rate), stale |-> IsStale(Latest(ring).at, now)]}

Usable(b) == b.state = "bound" /\ b.validation # "failed"

(* The single stream a binding is evaluated on; none when it is ambiguous.   *)
TheStream(b, rings) ==
    LET ids == StreamsFor(rings, b.uid, b.metric) IN
    IF \E id \in ids : ids = {id} THEN ids ELSE {}

Rates(bindings, rings, now) ==
    UNION {UNION {EvalRateGuard(b, rings[id], now) : id \in TheStream(b, rings)} :
               b \in {b \in bindings : Usable(b) /\ b.kind = "rate-of-change"}}

Thresholds(bindings, rings, types, now) ==
    UNION {UNION {EvalThresholdVar(b, rings[id], rings, types, now) : id \in TheStream(b, rings)} :
               b \in {b \in bindings : Usable(b) /\ b.kind # "rate-of-change"}}

(* What of a fingerprint is loud (unexplained/loud.go), which is also what   *)
(* Fingerprint.Crossed screens on.                                           *)
Loud(rates, thresholds) ==
    {t \in thresholds : ~ t.stale /\ IsCrossed(t.state)} \cup
    {r \in rates : ~ r.stale /\ ~ r.inconclusive /\ r.breached}
=============================================================================
