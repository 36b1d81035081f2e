-------------------------- MODULE ForecastLoopProofs --------------------------
(***************************************************************************)
(* Proofs about the warm path, for any targets, series, answers of the     *)
(* clock and guardrail parameters. What the pipeline makes of one target   *)
(* comes first: which reasons it can be silent for, that its context holds *)
(* no known event, and that a card lies in order. The invariant then ties  *)
(* the cards that are held to the cycle that projected them.               *)
(***************************************************************************)
EXTENDS ForecastLoop, SequenceTheorems, WellFoundedInduction, TLAPS

\* A set of naturals that is not empty has a least member, and a greatest one when
\* it is bounded.
Less == {ss \in Nat \X Nat : ss[1] < ss[2]}

LEMMA LeastExists ==
    ASSUME NEW S, S \subseteq Nat, S # {}
    PROVE  Min(S) \in S /\ \A y \in S : Min(S) =< y
  <1>1. IsWellFoundedOn(Less, Nat)
    BY NatLessThanWellFounded DEF OpToRel, Less
  <1>2. PICK x \in S : \A y \in S : <<y, x>> \notin Less
    BY <1>1, WFMin
  <1>3. \A i, j \in Nat : <<i, j>> \in Less <=> i < j
    BY DEF Less
  <1>4. \A i, j \in Nat : j =< i \/ i < j
    OBVIOUS
  <1>5. \A y \in S : x =< y
    BY <1>2, <1>3, <1>4
  <1> QED
    BY <1>2, <1>5 DEF Min

LEMMA GreatestExists ==
    ASSUME NEW S, NEW n \in Nat, S \subseteq 0..n, S # {}
    PROVE  Max(S) \in S /\ \A y \in S : Max(S) >= y
  <1> DEFINE T == {n - x : x \in S}
  <1>1. T \subseteq Nat /\ T # {}
    <2>1. \A x \in S : x \in 0..n /\ n - x \in Nat
      OBVIOUS
    <2> QED
      BY <2>1
  <1>2. Min(T) \in T /\ \A y \in T : Min(T) =< y
    BY <1>1, LeastExists
  <1>3. PICK x \in S : Min(T) = n - x
    BY <1>2
  <1>4. \A y \in S : x >= y
    BY <1>2, <1>3
  <1> QED
    BY <1>3, <1>4 DEF Max

-----------------------------------------------------------------------------
\* The context that is left begins at the last event, so that no declared boundary
\* lies inside it, and it still ends with the present.
LEMMA ContextAfterTheLastEvent ==
    ASSUME NEW S, NEW h \in Seq(S), h # << >>, \A i \in 1..Len(h) : h[i].at \in Int,
           NEW splices, splices \subseteq Int
    PROVE  LET d == Decompose(h, splices) IN
           /\ d.series \in Seq(S) /\ d.series # << >>
           /\ Last(d.series) = Last(h)
           /\ \A t \in splices : ~(Head(d.series).at < t /\ t =< Last(h).at)
  <1> DEFINE events == Resets(h) \cup SplicedAt(h, splices)
             cut == Max({1} \cup events)
             rest == SubSeq(h, cut, Len(h))
  <1>1. Len(h) \in Nat \ {0} /\ \A i \in 1..Len(h) : h[i] \in S
    OBVIOUS
  <1>2. events \subseteq 1..Len(h)
    BY <1>1 DEF Resets, SplicedAt
  <1>3. cut \in 1..Len(h) /\ \A i \in events : cut >= i
    <2> HIDE DEF events
    <2>1. {1} \cup events \subseteq 1..Len(h)
      BY <1>1, <1>2
    <2>2. {1} \cup events \subseteq 0..Len(h)
      BY <2>1
    <2>3. cut \in {1} \cup events /\ \A y \in {1} \cup events : cut >= y
      BY <1>1, <2>2, GreatestExists
    <2> QED
      BY <2>1, <2>3
  <1>4. /\ rest \in Seq(S) /\ Len(rest) = Len(h) - cut + 1
        /\ \A i \in 1..(Len(h) - cut + 1) : rest[i] = h[cut + i - 1]
    <2> HIDE DEF cut
    <2>1. \A i \in cut..Len(h) : h[i] \in S
      BY <1>1, <1>3
    <2> QED
      BY <1>1, <1>3, <2>1, SubSeqProperties
  <1>5. rest # << >> /\ Head(rest) = h[cut] /\ Last(rest) = Last(h)
    <2> HIDE DEF cut, rest
    <2> DEFINE n == Len(h) - cut + 1
    <2>1. n \in Nat \ {0} /\ Len(rest) = n /\ cut + 1 - 1 = cut /\ cut + n - 1 = Len(h)
      BY <1>1, <1>3, <1>4
    <2>2. Len(rest) \in Nat \ {0} /\ rest[1] = h[cut] /\ rest[Len(rest)] = h[Len(h)]
      <3>1. \A i \in 1..n : rest[i] = h[cut + i - 1]
        BY <1>4
      <3>2. 1 \in 1..n /\ n \in 1..n
        BY <2>1
      <3> HIDE DEF n
      <3>3. rest[1] = h[cut + 1 - 1] /\ rest[n] = h[cut + n - 1]
        BY <3>1, <3>2
      <3> QED
        BY <2>1, <3>3
    <2>3. rest \in Seq(S)
      BY <1>4
    <2>4. rest # << >>
      BY <2>2, <2>3
    <2>5. Head(rest) = rest[1]
      BY <2>2, <2>3, <2>4
    <2> QED
      BY <2>2, <2>4, <2>5 DEF Last
  <1>6. ASSUME NEW t \in splices, h[cut].at < t, t =< h[Len(h)].at
        PROVE  FALSE
    <2> DEFINE reached == {i \in 1..Len(h) : i > cut /\ t =< h[i].at}
               i == Min(reached)
    <2> HIDE DEF cut, rest, events
    <2>1. cut < Len(h)
      BY <1>1, <1>3, <1>6
    <2>2. Len(h) \in reached /\ reached \subseteq Nat
      BY <1>1, <1>6, <2>1
    <2>3. i \in reached
      <3> HIDE DEF reached
      <3> QED
        BY <2>2, LeastExists
    <2>4. \A j \in reached : i =< j
      <3> HIDE DEF reached
      <3> QED
        BY <2>2, LeastExists
    <2>5. i \in 1..Len(h) /\ i > cut /\ t =< h[i].at
      <3> HIDE DEF i
      <3> QED
        BY <2>3
    <2> HIDE DEF i
    <2>6. h[i - 1].at < t
      <3>1. CASE i - 1 = cut
        BY <1>6, <3>1
      <3>2. CASE i - 1 # cut
        <4>1. i - 1 \in 1..Len(h) /\ i - 1 > cut
          BY <1>3, <2>5, <3>2
        <4>2. i - 1 \notin reached
          <5> HIDE DEF reached
          <5> QED
            BY <2>4, <2>5
        <4>3. ~(t =< h[i - 1].at)
          BY <4>1, <4>2
        <4>4. h[i - 1].at \in Int /\ t \in Int
          BY <4>1
        <4> QED
          BY <4>3, <4>4
      <3> QED
        BY <3>1, <3>2
    <2>7. i \in SplicedAt(h, splices)
      <3>1. i \in 2..Len(h)
        BY <1>1, <1>3, <2>5
      <3> QED
        BY <2>5, <2>6, <3>1 DEF SplicedAt
    <2>8. i \in events
      BY <2>7 DEF events
    <2> QED
      BY <1>1, <1>3, <2>5, <2>8
  <1>7. Decompose(h, splices).series = rest
    BY DEF Decompose
  <1> HIDE DEF cut, rest, events
  <1> QED
    BY <1>4, <1>5, <1>6, <1>7 DEF Last

-----------------------------------------------------------------------------
\* What a silence before the clock may be: never one that lets a warning be held.
EarlyReasons ==
    {"", "no-stream", "ambiguous-stream", "counter-stream-deferred", "short-context",
     "decomposition-aborted", "already-crossed", "flat-series"}

\* A target that is ready for the clock is short of its bar, its context ends with
\* the present and runs across no declared boundary.
Ready(r, at, splices) ==
    /\ r.reason \in EarlyReasons
    /\ r.reason = "" =>
          ~r.past /\ r.basis = at /\ \A b \in splices : ~(r.from < b /\ b =< r.basis)

LEMMA SightedHistories ==
    ASSUME now \in Nat, NEW k \in Keys, NEW sighting \in Values[k], NEW s \in Sighted(sighting)
    PROVE  /\ s.history \in Seq(ToSet(s.history))
           /\ \A i \in 1..Len(s.history) : s.history[i].at \in Int
           /\ s.history # << >> => Last(s.history).at = now
  <1>1. PICK x \in sighting :
           s = [type |-> x.type,
                history |-> [i \in DOMAIN x.values |->
                    [at |-> now - Cadence * (Len(x.values) - i), value |-> x.values[i]]]]
    BY DEF Sighted
  <1> DEFINE h == [i \in DOMAIN x.values |->
                    [at |-> now - Cadence * (Len(x.values) - i), value |-> x.values[i]]]
             n == Len(x.values)
  <1>2. x.values \in Seq(Int)
    BY LoopAssumption DEF LoopAssumption, Keys
  <1>3. n \in Nat /\ DOMAIN x.values = 1..n
    BY <1>2
  <1>4. s.history = h /\ DOMAIN h = 1..n
    BY <1>1, <1>3
  <1>5. h \in [1..n -> ToSet(h)]
    BY <1>4 DEF ToSet
  <1>6. h \in Seq(ToSet(h)) /\ Len(h) = n
    BY <1>3, <1>5
  <1>7. \A i \in 1..n : h[i].at = now - Cadence * (n - i)
    BY <1>3
  <1>8. Cadence \in Nat
    BY LoopAssumption DEF LoopAssumption
  <1> HIDE DEF h, n
  <1>9. \A i \in 1..n : h[i].at \in Int
    BY <1>3, <1>7, <1>8
  <1>10. ASSUME h # << >> PROVE Last(h).at = now
    <2>1. n \in 1..n
      BY <1>3, <1>6, <1>10
    <2>2. n - n = 0 /\ Cadence * 0 = 0
      BY <1>3, <1>8
    <2>3. h[n].at = now - Cadence * (n - n)
      BY <1>7, <2>1
    <2> QED
      BY <1>6, <2>2, <2>3 DEF Last
  <1> QED
    BY <1>4, <1>6, <1>9, <1>10

LEMMA PreparedIsReady ==
    ASSUME now \in Nat, NEW k \in Keys, NEW sighting \in Values[k], NEW t,
           NEW splices, splices \subseteq Int
    PROVE  Ready(Prepared(t, Sighted(sighting), splices), now, splices)
  <1> DEFINE streams == Sighted(sighting)
             s == CHOOSE x \in streams : TRUE
             d == Decompose(s.history, splices)
             r == Prepared(t, streams, splices)
  <1>1. StreamSilence(streams) \in EarlyReasons
    BY DEF StreamSilence, EarlyReasons
  <1>2. CASE StreamSilence(streams) # ""
    <2>1. r.reason = StreamSilence(streams)
      BY <1>2 DEF Prepared
    <2> QED
      BY <1>1, <1>2, <2>1 DEF Ready
  <1>3. CASE StreamSilence(streams) = ""
    <2>1. streams # {} /\ ~(Len(s.history) < MinContext)
      BY <1>3 DEF StreamSilence
    <2>2. s \in streams
      BY <2>1
    <2> DEFINE h == s.history
    <2>3. /\ h \in Seq(ToSet(h)) /\ \A i \in 1..Len(h) : h[i].at \in Int
          /\ h # << >> => Last(h).at = now
      BY <2>2, SightedHistories
    <2>4. h # << >>
      BY <2>1, <2>3, ForecastAssumption DEF ForecastAssumption
    <2>5. /\ Last(d.series) = Last(h)
          /\ \A b \in splices : ~(Head(d.series).at < b /\ b =< Last(h).at)
      BY <2>3, <2>4, ContextAfterTheLastEvent
    <2>6. r = [reason |-> SeriesSilence(t, d), past |-> Past(Last(h).value, t.bar, t.dir),
               basis |-> Last(h).at, from |-> Head(d.series).at, spliced |-> d.spliced]
      BY <1>3 DEF Prepared
    <2>7. /\ SeriesSilence(t, d) \in EarlyReasons
          /\ SeriesSilence(t, d) = "" => ~Past(Last(d.series).value, t.bar, t.dir)
      BY DEF SeriesSilence, EarlyReasons
    <2>8. Ready(r, now, splices)
      <3> HIDE DEF d, r, h
      <3> QED
        BY <2>3, <2>4, <2>5, <2>6, <2>7 DEF Ready
    <2> QED
      BY <2>8
  <1> QED
    BY <1>2, <1>3

-----------------------------------------------------------------------------
\* A card lies in order: the band's edge crosses after the basis, and not after the
\* point does.
InOrder(card) == card.basis < card.earliest /\ card.earliest =< card.cross

LEMMA CrossIndexIsAStep ==
    ASSUME NEW traj \in Seq(Int), NEW bar, NEW dir
    PROVE  CrossIndex(traj, bar, dir) \in Nat
  <1> DEFINE past == {i \in DOMAIN traj : Past(traj[i], bar, dir)}
  <1>1. past \subseteq Nat
    <2>1. DOMAIN traj = 1..Len(traj) /\ Len(traj) \in Nat
      OBVIOUS
    <2>2. past \subseteq DOMAIN traj
      OBVIOUS
    <2> HIDE DEF past
    <2>3. past \subseteq Nat
      BY <2>1, <2>2
    <2> QED
      BY <2>3
  <1>2. past # {} => Min(past) \in past
    <2> HIDE DEF past
    <2> QED
      BY <1>1, LeastExists
  <1>3. CASE past = {}
    BY <1>3 DEF CrossIndex
  <1>4. CASE past # {}
    <2>1. CrossIndex(traj, bar, dir) = Min(past)
      BY <1>4 DEF CrossIndex
    <2> HIDE DEF past
    <2> QED
      BY <1>1, <1>2, <1>4, <2>1
  <1> QED
    BY <1>3, <1>4

LEMMA EarliestLeads ==
    ASSUME NEW answer \in Answers, NEW fc \in answer, NEW t,
           CrossIndex(fc.point, t.bar, t.dir) # 0
    PROVE  /\ Earliest(fc, t) \in Nat \ {0}
           /\ Earliest(fc, t) =< CrossIndex(fc.point, t.bar, t.dir)
  <1> DEFINE point == CrossIndex(fc.point, t.bar, t.dir)
             edge == CrossIndex(IF t.dir = "below" THEN fc.lower ELSE fc.upper, t.bar, t.dir)
  <1>1. fc.point \in Seq(Int) /\ (IF t.dir = "below" THEN fc.lower ELSE fc.upper) \in Seq(Int)
    BY LoopAssumption DEF LoopAssumption
  <1>2. point \in Nat /\ edge \in Nat
    BY <1>1, CrossIndexIsAStep
  <1>3. Earliest(fc, t) = IF edge = 0 \/ edge > point THEN point ELSE edge
    BY DEF Earliest
  <1> HIDE DEF point, edge
  <1>4. point # 0
    BY DEF point
  <1> QED
    BY <1>2, <1>3, <1>4 DEF point

LEMMA StepsKeepOrder ==
    ASSUME NEW m \in Nat \ {0}, NEW n \in Nat, m =< n, NEW c \in Nat \ {0}, NEW basis \in Nat
    PROVE  /\ basis + m * c \in Nat /\ basis + n * c \in Nat
           /\ basis < basis + m * c /\ basis + m * c =< basis + n * c
  <1>1. m * c \in Nat /\ n * c \in Nat
    OBVIOUS
  <1>2. 0 < m * c
    OBVIOUS
  <1>3. m * c =< n * c
    OBVIOUS
  <1> QED
    BY <1>1, <1>2, <1>3

LEMMA VerdictIs ==
    \A reason, cards : Verdict(reason, cards).reason = reason /\ Verdict(reason, cards).cards = cards
  BY DEF Verdict

\* What one target of a cycle comes to: a card exactly when there is no reason for
\* silence, and only a target that was ready is silenced by the clock's answer.
VerdictFor(v, t, ready) ==
    /\ v.reason # "" => v.cards = {}
    /\ v.reason \in Holdable \cup {"", "clock-degraded"} => ready.reason = ""
    /\ v.reason = "" =>
         \E card : /\ v.cards = {card} /\ card.key = t.key /\ card.basis = ready.basis
                  /\ card.cross \in Nat /\ card.earliest \in Nat /\ InOrder(card)

LEMMA RunTargetIs ==
    ASSUME NEW t, NEW ready, ready.reason \in EarlyReasons,
           ready.reason = "" => ready.basis \in Nat, NEW answer \in Answers \cup {{}},
           NEW v, v = RunTarget(t, ready, answer, Cadence)
    PROVE  VerdictFor(v, t, ready)
  <1> DEFINE fc == CHOOSE a \in answer : TRUE
             point == CrossIndex(fc.point, t.bar, t.dir)
             card == Candidate(t, ready, fc, Cadence)
  <1>1. CASE ready.reason # ""
    <2>1. v = Verdict(ready.reason, {})
      BY <1>1 DEF RunTarget
    <2>2. ready.reason \notin Holdable \cup {"", "clock-degraded"}
      BY <1>1 DEF EarlyReasons, Holdable
    <2>3. v.reason = ready.reason /\ v.cards = {}
      BY <2>1, VerdictIs
    <2> QED
      BY <1>1, <2>2, <2>3 DEF VerdictFor
  <1>2. CASE ready.reason = "" /\ answer = {}
    <2>1. v = Verdict("clock-degraded", {})
      BY <1>2 DEF RunTarget
    <2>2. v.reason = "clock-degraded" /\ v.cards = {}
      BY <2>1, VerdictIs
    <2> QED
      BY <1>2, <2>2 DEF VerdictFor
  <1>3. CASE ready.reason = "" /\ answer # {} /\ ProjectSilence(fc, t) # ""
    <2>1. v = Verdict(ProjectSilence(fc, t), {})
      BY <1>3 DEF RunTarget
    <2> HIDE DEF fc
    <2>2. v.reason # "" /\ v.cards = {}
      BY <1>3, <2>1, VerdictIs
    <2> QED
      BY <1>3, <2>2 DEF VerdictFor
  <1>4. CASE ready.reason = "" /\ answer # {} /\ ProjectSilence(fc, t) = ""
    <2>1. v = Verdict("", {card})
      BY <1>4 DEF RunTarget
    <2>2. fc \in answer /\ answer \in Answers
      BY <1>4
    <2>3. point # 0
      BY <1>4 DEF ProjectSilence
    <2>4. /\ point \in Nat /\ Earliest(fc, t) \in Nat \ {0} /\ Earliest(fc, t) =< point
      <3>1. fc.point \in Seq(Int)
        BY <2>2, LoopAssumption DEF LoopAssumption
      <3> QED
        BY <2>2, <2>3, <3>1, EarliestLeads, CrossIndexIsAStep
    <2>5. /\ card.key = t.key /\ card.basis = ready.basis
          /\ card.cross = ready.basis + point * Cadence
          /\ card.earliest = ready.basis + Earliest(fc, t) * Cadence
      BY DEF Candidate
    <2>6. Cadence \in Nat \ {0}
      BY LoopAssumption DEF LoopAssumption
    <2>7. card.cross \in Nat /\ card.earliest \in Nat /\ InOrder(card)
      <3> HIDE DEF card, point, fc
      <3>1. ready.basis \in Nat
        BY <1>4
      <3> DEFINE e == Earliest(fc, t)
      <3> HIDE DEF e
      <3>2. e \in Nat \ {0} /\ e =< point /\ point \in Nat
        BY <2>4 DEF e
      <3>3. /\ ready.basis + e * Cadence \in Nat /\ ready.basis + point * Cadence \in Nat
            /\ ready.basis < ready.basis + e * Cadence
            /\ ready.basis + e * Cadence =< ready.basis + point * Cadence
        BY <2>6, <3>1, <3>2, StepsKeepOrder
      <3> QED
        BY <2>5, <3>3 DEF InOrder, e
    <2> HIDE DEF card
    <2>8. v.cards = {card} /\ v.reason = ""
      BY <2>1, VerdictIs
    <2> QED
      BY <1>4, <2>5, <2>7, <2>8 DEF VerdictFor
  <1> QED
    BY <1>1, <1>2, <1>3, <1>4

-----------------------------------------------------------------------------
\* The clock, the inputs and the boundaries.
ClockInv ==
    /\ now \in Nat \ {0} /\ windows \subseteq Int
    /\ \A t \in inputs.targets : t.key \in Keys

\* The cycle under way is later than whatever was published before it, and is about
\* known targets; what it has prepared is as the pipeline leaves it.
CycleInv ==
    \A c \in cycle :
        /\ c.at \in Nat \ {0} /\ c.at =< now /\ lastGood < c.at
        /\ degraded =< c.at /\ \A k \in DOMAIN held : projected[k] =< c.at
        /\ \A k \in DOMAIN c.ready :
              k \in Keys /\ TargetOf(c.targets, k).key = k /\ Ready(c.ready[k], c.at, c.splices)

\* What the debouncer holds is the card of the key's last projection, in order, and
\* since that projection nothing but a margin silenced it.
HeldInv ==
    \A k \in DOMAIN held :
        /\ k \in Keys /\ k \in marginal
        /\ projected[k] \in Nat \ {0} /\ projected[k] =< now
        /\ held[k].projected = projected[k] /\ held[k].card.basis = projected[k]
        /\ held[k].card.cross \in Nat /\ held[k].card.earliest \in Nat
        /\ InOrder(held[k].card)
        /\ held[k].first \in Nat /\ held[k].first =< projected[k]

\* A degraded spell began after the last good cycle.
HealthInv ==
    /\ degraded \in Nat /\ degraded =< now /\ lastGood \in Int
    /\ degraded # 0 => lastGood < degraded
    /\ view = {} /\ cycle = {} => lastGood < now

Stated(v) ==
    /\ v.ready = (v.since = 0) /\ v.ready = (lastGood = v.at)
    /\ v.since # 0 => lastGood < v.since /\ v.since =< v.at
    /\ (\E k \in DOMAIN v.silences : v.silences[k] = "clock-degraded") => ~v.ready

\* The view that is published shows exactly what is held.
ViewInv ==
    \A v \in view :
        /\ v.at \in Nat /\ v.at =< now /\ lastGood =< v.at /\ Stated(v)
        /\ DOMAIN v.warnings = DOMAIN held
        /\ \A k \in DOMAIN held :
              /\ v.warnings[k].card = held[k].card /\ v.warnings[k].first = held[k].first
              /\ k \notin v.judged.past
              /\ v.warnings[k].aging => v.at - projected[k] =< ClearAfter
        /\ DOMAIN v.warnings \cap DOMAIN v.silences = {}
        /\ DOMAIN v.warnings \cup DOMAIN v.silences = v.judged.keys
        /\ v.judged.across = {}

LoopInv == ClockInv /\ CycleInv /\ HeldInv /\ HealthInv /\ ViewInv

LEMMA InitLoop == Init => LoopInv
  <1> SUFFICES ASSUME Init PROVE LoopInv
    OBVIOUS
  <1>1. Start \in Nat \ {0} /\ Start - 1 \in Int /\ Start - 1 < Start
    BY LoopAssumption DEF LoopAssumption
  <1>2. DOMAIN held = {} /\ inputs.targets = {}
    BY DEF Init, NoCards, None
  <1> QED
    BY <1>1, <1>2 DEF Init, LoopInv, ClockInv, CycleInv, HeldInv, HealthInv, ViewInv

\* Time passes only over what is already there.
LEMMA PassKeeps == LoopInv /\ Pass => LoopInv'
  <1> SUFFICES ASSUME LoopInv, Pass PROVE LoopInv'
    OBVIOUS
  <1> USE DEF LoopInv, Pass
  <1>1. now \in Nat /\ now' \in Nat \ {0} /\ \A i \in Int : i =< now => i =< now'
    BY DEF ClockInv
  <1>2. \A i \in Int : i < now => i < now'
    BY <1>1
  <1>3. ClockInv'
    BY <1>1 DEF ClockInv
  <1>4. CycleInv'
    BY <1>1 DEF CycleInv
  <1>5. HeldInv'
    BY <1>1 DEF HeldInv, InOrder
  <1>6. HealthInv'
    BY <1>1, <1>2 DEF HealthInv
  <1>7. ViewInv'
    BY <1>1 DEF ViewInv, Stated
  <1> QED
    BY <1>3, <1>4, <1>5, <1>6, <1>7

LEMMA PublishKeeps == LoopInv /\ Publish => LoopInv'
  <1> SUFFICES ASSUME LoopInv, Publish PROVE LoopInv'
    OBVIOUS
  <1> USE DEF LoopInv, Publish
  <1>1. ClockInv'
    BY LoopAssumption DEF ClockInv, Keys, LoopAssumption
  <1>2. CycleInv' /\ HeldInv' /\ HealthInv' /\ ViewInv'
    BY DEF CycleInv, HeldInv, HealthInv, ViewInv, Stated, InOrder
  <1> QED
    BY <1>1, <1>2

LEMMA AddKeeps == LoopInv /\ Add => LoopInv'
  <1> SUFFICES ASSUME LoopInv, Add PROVE LoopInv'
    OBVIOUS
  <1> USE DEF LoopInv, Add
  <1>1. ClockInv'
    BY LoopAssumption DEF ClockInv, Keys, LoopAssumption
  <1>2. CycleInv' /\ HeldInv' /\ HealthInv' /\ ViewInv'
    BY DEF CycleInv, HeldInv, HealthInv, ViewInv, Stated, InOrder
  <1> QED
    BY <1>1, <1>2

LEMMA RestartKeeps == LoopInv /\ Restart => LoopInv'
  <1> SUFFICES ASSUME LoopInv, Restart PROVE LoopInv'
    OBVIOUS
  <1>1. now' = now /\ now \in Nat \ {0} /\ now - 1 \in Int /\ now - 1 < now
    BY DEF LoopInv, ClockInv, Restart
  <1>2. DOMAIN held' = {} /\ inputs'.targets = {} /\ cycle' = {} /\ view' = {} /\ windows' = {}
    BY DEF Restart, NoCards, None
  <1>3. degraded' = 0 /\ lastGood' = now - 1
    BY DEF Restart
  <1> QED
    BY <1>1, <1>2, <1>3 DEF LoopInv, ClockInv, CycleInv, HeldInv, HealthInv, ViewInv

\* A cycle that begins finds everything published before its own instant.
LEMMA FreezeKeeps == LoopInv /\ Freeze => LoopInv'
  <1> SUFFICES ASSUME LoopInv, Freeze PROVE LoopInv'
    OBVIOUS
  <1>1. PICK seen \in [{t.key : t \in inputs.targets} -> UNION {Values[k] : k \in Keys}] :
          /\ \A k \in DOMAIN seen : seen[k] \in Values[k]
          /\ cycle' = {[at |-> now, targets |-> inputs.targets, splices |-> SplicePoints(windows),
                        ready |-> [k \in DOMAIN seen |->
                            Prepared(TargetOf(inputs.targets, k), Sighted(seen[k]), SplicePoints(windows))]]}
    BY DEF Freeze
  <1>2. UNCHANGED <<now, inputs, windows, held, degraded, marginal, projected, lastGood>> /\ view' = {}
    BY DEF Freeze
  <1>3. ClockInv'
    BY <1>2 DEF LoopInv, ClockInv
  <1>4. HeldInv' /\ ViewInv'
    BY <1>2 DEF LoopInv, HeldInv, ViewInv
  <1>5. HealthInv' /\ lastGood < now
    <2>1. lastGood < now
      <3>1. CASE view = {}
        BY <3>1 DEF LoopInv, HealthInv, Freeze
      <3>2. CASE view # {}
        <4>1. PICK v \in view : v.at \in Nat /\ lastGood =< v.at /\ v.at < now
          BY <3>2 DEF LoopInv, ViewInv, Freeze
        <4> QED
          BY <4>1 DEF LoopInv, ClockInv, HealthInv
      <3> QED
        BY <3>1, <3>2
    <2> QED
      BY <1>2, <2>1 DEF LoopInv, HealthInv
  <1>6. CycleInv'
    <2> DEFINE ready == [k \in DOMAIN seen |->
                            Prepared(TargetOf(inputs.targets, k), Sighted(seen[k]), SplicePoints(windows))]
    <2>1. now \in Nat \ {0} /\ SplicePoints(windows) \subseteq Int
      BY DEF LoopInv, ClockInv, SplicePoints
    <2>2. \A k \in DOMAIN seen :
             k \in Keys /\ TargetOf(inputs.targets, k).key = k /\ seen[k] \in Values[k]
      BY <1>1 DEF LoopInv, ClockInv, TargetOf
    <2>3. \A k \in DOMAIN seen : Ready(ready[k], now, SplicePoints(windows))
      BY <2>1, <2>2, PreparedIsReady
    <2> HIDE DEF ready
    <2>4. DOMAIN ready = DOMAIN seen
      BY DEF ready
    <2>5. cycle' = {[at |-> now, targets |-> inputs.targets, splices |-> SplicePoints(windows), ready |-> ready]}
      BY <1>1 DEF ready
    <2>6. ASSUME NEW c \in cycle'
          PROVE  /\ c.at = now /\ c.targets = inputs.targets /\ c.splices = SplicePoints(windows)
                 /\ c.ready = ready
      BY <2>5
    <2>7. degraded =< now /\ \A k \in DOMAIN held : projected[k] =< now
      BY DEF LoopInv, HealthInv, HeldInv
    <2> QED
      BY <1>2, <1>5, <2>1, <2>2, <2>3, <2>4, <2>6, <2>7 DEF CycleInv
  <1> QED
    BY <1>3, <1>4, <1>5, <1>6 DEF LoopInv

-----------------------------------------------------------------------------
\* What a cycle makes of its targets, one verdict for each.
VerdictsOf(c, answers) ==
    {[key |-> k,
      of |-> RunTarget(TargetOf(c.targets, k), c.ready[k],
                       IF k \in DOMAIN answers THEN answers[k] ELSE {}, Cadence)] :
         k \in DOMAIN c.ready}

CardsOf(c, answers) == UNION {v.of.cards : v \in VerdictsOf(c, answers)}

ReasonOf(c, answers) ==
    [k \in DOMAIN c.ready |-> (CHOOSE v \in VerdictsOf(c, answers) : v.key = k).of.reason]

Projected(cards) == {x.key : x \in cards}

\* A target of the cycle is projected, on one card of this cycle, exactly when it is not
\* silent; a silence that lets a warning be held comes only to a target that was ready,
\* and the clock's makes the cycle a bad one.
Judged(c, bad, cards, reason) ==
    /\ DOMAIN reason = DOMAIN c.ready
    /\ \A k \in DOMAIN reason : reason[k] = "" <=> k \in Projected(cards)
    /\ Projected(cards) \subseteq DOMAIN reason
    /\ \A k \in DOMAIN reason : reason[k] \in Holdable \cup {""} => c.ready[k].reason = ""
    /\ \A k \in DOMAIN reason : reason[k] = "clock-degraded" => bad
    /\ \A x \in cards :
          /\ x.basis = c.at /\ x.cross \in Nat /\ x.earliest \in Nat /\ InOrder(x)
          /\ \A y \in cards : y.key = x.key => y = x

LEMMA JudgedOnce ==
    ASSUME CycleInv, NEW c \in cycle,
           NEW answers \in [{k \in DOMAIN c.ready : c.ready[k].reason = ""} -> Answers],
           NEW cards, cards = CardsOf(c, answers), NEW reason, reason = ReasonOf(c, answers),
           NEW bad, (\E v \in VerdictsOf(c, answers) : v.of.reason = "clock-degraded") => bad
    PROVE  Judged(c, bad, cards, reason)
  <1> DEFINE Of(k) == RunTarget(TargetOf(c.targets, k), c.ready[k],
                                IF k \in DOMAIN answers THEN answers[k] ELSE {}, Cadence)
             verdicts == VerdictsOf(c, answers)
  <1>1. verdicts = {[key |-> k, of |-> Of(k)] : k \in DOMAIN c.ready}
    BY DEF VerdictsOf
  <1>2. \A v \in verdicts : v.key \in DOMAIN c.ready /\ v.of = Of(v.key)
    <2> HIDE DEF Of, verdicts
    <2> SUFFICES ASSUME NEW v \in verdicts PROVE v.key \in DOMAIN c.ready /\ v.of = Of(v.key)
      OBVIOUS
    <2>1. PICK k \in DOMAIN c.ready : v = [key |-> k, of |-> Of(k)]
      BY <1>1
    <2>2. v.key = k /\ v.of = Of(k)
      BY <2>1
    <2> QED
      BY <2>2
  <1>3. \A k \in DOMAIN c.ready : \E v \in verdicts : v.key = k /\ v.of = Of(k)
    <2> HIDE DEF Of, verdicts
    <2>1. ASSUME NEW k \in DOMAIN c.ready
          PROVE  [key |-> k, of |-> Of(k)] \in verdicts
      BY <1>1
    <2> QED
      BY <2>1
  <1> HIDE DEF Of, verdicts
  <1>4. ASSUME NEW k \in DOMAIN c.ready
        PROVE  /\ VerdictFor(Of(k), TargetOf(c.targets, k), c.ready[k])
               /\ TargetOf(c.targets, k).key = k
               /\ c.ready[k].reason = "" => c.ready[k].basis = c.at
    <2> DEFINE t == TargetOf(c.targets, k)
               r == c.ready[k]
               answer == IF k \in DOMAIN answers THEN answers[k] ELSE {}
    <2>1. t.key = k /\ Ready(r, c.at, c.splices) /\ c.at \in Nat
      BY DEF CycleInv
    <2>2. answer \in Answers \cup {{}} /\ Of(k) = RunTarget(t, r, answer, Cadence)
      BY DEF Of
    <2> HIDE DEF t, r, answer
    <2>3. r.reason \in EarlyReasons /\ (r.reason = "" => r.basis = c.at) /\ (r.reason = "" => r.basis \in Nat)
      BY <2>1 DEF Ready
    <2>4. VerdictFor(Of(k), t, r)
      BY <2>2, <2>3, RunTargetIs
    <2> QED
      BY <2>1, <2>3, <2>4 DEF t, r
  <1>5. ASSUME NEW k \in DOMAIN c.ready
        PROVE  /\ Of(k).reason # "" => Of(k).cards = {}
               /\ Of(k).reason \in Holdable \cup {"", "clock-degraded"} => c.ready[k].reason = ""
               /\ Of(k).reason = "" =>
                    \E card : /\ Of(k).cards = {card} /\ card.key = k /\ card.basis = c.at
                             /\ card.cross \in Nat /\ card.earliest \in Nat /\ InOrder(card)
    <2> DEFINE v == Of(k)
    <2> HIDE DEF v
    <2>1. /\ v.reason # "" => v.cards = {}
          /\ v.reason \in Holdable \cup {"", "clock-degraded"} => c.ready[k].reason = ""
          /\ v.reason = "" =>
               \E card : /\ v.cards = {card} /\ card.key = k /\ card.basis = c.ready[k].basis
                        /\ card.cross \in Nat /\ card.earliest \in Nat /\ InOrder(card)
      BY <1>4 DEF VerdictFor, v
    <2> QED
      BY <1>4, <2>1 DEF v, Holdable
  <1>6. DOMAIN reason = DOMAIN c.ready
    BY DEF ReasonOf
  <1>7. ASSUME NEW k \in DOMAIN c.ready
        PROVE  reason[k] = Of(k).reason
    <2>1. reason[k] = (CHOOSE v \in verdicts : v.key = k).of.reason
      BY DEF ReasonOf, verdicts
    <2>2. PICK w \in verdicts : w.key = k
      BY <1>3
    <2>3. (CHOOSE v \in verdicts : v.key = k) \in verdicts /\ (CHOOSE v \in verdicts : v.key = k).key = k
      BY <2>2
    <2> QED
      BY <1>2, <2>1, <2>3
  <1> DEFINE sets == {v.of.cards : v \in verdicts}
  <1>8. \A x : x \in cards <=> \E k \in DOMAIN c.ready : x \in Of(k).cards
    <2>1. cards = UNION sets
      BY DEF CardsOf, verdicts
    <2>2. \A k \in DOMAIN c.ready : Of(k).cards \in sets
      BY <1>3
    <2>3. \A s \in sets : \E k \in DOMAIN c.ready : s = Of(k).cards
      BY <1>2
    <2> HIDE DEF sets
    <2> QED
      BY <2>1, <2>2, <2>3
  <1>9. ASSUME NEW x \in cards
        PROVE  /\ x.key \in DOMAIN c.ready /\ Of(x.key).cards = {x} /\ Of(x.key).reason = ""
               /\ x.basis = c.at /\ x.cross \in Nat /\ x.earliest \in Nat /\ InOrder(x)
    <2>1. PICK k \in DOMAIN c.ready : x \in Of(k).cards
      BY <1>8
    <2>2. Of(k).reason = ""
      BY <1>5, <2>1
    <2>3. PICK card : /\ Of(k).cards = {card} /\ card.key = k /\ card.basis = c.at
                      /\ card.cross \in Nat /\ card.earliest \in Nat /\ InOrder(card)
      BY <1>5, <2>2
    <2>4. x = card
      BY <2>1, <2>3
    <2> QED
      BY <2>2, <2>3, <2>4
  <1>10. ASSUME NEW k \in DOMAIN c.ready, Of(k).reason = ""
        PROVE  k \in Projected(cards)
    <2>1. PICK card : Of(k).cards = {card} /\ card.key = k
      BY <1>5, <1>10
    <2>2. card \in cards
      BY <1>8, <2>1
    <2> QED
      BY <2>1, <2>2 DEF Projected
  <1>11. ASSUME NEW k \in Projected(cards)
        PROVE  k \in DOMAIN c.ready /\ Of(k).reason = ""
    BY <1>9 DEF Projected
  <1>12. \A k \in DOMAIN reason : reason[k] = "" <=> k \in Projected(cards)
    BY <1>6, <1>7, <1>10, <1>11
  <1>13. ASSUME NEW k \in DOMAIN reason, reason[k] = "clock-degraded"
         PROVE  \E v \in VerdictsOf(c, answers) : v.of.reason = "clock-degraded"
    <2>1. PICK v \in verdicts : v.key = k /\ v.of = Of(k)
      BY <1>3, <1>6
    <2> QED
      BY <1>6, <1>7, <1>13, <2>1 DEF verdicts
  <1>14. \A k \in DOMAIN reason :
            reason[k] \in Holdable \cup {"", "clock-degraded"} => c.ready[k].reason = ""
    BY <1>5, <1>6, <1>7
  <1>15. ASSUME NEW x \in cards, NEW y \in cards, y.key = x.key
         PROVE  y = x
    <2>1. Of(x.key).cards = {x} /\ Of(x.key).cards = {y}
      BY <1>9, <1>15
    <2> QED
      BY <2>1
  <1> QED
    BY <1>6, <1>9, <1>11, <1>12, <1>13, <1>14, <1>15 DEF Judged

-----------------------------------------------------------------------------
\* The end of a cycle, with its parts named.
Publishes(c, bad, cards, reason, kept) ==
    LET fresh == Fresh(cards, c.at)
        shown == Projected(cards) \cup kept
    IN  /\ cycle' = {}
        /\ held' = [k \in shown |-> IF k \in kept THEN held[k] ELSE fresh[k]]
        /\ degraded' = DegradedSince(bad, c.at)
        /\ view' = {BuildWarnings(c, bad, [k \in shown |-> Warning(held'[k], k \in kept)],
                                  Silences(shown, reason), Projected(cards))}
        /\ marginal' = DOMAIN fresh \cup {k \in marginal \cap DOMAIN reason : reason[k] \in Holdable}
        /\ projected' = [k \in Keys |-> IF k \in DOMAIN fresh THEN c.at ELSE projected[k]]
        /\ lastGood' = IF bad THEN lastGood ELSE c.at
        /\ UNCHANGED <<now, inputs, windows>>

LEMMA FinishPublishes ==
    ASSUME Finish
    PROVE  \E c \in cycle, healthy \in BOOLEAN :
           \E answers \in [{k \in DOMAIN c.ready : c.ready[k].reason = ""} -> Answers] :
              Publishes(c, ~healthy \/ \E v \in VerdictsOf(c, answers) : v.of.reason = "clock-degraded",
                        CardsOf(c, answers), ReasonOf(c, answers),
                        Kept(Projected(CardsOf(c, answers)), ReasonOf(c, answers), c.at))
  BY DEF Finish, Publishes, VerdictsOf, CardsOf, ReasonOf, Projected

\* A fresh warning is a card of this cycle, and is first seen no later.
LEMMA FreshIs ==
    ASSUME CycleInv, HeldInv, NEW c \in cycle, NEW bad, NEW cards, NEW reason,
           Judged(c, bad, cards, reason)
    PROVE  LET fresh == Fresh(cards, c.at) IN
           /\ DOMAIN fresh = Projected(cards)
           /\ \A k \in Projected(cards) :
                 /\ fresh[k].projected = c.at /\ fresh[k].card.basis = c.at
                 /\ fresh[k].card.cross \in Nat /\ fresh[k].card.earliest \in Nat
                 /\ InOrder(fresh[k].card)
                 /\ fresh[k].first \in Nat /\ fresh[k].first =< c.at
  <1> DEFINE fresh == Fresh(cards, c.at)
             card(k) == CHOOSE x \in cards : x.key = k
             first(k) == IF k \in DOMAIN held THEN held[k].first ELSE card(k).basis
  <1>1. /\ DOMAIN fresh = Projected(cards)
        /\ \A k \in Projected(cards) : fresh[k] = [card |-> card(k), projected |-> c.at, first |-> first(k)]
    BY DEF Fresh, Projected
  <1>2. \A k \in Projected(cards) : card(k) \in cards
    BY DEF Projected
  <1>3. c.at \in Nat /\ \A k \in DOMAIN held : projected[k] =< c.at
    BY DEF CycleInv
  <1>4. \A k \in DOMAIN held : held[k].first \in Nat /\ projected[k] \in Nat /\ held[k].first =< projected[k]
    BY DEF HeldInv
  <1>5. \A x \in cards : x.basis = c.at /\ x.cross \in Nat /\ x.earliest \in Nat /\ InOrder(x)
    BY DEF Judged
  <1> HIDE DEF card, fresh
  <1>6. \A k \in Projected(cards) : first(k) \in Nat /\ first(k) =< c.at
    BY <1>2, <1>3, <1>4, <1>5
  <1> HIDE DEF first
  <1>7. \A k \in Projected(cards) :
           fresh[k].card = card(k) /\ fresh[k].projected = c.at /\ fresh[k].first = first(k)
    BY <1>1
  <1>8. \A k \in Projected(cards) :
           /\ fresh[k].projected = c.at /\ fresh[k].card.basis = c.at
           /\ fresh[k].card.cross \in Nat /\ fresh[k].card.earliest \in Nat
           /\ InOrder(fresh[k].card)
           /\ fresh[k].first \in Nat /\ fresh[k].first =< c.at
    BY <1>2, <1>5, <1>6, <1>7
  <1> QED
    BY <1>1, <1>8 DEF fresh

\* The end of a cycle leaves the debouncer holding what the view shows.
LEMMA PublishesKeeps ==
    ASSUME LoopInv, NEW c \in cycle, NEW bad \in BOOLEAN, NEW cards, NEW reason,
           Judged(c, bad, cards, reason), NEW kept, kept = Kept(Projected(cards), reason, c.at),
           Publishes(c, bad, cards, reason, kept)
    PROVE  LoopInv'
  <1> DEFINE fresh == Fresh(cards, c.at)
             made == Projected(cards)
             shown == made \cup kept
             warnings == [k \in shown |-> Warning(held'[k], k \in kept)]
             silences == Silences(shown, reason)
             past == {k \in DOMAIN c.ready : c.ready[k].past}
  <1>1. /\ DOMAIN fresh = made
        /\ \A k \in made :
              /\ fresh[k].projected = c.at /\ fresh[k].card.basis = c.at
              /\ fresh[k].card.cross \in Nat /\ fresh[k].card.earliest \in Nat
              /\ InOrder(fresh[k].card)
              /\ fresh[k].first \in Nat /\ fresh[k].first =< c.at
    BY FreshIs DEF LoopInv
  <1> HIDE DEF fresh
  <1>2. \A k \in kept : /\ k \in DOMAIN held /\ k \notin made /\ k \in DOMAIN reason
                        /\ reason[k] \in Holdable /\ c.at - held[k].projected =< ClearAfter
    BY DEF Kept
  <1>3. /\ c.at \in Nat \ {0} /\ c.at =< now /\ lastGood < c.at /\ degraded =< c.at
        /\ \A k \in DOMAIN c.ready : k \in Keys /\ Ready(c.ready[k], c.at, c.splices)
    BY DEF LoopInv, CycleInv
  <1>4. /\ DOMAIN reason = DOMAIN c.ready /\ made \subseteq DOMAIN reason
        /\ \A k \in DOMAIN reason : reason[k] = "" <=> k \in made
        /\ \A k \in DOMAIN reason : reason[k] \in Holdable \cup {""} => c.ready[k].reason = ""
        /\ \A k \in DOMAIN reason : reason[k] = "clock-degraded" => bad
    BY DEF Judged
  <1>5. \A k \in shown : k \in DOMAIN c.ready /\ k \in Keys /\ c.ready[k].reason = ""
    BY <1>2, <1>3, <1>4
  <1> HIDE DEF made
  <1>6. /\ DOMAIN held' = shown
        /\ \A k \in kept : held'[k] = held[k]
        /\ \A k \in made : held'[k] = fresh[k]
    BY <1>2 DEF Publishes, made, fresh
  <1>7. /\ marginal' = made \cup {k \in marginal \cap DOMAIN reason : reason[k] \in Holdable}
        /\ \A k \in Keys : projected'[k] = IF k \in made THEN c.at ELSE projected[k]
    BY <1>1 DEF Publishes, fresh
  <1>8. UNCHANGED <<now, inputs, windows>> /\ cycle' = {}
    BY DEF Publishes
  <1>9. ClockInv' /\ CycleInv'
    BY <1>8 DEF LoopInv, ClockInv, CycleInv
  <1>10. \A k \in kept : /\ projected'[k] = projected[k] /\ held[k].projected = projected[k]
                         /\ projected[k] \in Nat \ {0} /\ k \in marginal'
    <2>1. \A k \in kept : k \in Keys /\ k \in marginal /\ projected[k] \in Nat \ {0}
      BY <1>2 DEF LoopInv, HeldInv
    <2> QED
      BY <1>2, <1>7, <2>1 DEF LoopInv, HeldInv
  <1>11. HeldInv'
    <2>1. ASSUME NEW k \in kept
          PROVE  /\ k \in Keys /\ k \in marginal'
                 /\ projected'[k] \in Nat \ {0} /\ projected'[k] =< now'
                 /\ held'[k].projected = projected'[k] /\ held'[k].card.basis = projected'[k]
                 /\ held'[k].card.cross \in Nat /\ held'[k].card.earliest \in Nat
                 /\ InOrder(held'[k].card)
                 /\ held'[k].first \in Nat /\ held'[k].first =< projected'[k]
      <3>1. held'[k] = held[k] /\ projected'[k] = projected[k] /\ now' = now /\ k \in marginal'
        BY <1>6, <1>8, <1>10
      <3> QED
        BY <1>2, <3>1 DEF LoopInv, HeldInv
    <2>2. ASSUME NEW k \in made
          PROVE  /\ k \in Keys /\ k \in marginal'
                 /\ projected'[k] \in Nat \ {0} /\ projected'[k] =< now'
                 /\ held'[k].projected = projected'[k] /\ held'[k].card.basis = projected'[k]
                 /\ held'[k].card.cross \in Nat /\ held'[k].card.earliest \in Nat
                 /\ InOrder(held'[k].card)
                 /\ held'[k].first \in Nat /\ held'[k].first =< projected'[k]
      <3>1. held'[k] = fresh[k] /\ projected'[k] = c.at /\ now' = now /\ k \in marginal' /\ k \in Keys
        BY <1>5, <1>6, <1>7, <1>8
      <3> QED
        BY <1>1, <1>3, <3>1
    <2>3. HeldInv' = \A k \in DOMAIN held' :
                 /\ k \in Keys /\ k \in marginal'
                 /\ projected'[k] \in Nat \ {0} /\ projected'[k] =< now'
                 /\ held'[k].projected = projected'[k] /\ held'[k].card.basis = projected'[k]
                 /\ held'[k].card.cross \in Nat /\ held'[k].card.earliest \in Nat
                 /\ InOrder(held'[k].card)
                 /\ held'[k].first \in Nat /\ held'[k].first =< projected'[k]
      BY DEF HeldInv, InOrder, Keys
    <2> QED
      BY <1>6, <2>1, <2>2, <2>3
  <1>12. /\ degraded' = DegradedSince(bad, c.at)
         /\ lastGood' = IF bad THEN lastGood ELSE c.at
         /\ view' = {BuildWarnings(c, bad, warnings, silences, made)}
    BY DEF Publishes, made
  <1>13. /\ degraded' \in Nat /\ degraded' =< c.at /\ lastGood' \in Int /\ lastGood' =< c.at
         /\ degraded' = 0 <=> ~bad
         /\ bad <=> lastGood' # c.at
         /\ degraded' # 0 => lastGood' < degraded'
    <2>1. degraded \in Nat /\ lastGood \in Int /\ (degraded # 0 => lastGood < degraded)
      BY DEF LoopInv, HealthInv
    <2>2. CASE bad
      <3>1. lastGood' = lastGood /\ degraded' = IF degraded = 0 THEN c.at ELSE degraded
        BY <1>12, <2>2 DEF DegradedSince
      <3> QED
        BY <1>3, <2>1, <2>2, <3>1
    <2>3. CASE ~bad
      <3>1. lastGood' = c.at /\ degraded' = 0
        BY <1>12, <2>3 DEF DegradedSince
      <3> QED
        BY <1>3, <2>1, <2>3, <3>1
    <2> QED
      BY <2>2, <2>3
  <1>14. HealthInv'
    <2>1. view' # {} /\ now' = now /\ degraded' =< now
      BY <1>3, <1>8, <1>12, <1>13 DEF LoopInv, ClockInv
    <2> QED
      BY <1>13, <2>1 DEF HealthInv
  <1>15. /\ DOMAIN silences = {k \in DOMAIN reason : reason[k] # "" /\ k \notin shown}
         /\ \A k \in DOMAIN silences : silences[k] = reason[k]
    BY DEF Silences
  <1>16. DOMAIN warnings = shown
    OBVIOUS
  <1>17. \A k \in shown : /\ warnings[k].card = held'[k].card /\ warnings[k].first = held'[k].first
                          /\ warnings[k].aging = (k \in kept)
    BY DEF Warning
  <1> HIDE DEF silences, warnings
  <1>18. DOMAIN warnings \cap DOMAIN silences = {} /\ DOMAIN warnings \cup DOMAIN silences = DOMAIN c.ready
    <2>1. shown \subseteq DOMAIN reason /\ \A k \in DOMAIN reason \ shown : reason[k] # ""
      BY <1>4, <1>5
    <2> QED
      BY <1>4, <1>15, <1>16, <2>1
  <1>19. Across(c) \cap made = {} /\ shown \cap past = {}
    <2>1. \A k \in shown : ~c.ready[k].past /\ k \notin Across(c)
      BY <1>3, <1>5 DEF Ready, Across
    <2> QED
      BY <2>1
  <1> HIDE DEF past, shown
  <1>20. ASSUME NEW v \in view'
         PROVE  /\ v.at = c.at /\ v.ready = ~bad /\ v.since = degraded'
                /\ v.warnings = warnings /\ v.silences = silences
                /\ v.judged.keys = DOMAIN c.ready /\ v.judged.across = Across(c) \cap made
                /\ v.judged.past = past
    BY <1>12 DEF BuildWarnings, past
  <1>21. ViewInv'
    <2> SUFFICES ASSUME NEW v \in view'
                 PROVE  /\ v.at \in Nat /\ v.at =< now' /\ lastGood' =< v.at /\ Stated(v)'
                        /\ DOMAIN v.warnings = DOMAIN held'
                        /\ \A k \in DOMAIN held' :
                              /\ v.warnings[k].card = held'[k].card /\ v.warnings[k].first = held'[k].first
                              /\ k \notin v.judged.past
                              /\ v.warnings[k].aging => v.at - projected'[k] =< ClearAfter
                        /\ DOMAIN v.warnings \cap DOMAIN v.silences = {}
                        /\ DOMAIN v.warnings \cup DOMAIN v.silences = v.judged.keys
                        /\ v.judged.across = {}
      BY DEF ViewInv
    <2>1. v.at \in Nat /\ v.at =< now' /\ lastGood' =< v.at
      BY <1>3, <1>8, <1>13, <1>20
    <2>2. /\ v.ready = (v.since = 0) /\ v.ready = (lastGood' = v.at)
          /\ v.since # 0 => lastGood' < v.since /\ v.since =< v.at
      <3>1. v.at = c.at /\ v.ready = ~bad /\ v.since = degraded'
        BY <1>20
      <3> QED
        BY <1>13, <3>1
    <2>3. (\E k \in DOMAIN v.silences : v.silences[k] = "clock-degraded") => ~v.ready
      <3>1. v.silences = silences /\ v.ready = ~bad
        BY <1>20
      <3>2. ASSUME NEW k \in DOMAIN silences, silences[k] = "clock-degraded"
            PROVE  bad
        BY <1>4, <1>15, <3>2
      <3> QED
        BY <3>1, <3>2
    <2>4. Stated(v)'
      BY <2>2, <2>3 DEF Stated
    <2>5. \A k \in DOMAIN held' :
              /\ v.warnings[k].card = held'[k].card /\ v.warnings[k].first = held'[k].first
              /\ k \notin v.judged.past
              /\ v.warnings[k].aging => v.at - projected'[k] =< ClearAfter
      <3> SUFFICES ASSUME NEW k \in shown
                   PROVE  /\ v.warnings[k].card = held'[k].card /\ v.warnings[k].first = held'[k].first
                          /\ k \notin v.judged.past
                          /\ v.warnings[k].aging => v.at - projected'[k] =< ClearAfter
        BY <1>6
      <3>1. v.warnings[k].card = held'[k].card /\ v.warnings[k].first = held'[k].first
        BY <1>17, <1>20
      <3>2. k \notin v.judged.past
        BY <1>19, <1>20
      <3>3. v.warnings[k].aging => v.at - projected'[k] =< ClearAfter
        <4>1. v.warnings[k].aging = (k \in kept) /\ v.at = c.at
          BY <1>17, <1>20
        <4>2. ASSUME k \in kept PROVE c.at - projected'[k] =< ClearAfter
          <5>1. held[k].projected = projected'[k]
            BY <1>10, <4>2
          <5> QED
            BY <1>2, <4>2, <5>1
        <4> QED
          BY <4>1, <4>2
      <3> QED
        BY <3>1, <3>2, <3>3
    <2>6. DOMAIN v.warnings = DOMAIN held'
      BY <1>6, <1>16, <1>20
    <2>7. /\ DOMAIN v.warnings \cap DOMAIN v.silences = {}
          /\ DOMAIN v.warnings \cup DOMAIN v.silences = v.judged.keys
          /\ v.judged.across = {}
      BY <1>18, <1>19, <1>20
    <2> QED
      BY <2>1, <2>4, <2>5, <2>6, <2>7
  <1> QED
    BY <1>9, <1>11, <1>14, <1>21 DEF LoopInv

LEMMA FinishKeeps == LoopInv /\ Finish => LoopInv'
  <1> SUFFICES ASSUME LoopInv, Finish PROVE LoopInv'
    OBVIOUS
  <1>1. PICK c \in cycle, healthy \in BOOLEAN :
           \E answers \in [{k \in DOMAIN c.ready : c.ready[k].reason = ""} -> Answers] :
              Publishes(c, ~healthy \/ \E v \in VerdictsOf(c, answers) : v.of.reason = "clock-degraded",
                        CardsOf(c, answers), ReasonOf(c, answers),
                        Kept(Projected(CardsOf(c, answers)), ReasonOf(c, answers), c.at))
    BY FinishPublishes
  <1>2. PICK answers \in [{k \in DOMAIN c.ready : c.ready[k].reason = ""} -> Answers] :
              Publishes(c, ~healthy \/ \E v \in VerdictsOf(c, answers) : v.of.reason = "clock-degraded",
                        CardsOf(c, answers), ReasonOf(c, answers),
                        Kept(Projected(CardsOf(c, answers)), ReasonOf(c, answers), c.at))
    BY <1>1
  <1> DEFINE bad == ~healthy \/ \E v \in VerdictsOf(c, answers) : v.of.reason = "clock-degraded"
             cards == CardsOf(c, answers)
             reason == ReasonOf(c, answers)
             kept == Kept(Projected(cards), reason, c.at)
  <1>3. Publishes(c, bad, cards, reason, kept)
    BY <1>2
  <1>4. bad \in BOOLEAN /\ ((\E v \in VerdictsOf(c, answers) : v.of.reason = "clock-degraded") => bad)
    OBVIOUS
  <1>5. CycleInv /\ cards = CardsOf(c, answers) /\ reason = ReasonOf(c, answers)
    BY DEF LoopInv
  <1> HIDE DEF bad, cards, reason
  <1>6. Judged(c, bad, cards, reason)
    BY <1>4, <1>5, JudgedOnce
  <1>7. kept = Kept(Projected(cards), reason, c.at)
    OBVIOUS
  <1> HIDE DEF kept
  <1> QED
    BY <1>3, <1>4, <1>6, <1>7, PublishesKeeps

-----------------------------------------------------------------------------
\* The debouncer, the health of the clock and the published view agree with each other
\* and with the cycle under way, whatever ticks, operators and restarts do meanwhile.
THEOREM LoopIsConsistent == Spec => []LoopInv
  <1>1. LoopInv /\ [Next]_vars => LoopInv'
    <2> SUFFICES ASSUME LoopInv, [Next]_vars PROVE LoopInv'
      OBVIOUS
    <2>1. CASE UNCHANGED vars
      BY <2>1 DEF vars, LoopInv, ClockInv, CycleInv, HeldInv, HealthInv, ViewInv, Stated, InOrder, Keys
    <2> QED
      BY <2>1, PassKeeps, PublishKeeps, AddKeeps, FreezeKeeps, FinishKeeps, RestartKeeps DEF Next
  <1> QED
    BY <1>1, InitLoop, PTL DEF Spec

\* No target of a cycle is both a warning and a silence and none is neither, for any
\* targets and any answers of the clock.
THEOREM EveryTargetIsShownOrSilent == Spec => []ShownOrSilent
  <1>1. LoopInv => ShownOrSilent
    BY DEF LoopInv, ViewInv, ShownOrSilent
  <1> QED
    BY <1>1, LoopIsConsistent, PTL

\* A warning is held past its projection only across margins of a guardrail and no longer
\* than ClearAfter, however cycles, ticks and restarts interleave.
THEOREM HeldAcrossMarginsOnly == Spec => []AgingIsMarginal
  <1>1. LoopInv => AgingIsMarginal
    BY DEF LoopInv, HeldInv, ViewInv, AgingIsMarginal
  <1> QED
    BY <1>1, LoopIsConsistent, PTL

\* What is shown as about to cross has not crossed in the samples its cycle judged, and
\* its band lies after its basis.
THEOREM LanesNeverContradict == Spec => []SoonIsNotNow
  <1>1. LoopInv => SoonIsNotNow
    <2> SUFFICES ASSUME LoopInv, NEW v \in view, NEW k \in DOMAIN v.warnings
                 PROVE  LET w == v.warnings[k] IN
                        /\ k \notin v.judged.past
                        /\ w.card.basis < w.card.earliest /\ w.card.earliest =< w.card.cross
                        /\ w.first =< w.card.basis
      BY DEF SoonIsNotNow
    <2>1. /\ k \in DOMAIN held /\ k \notin v.judged.past
          /\ v.warnings[k].card = held[k].card /\ v.warnings[k].first = held[k].first
      BY DEF LoopInv, ViewInv
    <2>2. /\ InOrder(held[k].card) /\ held[k].card.basis = projected[k] /\ held[k].first =< projected[k]
      BY <2>1 DEF LoopInv, HeldInv
    <2> QED
      BY <2>1, <2>2 DEF InOrder
  <1> QED
    BY <1>1, LoopIsConsistent, PTL

\* No projection that is shown as fresh was made across a boundary its cycle had frozen.
THEOREM ProjectionsKeepTheirContext == Spec => []ContextIsClean
  <1>1. LoopInv => ContextIsClean
    BY DEF LoopInv, ViewInv, ContextIsClean
  <1> QED
    BY <1>1, LoopIsConsistent, PTL

\* The clock is said to be degraded since the first cycle after the last good one, and
\* that instant does not move while it stays degraded.
THEOREM DegradedSpellIsStated == Spec => DegradedIsStated
  <1> DEFINE A == /\ degraded # 0 /\ degraded' # 0 => degraded' = degraded
                  /\ \A v \in view' :
                        /\ v.ready = (v.since = 0) /\ v.ready = (lastGood' = v.at)
                        /\ v.since # 0 => lastGood' < v.since /\ v.since =< v.at
                        /\ (\E k \in DOMAIN v.silences : v.silences[k] = "clock-degraded") => ~v.ready
  <1>1. LoopInv' => \A v \in view' : Stated(v)'
    BY DEF LoopInv, ViewInv
  <1>2. [Next]_vars => (degraded # 0 /\ degraded' # 0 => degraded' = degraded)
    <2> SUFFICES ASSUME [Next]_vars, degraded # 0, degraded' # 0 PROVE degraded' = degraded
      OBVIOUS
    <2>1. CASE Finish
      <3>1. PICK c \in cycle : \E bad : degraded' = DegradedSince(bad, c.at)
        BY <2>1, FinishPublishes DEF Publishes
      <3> QED
        BY <3>1 DEF DegradedSince
    <2> QED
      BY <2>1 DEF Next, vars, Pass, Publish, Add, Freeze, Restart
  <1>3. LoopInv' /\ [Next]_vars => A
    BY <1>1, <1>2 DEF Stated
  <1> QED
    BY <1>3, LoopIsConsistent, PTL DEF Spec, DegradedIsStated
=============================================================================
