-------------------------- MODULE UnexplainedProofs --------------------------
(***************************************************************************)
(* Proofs about the unexplained channel, for any entities, metrics,        *)
(* findings and number of windows. What one window makes of an open card   *)
(* (Routed) comes first; the invariant ties the cards to what was reported *)
(* of them and to the rows of the table.                                   *)
(*                                                                         *)
(* Then, from "What is loud" on, about what the channel hears of: that a   *)
(* ring holds readings of one cgroup, of the entity it is kept for and,    *)
(* but for the families Labelled, of one series, and that a fingerprint    *)
(* says what happened to it, for any bindings, pod lives, rings and        *)
(* windows. The invariant ObserveInv is about the readings kept, the       *)
(* lemmas after it about what the primitives make of them.                 *)
(***************************************************************************)
EXTENDS Unexplained, Observe, FiniteSetTheorems, FunctionTheorems, SequenceTheorems, WellFoundedInduction, TLAPS

\* Every card is stamped with windows that happened, one per occurrence at most.
CardsInTime ==
    \A k \in DOMAIN open :
      /\ open[k].first <= open[k].last /\ open[k].last <= now /\ open[k].occurs <= now

\* What was reported of a window: one finding per key, all of them of now, those
\* of open cards in agreement with the tracker, no story of an entity begun after
\* its open card. The rows are still those of earlier windows.
ReportsInTime ==
    /\ phase = "idle" => out = {}
    /\ \A f, g \in out : f.key = g.key => f = g
    /\ \A f \in out : f.first <= f.last /\ f.last = now
    /\ \A f \in out, c \in DOMAIN open : f.key[1] = c[1] => f.first <= open[c].first
    /\ phase = "routed" => \A k \in DOMAIN rows : rows[k].last < now
    /\ phase = "routed" =>
         \A k \in DOMAIN open : \E f \in out :
           f.key = k /\ f.occurs = open[k].occurs /\ f.status \in OpenStatus

UnexpInv == TypeOK /\ OneCardPerScope /\ CardsInTime /\ ReportsInTime /\ RowsReachBack /\ ClosedForItsReason

-----------------------------------------------------------------------------
\* The window's would-be cards are keys, one per entity, made of loud metrics.
LEMMA CurrentKeys ==
    ASSUME NEW heard \in Loudness, NEW ms \in SUBSET Match
    PROVE  /\ Current(heard, ms) \subseteq Key
           /\ \A k1, k2 \in Current(heard, ms) : k1[1] = k2[1] => k1 = k2
           /\ \A k \in Current(heard, ms) : k[2] = Uncovered(heard, ms, k[1])
  <1>1. heard \in [Scope -> SUBSET Metric]
    BY UnexplainedAssumption DEF UnexplainedAssumption
  <1>2. \A k \in Current(heard, ms) :
          \E s \in Scope : k = <<s, Uncovered(heard, ms, s)>> /\ Uncovered(heard, ms, s) # {}
    BY DEF Current
  <1>3. \A s \in Scope : Uncovered(heard, ms, s) \in SUBSET Metric
    BY <1>1 DEF Uncovered
  <1> QED
    BY <1>2, <1>3 DEF Key

\* An entity has at most one origin for its card, so the card continues that one.
LEMMA CardFromOrigin ==
    ASSUME OneCardPerScope, NEW current, NEW k, NEW at,
           NEW o \in Origins(current, k)
    PROVE  /\ o \in DOMAIN open /\ o[1] = k[1]
           /\ Origins(current, k) = {o}
           /\ CardOf(current, k, at) = [first |-> open[o].first, last |-> at, occurs |-> open[o].occurs + 1]
  <1>1. \A x \in Origins(current, k) : x \in DOMAIN open /\ x[1] = k[1]
    BY DEF Origins
  <1>2. Origins(current, k) = {o}
    BY <1>1 DEF OneCardPerScope
  <1>3. (CHOOSE x \in {o} : TRUE) = o
    OBVIOUS
  <1> QED
    BY <1>1, <1>2, <1>3 DEF CardOf

LEMMA CardFromNone ==
    ASSUME NEW current, NEW k, NEW at, Origins(current, k) = {}
    PROVE  CardOf(current, k, at) = [first |-> at, last |-> at, occurs |-> 1]
  BY DEF CardOf

\* A window leaves the open cards well typed, in time and not younger than the
\* story they continue.
LEMMA CardAfter ==
    ASSUME UnexpInv, now < MaxWindows, NEW current, NEW k, NEW at, at = now + 1
    PROVE  /\ CardOf(current, k, at) \in Card
           /\ CardOf(current, k, at).first <= at
           /\ CardOf(current, k, at).last = at
           /\ CardOf(current, k, at).occurs <= at
           /\ \A o \in DOMAIN open : o[1] = k[1] => open[o].first <= CardOf(current, k, at).first
           /\ \/ CardOf(current, k, at).first = at
              \/ \E o \in DOMAIN open : o[1] = k[1] /\ CardOf(current, k, at).first = open[o].first
  <1>1. now \in 0..MaxWindows /\ MaxWindows \in Nat
    BY UnexplainedAssumption DEF UnexpInv, TypeOK, UnexplainedAssumption
  <1>2. \A o \in DOMAIN open : /\ open[o] \in Card /\ open[o].first <= now
                               /\ open[o].last <= now /\ open[o].occurs <= now
    BY <1>1 DEF UnexpInv, TypeOK, CardsInTime, Card, Time
  <1>3. OneCardPerScope
    BY DEF UnexpInv
  <1>4. CASE Origins(current, k) = {}
    BY <1>1, <1>2, <1>4, CardFromNone DEF Card, Time
  <1>5. CASE Origins(current, k) # {}
    <2>1. PICK o \in Origins(current, k) : TRUE
      BY <1>5
    <2>2. /\ o \in DOMAIN open /\ o[1] = k[1]
          /\ CardOf(current, k, at) = [first |-> open[o].first, last |-> at, occurs |-> open[o].occurs + 1]
      BY <2>1, <1>3, CardFromOrigin
    <2>3. \A x \in DOMAIN open : x[1] = k[1] => x = o
      BY <2>2, <1>3 DEF OneCardPerScope
    <2> QED
      BY <1>1, <1>2, <2>2, <2>3 DEF Card, Time
  <1> QED
    BY <1>4, <1>5

\* A set of naturals that is not empty has a least member.
Below == {ss \in Nat \X Nat : ss[1] < ss[2]}
LEMMA LeastExists ==
    ASSUME NEW S, S \subseteq Nat, S # {}
    PROVE  Min(S) \in S /\ \A y \in S : Min(S) <= y
  <1>1. IsWellFoundedOn(Below, Nat)
    BY NatLessThanWellFounded DEF OpToRel, Below
  <1>2. \E x \in S : \A y \in S : <<y, x>> \notin Below
    BY <1>1, WFMin
  <1>3. \A x, y \in Nat : <<y, x>> \in Below <=> y < x
    BY DEF Below
  <1>4. \A x, y \in Nat : x <= y \/ y < x
    OBVIOUS
  <1>5. PICK x \in S : \A y \in S : <<y, x>> \notin Below
    BY <1>2
  <1>6. \A y \in S : x <= y
    BY <1>3, <1>4, <1>5
  <1> QED
    BY <1>5, <1>6 DEF Min

\* Induction over the naturals, told of a set.
LEMMA NatInductive ==
    ASSUME NEW S, 0 \in S, \A n \in Nat : n \in S => n + 1 \in S
    PROVE  Nat \subseteq S
  <1> DEFINE T == Nat \ S
  <1>1. SUFFICES ASSUME T # {} PROVE FALSE
    OBVIOUS
  <1>2. IsWellFoundedOn(Below, Nat)
    BY NatLessThanWellFounded DEF OpToRel, Below
  <1>3. PICK x \in T : \A y \in T : <<y, x>> \notin Below
    BY <1>1, <1>2, WFMin
  <1>4. x \in Nat /\ x \notin S
    OBVIOUS
  <1>5. x # 0
    BY <1>4
  <1>6. x - 1 \in Nat /\ x - 1 < x /\ (x - 1) + 1 = x
    BY <1>4, <1>5
  <1>7. x - 1 \in S
    BY <1>3, <1>4, <1>6 DEF Below
  <1> QED
    BY <1>4, <1>6, <1>7

\* Whatever the matches cover together, those named for it cover together.
LEMMA NamedMatchesCover ==
    ASSUME NEW ms \in SUBSET Match, NEW k
    PROVE  /\ CoveringPhenomena(ms, k) \in SUBSET Nat
           /\ {k[1]} \X k[2] \subseteq Covered(ms) =>
                {k[1]} \X k[2] \subseteq
                  UNION {m.covers : m \in {c \in ms : c.phenomenon \in CoveringPhenomena(ms, k)}}
  <1> DEFINE needed == {k[1]} \X k[2]
             alone  == {m \in ms : needed \subseteq m.covers}
             some   == {c \in ms : c.covers \cap needed # {}}
             named  == {c \in ms : c.phenomenon \in CoveringPhenomena(ms, k)}
  <1>1. \A m \in ms : m.phenomenon \in Nat
    BY UnexplainedAssumption DEF UnexplainedAssumption, MatchType
  <1>2. CASE alone # {}
    <2>1. CoveringPhenomena(ms, k) = {Min({m.phenomenon : m \in alone})}
      BY <1>2 DEF CoveringPhenomena
    <2>2. Min({m.phenomenon : m \in alone}) \in {m.phenomenon : m \in alone}
      <3> DEFINE S == {m.phenomenon : m \in alone}
      <3>1. S \subseteq Nat /\ S # {}
        BY <1>1, <1>2
      <3> HIDE DEF S
      <3>2. Min(S) \in S
        BY <3>1, LeastExists
      <3> QED
        BY <3>2 DEF S
    <2>3. PICK m \in alone : m.phenomenon = Min({x.phenomenon : x \in alone})
      BY <2>2
    <2>4. m \in named /\ needed \subseteq m.covers
      BY <2>1, <2>3
    <2>5. needed \subseteq UNION {x.covers : x \in named}
      BY <2>4
    <2> QED
      BY <1>1, <2>1, <2>3, <2>5
  <1>3. CASE alone = {} /\ needed \subseteq Covered(ms)
    <2>1. CoveringPhenomena(ms, k) = {m.phenomenon : m \in some}
      BY <1>3 DEF CoveringPhenomena
    <2>2. some \subseteq named
      BY <2>1
    <2>3. needed \subseteq UNION {m.covers : m \in some}
      BY <1>3 DEF Covered
    <2>4. needed \subseteq UNION {x.covers : x \in named}
      BY <2>2, <2>3
    <2> QED
      BY <1>1, <2>1, <2>4
  <1>4. CASE alone = {} /\ ~ needed \subseteq Covered(ms)
    <2>1. CoveringPhenomena(ms, k) = {}
      BY <1>4 DEF CoveringPhenomena
    <2> QED
      BY <1>4, <2>1
  <1> QED
    BY <1>2, <1>3, <1>4

\* A card that closes while all of its metrics are loud is covered: otherwise
\* what is uncovered of it would be the entity's card of this window, and continue it.
LEMMA ClosingLoudIsCovered ==
    ASSUME UnexpInv, NEW heard \in Loudness, NEW ms \in SUBSET Match,
           NEW k \in Closing(Current(heard, ms)), StillLoud(heard, k)
    PROVE  {k[1]} \X k[2] \subseteq Covered(ms)
  <1> DEFINE current == Current(heard, ms)
             c == <<k[1], Uncovered(heard, ms, k[1])>>
  <1>1. k \in DOMAIN open /\ k \in Key /\ k \notin current
    BY DEF Closing, UnexpInv, TypeOK
  <1>2. SUFFICES ASSUME NEW x \in k[2], <<k[1], x>> \notin Covered(ms)
                 PROVE  FALSE
    BY <1>1 DEF Key
  <1>3. x \in Uncovered(heard, ms, k[1])
    BY <1>2 DEF StillLoud, Uncovered
  <1>4. c \in current
    BY <1>1, <1>3 DEF Current, Key
  <1>5. k \notin Origins(current, c)
    BY <1>4 DEF Closing
  <1>6. CASE c \in DOMAIN open
    BY <1>1, <1>4, <1>6 DEF UnexpInv, OneCardPerScope
  <1>7. CASE c \notin DOMAIN open
    BY <1>1, <1>3, <1>5, <1>7 DEF Origins
  <1> QED
    BY <1>6, <1>7

-----------------------------------------------------------------------------
\* What a window reports of the card k it leaves open, and of one it closes.
Reported(current, k, at) ==
    [key |-> k, first |-> CardOf(current, k, at).first, last |-> at,
     occurs |-> CardOf(current, k, at).occurs, by |-> {},
     status |-> IF Origins(current, k) = {} THEN "new" ELSE "aging"]

Retired(heard, ms, k, at) ==
    [key |-> k, first |-> open[k].first, last |-> at, occurs |-> open[k].occurs,
     by     |-> IF StillLoud(heard, k) THEN CoveringPhenomena(ms, k) ELSE {},
     status |-> IF StillLoud(heard, k) THEN "superseded" ELSE "resolved"]

LEMMA ReportsAre ==
    ASSUME NEW current, NEW heard, NEW ms, NEW at
    PROVE  /\ Active(current, at) = {Reported(current, k, at) : k \in current}
           /\ Closed(current, heard, ms, at) = {Retired(heard, ms, k, at) : k \in Closing(current)}
  BY DEF Active, Closed, Reported, Retired

\* A kind has finitely many entities.
LEMMA UnaccountedFinite ==
    ASSUME NEW kind, NEW heard, NEW ms
    PROVE  /\ IsFiniteSet(Unaccounted(kind, heard, ms))
           /\ Cardinality(Unaccounted(kind, heard, ms)) \in Nat
  <1>1. Unaccounted(kind, heard, ms) \subseteq Scope /\ IsFiniteSet(Scope)
    BY UnexplainedAssumption DEF Unaccounted, UnexplainedAssumption
  <1> QED
    BY <1>1, FS_Subset, FS_CardinalityType

\* A window counts finitely many cards of a signature, at least one if it is new.
LEMMA RecurrenceTyped ==
    ASSUME NEW current, current \subseteq Key,
           \A k1, k2 \in current : k1[1] = k2[1] => k1 = k2,
           \A sig \in DOMAIN recur : recur[sig] \in [windows : Nat \ {0}, entities : SUBSET Scope]
    PROVE  LET after == RecordRecurrence(current) IN
           \A sig \in DOMAIN after : after[sig] \in [windows : Nat \ {0}, entities : SUBSET Scope]
  <1> DEFINE after == RecordRecurrence(current)
             seen(sig) == {k \in current : Signature(k) = sig}
  <1>1. SUFFICES ASSUME NEW sig \in DOMAIN after
                 PROVE  after[sig] \in [windows : Nat \ {0}, entities : SUBSET Scope]
    OBVIOUS
  <1>2. sig \in DOMAIN recur \/ seen(sig) # {}
    BY DEF RecordRecurrence
  <1>3. /\ after[sig].windows = StatOf(sig).windows + Cardinality(seen(sig))
        /\ after[sig] = [windows  |-> StatOf(sig).windows + Cardinality(seen(sig)),
                         entities |-> StatOf(sig).entities \cup {k[1] : k \in seen(sig)}]
    BY DEF RecordRecurrence
  <1>4. IsFiniteSet(seen(sig))
    <2>1. [k \in seen(sig) |-> k[1]] \in Injection(seen(sig), Scope)
      BY DEF Key, Injection, IsInjective
    <2> QED
      BY <2>1, FS_Injection, UnexplainedAssumption DEF UnexplainedAssumption
  <1>5. Cardinality(seen(sig)) \in Nat /\ (seen(sig) # {} => Cardinality(seen(sig)) # 0)
    BY <1>4, FS_CardinalityType, FS_EmptySet
  <1>6. /\ StatOf(sig).windows \in Nat /\ StatOf(sig).entities \in SUBSET Scope
        /\ sig \in DOMAIN recur => StatOf(sig).windows # 0
    BY DEF StatOf, NoRecurrence
  <1>7. {k[1] : k \in seen(sig)} \subseteq Scope
    BY DEF Key
  <1>8. StatOf(sig).windows + Cardinality(seen(sig)) \in Nat \ {0}
    BY <1>2, <1>5, <1>6
  <1> QED
    BY <1>3, <1>6, <1>7, <1>8

LEMMA RouteStep ==
    ASSUME UnexpInv, Route
    PROVE  UnexpInv'
  <1>1. PICK heard \in Loudness, ms \in SUBSET Match :
          LET current == Current(heard, ms)
          IN  /\ now' = now + 1
              /\ open' = Reconciled(current, now + 1)
              /\ out' = Active(current, now + 1) \cup Closed(current, heard, ms, now + 1)
              /\ recur' = RecordRecurrence(current)
              /\ loud' = heard /\ matches' = ms
              /\ heardFrom' = [kind \in Kind |->
                                  heardFrom[kind] + Cardinality(Unaccounted(kind, heard, ms))]
    BY DEF Route
  <1> DEFINE current == Current(heard, ms)
             at == now + 1
  <1>2. phase' = "routed" /\ rows' = rows /\ now < MaxWindows
    BY DEF Route
  <1>3. /\ now \in 0..MaxWindows /\ MaxWindows \in Nat /\ at \in Time /\ at \in Nat /\ now \in Nat
    BY <1>2, UnexplainedAssumption DEF UnexpInv, TypeOK, UnexplainedAssumption, Time
  <1>4. /\ current \subseteq Key
        /\ \A k1, k2 \in current : k1[1] = k2[1] => k1 = k2
    BY CurrentKeys
  <1>5. DOMAIN open' = current /\ \A k \in current : open'[k] = CardOf(current, k, at)
    BY <1>1 DEF Reconciled
  <1>6. \A k \in current :
          /\ open'[k] \in Card /\ open'[k].first <= at /\ open'[k].last = at /\ open'[k].occurs <= at
          /\ \A o \in DOMAIN open : o[1] = k[1] => open[o].first <= open'[k].first
          /\ \/ open'[k].first = at
             \/ \E o \in DOMAIN open : o[1] = k[1] /\ open'[k].first = open[o].first
    BY <1>2, <1>5, CardAfter
  <1>7. out' = {Reported(current, k, at) : k \in current}
               \cup {Retired(heard, ms, k, at) : k \in Closing(current)}
    BY <1>1, ReportsAre
  <1>8. \A k \in Closing(current) :
          /\ k \in DOMAIN open /\ k \notin current /\ k \in Key
          /\ open[k] \in Card /\ open[k].first <= now
    BY <1>3 DEF Closing, UnexpInv, TypeOK, CardsInTime, Card, Time
  <1>9. OneCardPerScope'
    BY <1>1, <1>4, <1>5 DEF OneCardPerScope
  <1>10. CardsInTime'
    BY <1>1, <1>3, <1>5, <1>6 DEF CardsInTime, Card, Time
  <1>11. ReportsInTime'
    <2>1. \A f \in out' :
            \/ \E k \in current : f = Reported(current, k, at)
            \/ \E k \in Closing(current) : f = Retired(heard, ms, k, at)
      BY <1>7
    <2>2. \A f, g \in out' : f.key = g.key => f = g
      <3>1. /\ \A k \in current : Reported(current, k, at).key = k
            /\ \A k \in Closing(current) : Retired(heard, ms, k, at).key = k /\ k \notin current
        BY <1>8 DEF Reported, Retired
      <3> QED
        BY <2>1, <3>1
    <2>3. \A f \in out' : f.first <= f.last /\ f.last = now'
      BY <1>1, <1>3, <1>5, <1>6, <1>8, <2>1 DEF Reported, Retired, Card, Time
    <2>4. \A f \in out', c \in DOMAIN open' : f.key[1] = c[1] => f.first <= open'[c].first
      <3>1. \A k, c \in current : k[1] = c[1] =>
              Reported(current, k, at).first <= open'[c].first
        BY <1>3, <1>4, <1>5, <1>6 DEF Reported, Card, Time
      <3>2. \A k \in Closing(current), c \in current : k[1] = c[1] =>
              Retired(heard, ms, k, at).first <= open'[c].first
        BY <1>6, <1>8 DEF Retired
      <3> QED
        BY <1>5, <2>1, <3>1, <3>2 DEF Reported, Retired
    <2>5. \A k \in DOMAIN open' : \E f \in out' :
            f.key = k /\ f.occurs = open'[k].occurs /\ f.status \in OpenStatus
      <3>1. \A k \in current : Reported(current, k, at) \in out'
        BY <1>7
      <3>2. \A k \in current : LET f == Reported(current, k, at) IN
              f.key = k /\ f.occurs = open'[k].occurs /\ f.status \in OpenStatus
        BY <1>5 DEF Reported, OpenStatus
      <3> QED
        BY <1>5, <3>1, <3>2
    <2>6. \A k \in DOMAIN rows' : rows'[k].last < now'
      BY <1>1, <1>2, <1>3 DEF UnexpInv, TypeOK, RowsReachBack, Time
    <2> QED
      BY <1>2, <2>2, <2>3, <2>4, <2>5, <2>6 DEF ReportsInTime
  <1>12. RowsReachBack'
    <2>1. \A k \in DOMAIN rows :
            /\ rows[k].first \in Time /\ rows[k].last \in Time
            /\ rows[k].first <= rows[k].last /\ rows[k].last <= now
            /\ \A c \in DOMAIN open : c[1] = k[1] => rows[k].first <= open[c].first
      BY DEF UnexpInv, TypeOK, RowsReachBack
    <2>2. \A k \in DOMAIN rows, c \in current : c[1] = k[1] => rows[k].first <= open'[c].first
      BY <1>3, <1>6, <2>1 DEF Time, Card
    <2> QED
      BY <1>1, <1>2, <1>3, <1>5, <2>1, <2>2 DEF RowsReachBack, Time
  <1>13. ClosedForItsReason'
    <2>1. \A k \in current :
            Reported(current, k, at).status \in OpenStatus /\ Reported(current, k, at).key \in DOMAIN open'
      BY <1>5 DEF Reported, OpenStatus
    <2>2. ASSUME NEW k \in Closing(current), StillLoud(heard, k)
          PROVE  LET f == Retired(heard, ms, k, at) IN
                 /\ f.status = "superseded" /\ f.key \notin DOMAIN open'
                 /\ f.key[2] \subseteq heard[f.key[1]]
                 /\ {f.key[1]} \X f.key[2] \subseteq
                      UNION {m.covers : m \in {c \in ms : c.phenomenon \in f.by}}
      BY <1>5, <1>8, <2>2, ClosingLoudIsCovered, NamedMatchesCover DEF Retired, StillLoud
    <2>3. ASSUME NEW k \in Closing(current), ~ StillLoud(heard, k)
          PROVE  LET f == Retired(heard, ms, k, at) IN
                 /\ f.status = "resolved" /\ f.key \notin DOMAIN open' /\ f.by = {}
                 /\ ~ f.key[2] \subseteq heard[f.key[1]]
      BY <1>5, <1>8, <2>3 DEF Retired, StillLoud
    <2>4. \A f \in out' :
            \/ \E k \in current : f = Reported(current, k, at)
            \/ \E k \in Closing(current) : f = Retired(heard, ms, k, at)
      BY <1>7
    <2> QED
      BY <1>1, <2>1, <2>2, <2>3, <2>4 DEF ClosedForItsReason, OpenStatus, Reported
  <1>14. TypeOK'
    <2>1. out' \subseteq Finding
      <3>1. \A k \in current : Reported(current, k, at) \in Finding
        BY <1>3, <1>4, <1>5, <1>6 DEF Reported, Finding, Card, Time, Status
      <3>2. \A k \in Closing(current) : Retired(heard, ms, k, at) \in Finding
        BY <1>3, <1>8, NamedMatchesCover DEF Retired, Finding, Card, Status
      <3> QED
        BY <1>7, <3>1, <3>2
    <2>2. \A sig \in DOMAIN recur' : recur'[sig] \in [windows : Nat \ {0}, entities : SUBSET Scope]
      BY <1>1, <1>4, RecurrenceTyped DEF UnexpInv, TypeOK
    <2>3. heardFrom' \in [Kind -> Nat]
      <3>1. heardFrom \in [Kind -> Nat]
        BY DEF UnexpInv, TypeOK
      <3>2. \A kind \in Kind : Cardinality(Unaccounted(kind, heard, ms)) \in Nat
        BY UnaccountedFinite
      <3> QED
        BY <1>1, <3>1, <3>2
    <2> QED
      BY <1>1, <1>2, <1>3, <1>4, <1>5, <1>6, <2>1, <2>2, <2>3 DEF UnexpInv, TypeOK
  <1> QED
    BY <1>9, <1>10, <1>11, <1>12, <1>13, <1>14 DEF UnexpInv

\* What is left of the invariant when the window's reports are forgotten.
LEMMA ForgetKeeps ==
    ASSUME UnexpInv, Forget, now' = now,
           \/ open' = open /\ recur' = recur /\ heardFrom' = heardFrom
           \/ open' = NoCards /\ recur' = NoCards /\ heardFrom' = Unheard
    PROVE  /\ OneCardPerScope' /\ CardsInTime' /\ ReportsInTime' /\ ClosedForItsReason'
           /\ rows' = rows => TypeOK' /\ RowsReachBack'
  <1>1. open' = open \/ DOMAIN open' = {}
    BY DEF NoCards
  <1>2. recur' = recur \/ DOMAIN recur' = {}
    BY DEF NoCards
  <1>3. heardFrom' = heardFrom \/ heardFrom' \in [Kind -> Nat]
    BY DEF Unheard
  <1> QED
    BY <1>1, <1>2, <1>3 DEF Forget, UnexpInv, OneCardPerScope, CardsInTime, ReportsInTime,
                      ClosedForItsReason, TypeOK, RowsReachBack

\* What the transaction makes of a row of the window.
LEMMA UpsertRows ==
    ASSUME UnexpInv, UpsertUnexplained
    PROVE  /\ DOMAIN rows' = DOMAIN rows \cup {f.key : f \in out}
           /\ \A f \in out : rows'[f.key] = RowAfter(f)
           /\ \A k \in DOMAIN rows : (\A f \in out : f.key # k) => rows'[k] = rows[k]
  <1>1. \A f \in out : (CHOOSE g \in out : g.key = f.key) = f
    BY DEF UnexpInv, ReportsInTime
  <1> QED
    BY <1>1 DEF UpsertUnexplained

LEMMA UpsertStep ==
    ASSUME UnexpInv, UpsertUnexplained
    PROVE  UnexpInv'
  <1>1. /\ now' = now /\ open' = open /\ recur' = recur /\ heardFrom' = heardFrom /\ Forget
    BY DEF UpsertUnexplained
  <1>2. /\ DOMAIN rows' = DOMAIN rows \cup {f.key : f \in out}
        /\ \A f \in out : rows'[f.key] = RowAfter(f)
        /\ \A k \in DOMAIN rows : (\A f \in out : f.key # k) => rows'[k] = rows[k]
    BY UpsertRows
  <1>3. now \in Nat
    BY UnexplainedAssumption DEF UnexpInv, TypeOK, UnexplainedAssumption
  <1>4. \A f \in out : /\ f \in Finding /\ f.first <= f.last /\ f.last = now
                       /\ \A c \in DOMAIN open : f.key[1] = c[1] => f.first <= open[c].first
    BY DEF UnexpInv, TypeOK, ReportsInTime
  <1>5. \A k \in DOMAIN rows :
          /\ rows[k] \in [first : Time, last : Time, occurs : Time, status : Status, by : SUBSET Nat]
          /\ rows[k].first <= rows[k].last /\ rows[k].last <= now
          /\ \A c \in DOMAIN open : c[1] = k[1] => rows[k].first <= open[c].first
    BY DEF UnexpInv, TypeOK, RowsReachBack
  <1>6. \A f \in out :
          /\ RowAfter(f) \in [first : Time, last : Time, occurs : Time, status : Status, by : SUBSET Nat]
          /\ RowAfter(f).first <= RowAfter(f).last /\ RowAfter(f).last <= now
          /\ \A c \in DOMAIN open : c[1] = f.key[1] => RowAfter(f).first <= open[c].first
    BY <1>3, <1>4, <1>5 DEF RowAfter, Finding, Time
  <1>7. \A k \in DOMAIN rows' :
          /\ k \in Key
          /\ rows'[k] \in [first : Time, last : Time, occurs : Time, status : Status, by : SUBSET Nat]
          /\ rows'[k].first <= rows'[k].last /\ rows'[k].last <= now
          /\ \A c \in DOMAIN open : c[1] = k[1] => rows'[k].first <= open[c].first
    <2>1. \A k \in DOMAIN rows : k \in Key
      BY DEF UnexpInv, TypeOK
    <2>2. \A f \in out : f.key \in Key
      BY <1>4 DEF Finding
    <2> QED
      BY <1>2, <1>5, <1>6, <2>1, <2>2
  <1>8. RowsReachBack'
    BY <1>1, <1>7 DEF RowsReachBack
  <1>9. TypeOK'
    BY <1>1, <1>7 DEF UnexpInv, TypeOK, Forget
  <1>10. OneCardPerScope' /\ CardsInTime' /\ ReportsInTime' /\ ClosedForItsReason'
    BY <1>1, ForgetKeeps
  <1> QED
    BY <1>8, <1>9, <1>10 DEF UnexpInv

LEMMA InvInit == Init => UnexpInv
  <1> SUFFICES ASSUME Init PROVE UnexpInv
    OBVIOUS
  <1>1. DOMAIN open = {} /\ DOMAIN recur = {} /\ DOMAIN rows = {} /\ heardFrom \in [Kind -> Nat]
    BY DEF Init, NoCards, Unheard
  <1> QED
    BY <1>1, UnexplainedAssumption
       DEF Init, UnexpInv, TypeOK, OneCardPerScope, CardsInTime, ReportsInTime,
           RowsReachBack, ClosedForItsReason, UnexplainedAssumption

LEMMA InvNext == UnexpInv /\ [Next]_vars => UnexpInv'
  <1> SUFFICES ASSUME UnexpInv, [Next]_vars PROVE UnexpInv'
    OBVIOUS
  <1>1. CASE Route
    BY <1>1, RouteStep
  <1>2. CASE UpsertUnexplained
    BY <1>2, UpsertStep
  <1>3. CASE UpsertFails \/ Restart
    BY <1>3, ForgetKeeps DEF UpsertFails, Restart, UnexpInv
  <1>4. CASE UNCHANGED vars
    BY <1>4 DEF vars, UnexpInv, TypeOK, OneCardPerScope, CardsInTime, ReportsInTime,
                RowsReachBack, ClosedForItsReason
  <1> QED
    BY <1>1, <1>2, <1>3, <1>4 DEF Next

\* The invariant: cards, reports and rows agree in every reachable state.
THEOREM ChannelConsistent == Spec => []UnexpInv
  BY InvInit, InvNext, PTL DEF Spec

\* The channel is sound after every call, as a run checks it.
THEOREM ChannelIsSound == Spec => []ChannelSound
  <1>1. UnexpInv => ChannelSound
    BY DEF UnexpInv, ChannelSound
  <1> QED
    BY <1>1, ChannelConsistent, PTL

\* Keys, stamps and counts of the tracker and the table are well typed
\* (Tracker.Route, Store.UpsertUnexplained).
THEOREM UnexplainedTypes == Spec => []TypeOK
  <1>1. UnexpInv => TypeOK
    BY DEF UnexpInv
  <1> QED
    BY <1>1, ChannelConsistent, PTL

\* An entity has one open card, and after a window the open cards are exactly
\* the uncovered loudness (Tracker.Route).
THEOREM OneCard == Spec => []OneCardPerScope
  <1>1. UnexpInv => OneCardPerScope
    BY DEF UnexpInv
  <1> QED
    BY <1>1, ChannelConsistent, PTL

\* A superseded card is covered by the matches it names, a resolved one is quiet
\* on some metric (Tracker.Route, coveringPhenomena).
THEOREM ClosesForItsReason == Spec => []ClosedForItsReason
  <1>1. UnexpInv => ClosedForItsReason
    BY DEF UnexpInv
  <1> QED
    BY <1>1, ChannelConsistent, PTL

\* No row begins after the open card of its entity (Store.UpsertUnexplained).
THEOREM RowsReach == Spec => []RowsReachBack
  <1>1. UnexpInv => RowsReachBack
    BY DEF UnexpInv
  <1> QED
    BY <1>1, ChannelConsistent, PTL

-----------------------------------------------------------------------------
LEMMA RouteContinues ==
    ASSUME UnexpInv, Route
    PROVE  ContinuesAsOne
  <1>1. PICK heard \in Loudness, ms \in SUBSET Match :
          LET current == Current(heard, ms)
          IN  /\ now' = now + 1
              /\ open' = Reconciled(current, now + 1)
              /\ out' = Active(current, now + 1) \cup Closed(current, heard, ms, now + 1)
    BY DEF Route
  <1> DEFINE current == Current(heard, ms)
             at == now + 1
  <1>2. /\ \A k1, k2 \in current : k1[1] = k2[1] => k1 = k2
        /\ OneCardPerScope
    BY CurrentKeys DEF UnexpInv
  <1>3. DOMAIN open' = current /\ \A k \in current : open'[k] = CardOf(current, k, at)
    BY <1>1 DEF Reconciled
  <1>4. out' = {Reported(current, k, at) : k \in current}
               \cup {Retired(heard, ms, k, at) : k \in Closing(current)}
    BY <1>1, ReportsAre
  <1>5. SUFFICES ASSUME NEW o \in DOMAIN open, NEW k \in current, o[1] = k[1], o[2] \cap k[2] # {}
                 PROVE  /\ open'[k].first = open[o].first /\ open'[k].occurs = open[o].occurs + 1
                        /\ {f \in out' : f.key[1] = k[1]} = {Reported(current, k, at)}
                        /\ Reported(current, k, at) =
                             [key |-> k, first |-> open[o].first, last |-> now',
                              occurs |-> open'[k].occurs, by |-> {}, status |-> "aging"]
    BY <1>3 DEF ContinuesAsOne
  <1>6. o \in Origins(current, k)
    <2>1. CASE k \in DOMAIN open
      BY <1>2, <1>5, <2>1 DEF Origins, OneCardPerScope
    <2>2. CASE k \notin DOMAIN open
      BY <1>2, <1>5, <2>2 DEF Origins
    <2> QED
      BY <2>1, <2>2
  <1>7. /\ Origins(current, k) = {o}
        /\ CardOf(current, k, at) = [first |-> open[o].first, last |-> at, occurs |-> open[o].occurs + 1]
    BY <1>2, <1>6, CardFromOrigin
  <1>8. Reported(current, k, at) =
          [key |-> k, first |-> open[o].first, last |-> now',
           occurs |-> open'[k].occurs, by |-> {}, status |-> "aging"]
    BY <1>1, <1>3, <1>7 DEF Reported
  <1>9. {f \in out' : f.key[1] = k[1]} = {Reported(current, k, at)}
    <2>1. /\ \A c \in current : Reported(current, c, at).key = c
          /\ \A c \in Closing(current) : Retired(heard, ms, c, at).key = c
      BY DEF Reported, Retired
    <2>2. \A c \in Closing(current) : c[1] # k[1]
      <3>1. o \notin Closing(current)
        BY <1>6 DEF Closing
      <3> QED
        BY <1>2, <1>5, <3>1 DEF Closing, OneCardPerScope
    <2> QED
      BY <1>2, <1>4, <2>1, <2>2
  <1> QED
    BY <1>3, <1>7, <1>8, <1>9

\* While an entity stays loud and uncovered on an overlapping set, its card is one
\* story that keeps its beginning and counts the window once (Tracker.Route).
THEOREM PersistenceIsOneCard == Spec => OneAgingCard
  <1>1. UnexpInv /\ [Next]_vars => [ContinuesAsOne]_vars
    <2> SUFFICES ASSUME UnexpInv, Next PROVE ContinuesAsOne
      OBVIOUS
    <2>1. CASE Route
      BY <2>1, RouteContinues
    <2>2. CASE UpsertUnexplained \/ UpsertFails \/ Restart
      BY <2>2 DEF UpsertUnexplained, UpsertFails, Restart, Forget, ContinuesAsOne
    <2> QED
      BY <2>1, <2>2 DEF Next
  <1> QED
    BY <1>1, ChannelConsistent, PTL DEF Spec, OneAgingCard

\* A committed transaction leaves the timeline agreeing with the tracker on every
\* card of the window (Store.UpsertUnexplained).
THEOREM TimelineAgrees == Spec => TimelineRecordsTheWindow
  <1>1. UnexpInv /\ [Next]_vars => [WindowRecorded]_vars
    <2> SUFFICES ASSUME UnexpInv, Next PROVE WindowRecorded
      OBVIOUS
    <2>1. CASE UpsertUnexplained
      <3>1. /\ DOMAIN rows' = DOMAIN rows \cup {f.key : f \in out}
            /\ \A f \in out : rows'[f.key] = RowAfter(f)
            /\ \A k \in DOMAIN rows : (\A f \in out : f.key # k) => rows'[k] = rows[k]
        BY <2>1, UpsertRows
      <3>2. \A f \in out : /\ RowAfter(f).last = now /\ RowAfter(f).occurs = f.occurs
                           /\ RowAfter(f).status = f.status
        BY DEF RowAfter, UnexpInv, ReportsInTime
      <3>3. phase = "routed"
        BY <2>1 DEF UpsertUnexplained
      <3>4. \A k \in DOMAIN open : \E f \in out :
              f.key = k /\ f.occurs = open[k].occurs /\ f.status \in OpenStatus
        BY <3>3 DEF UnexpInv, ReportsInTime
      <3>5. \A f \in out : f.status \in OpenStatus <=> f.key \in DOMAIN open
        BY DEF UnexpInv, ClosedForItsReason
      <3>6. ASSUME NEW k \in DOMAIN rows', rows'[k].last = now
            PROVE  rows'[k].status \in OpenStatus <=> k \in DOMAIN open
        <4>1. \A x \in DOMAIN rows : rows[x].last < now /\ rows[x].last \in Nat /\ now \in Nat
          BY <3>3, UnexplainedAssumption
             DEF UnexpInv, ReportsInTime, TypeOK, Time, UnexplainedAssumption
        <4>2. \E f \in out : f.key = k
          BY <3>1, <3>6, <4>1
        <4> QED
          BY <3>1, <3>2, <3>5, <4>2
      <3> QED
        BY <3>1, <3>2, <3>4, <3>5, <3>6 DEF WindowRecorded
    <2>2. CASE Route \/ UpsertFails \/ Restart
      BY <2>2 DEF Route, UpsertFails, Restart, WindowRecorded
    <2> QED
      BY <2>1, <2>2 DEF Next
  <1> QED
    BY <1>1, ChannelConsistent, PTL DEF Spec, TimelineRecordsTheWindow

-----------------------------------------------------------------------------
\* The sum of the windows of some signatures, as EveryWindowCountedOnce folds it.
Counted(r, S) == FoldSet(LAMBDA sig, sum : sum + r[sig].windows, 0, S)

Chosen(s) == CHOOSE x \in s : TRUE
Adds(r, g, s) == IF s = {} THEN 0 ELSE g[s \ {Chosen(s)}] + r[Chosen(s)].windows
Tally(r, S) == CHOOSE g : g = [s \in SUBSET S |-> Adds(r, g, s)]

LEMMA CountedIsTally == \A r, S : Counted(r, S) = Tally(r, S)[S]
  BY DEF Counted, Tally, Adds, Chosen, FoldSet, MapThenFoldSet

\* The fold is well defined: by induction on the size of the subset.
LEMMA TallyAt ==
    ASSUME NEW r, NEW S, IsFiniteSet(S)
    PROVE  \A s \in SUBSET S : Tally(r, S)[s] = Adds(r, Tally(r, S), s)
  <1> DEFINE Part(n) == {s \in SUBSET S : Cardinality(s) =< n}
             Good == {n \in Nat : \E g : g = [s \in Part(n) |-> Adds(r, g, s)]}
  <1>1. \A s \in SUBSET S : IsFiniteSet(s) /\ Cardinality(s) \in Nat
    BY FS_Subset, FS_CardinalityType
  <1>2. 0 \in Good
    <2> DEFINE g == [s \in Part(0) |-> 0]
    <2>1. \A s \in Part(0) : s = {}
      BY <1>1, FS_EmptySet
    <2>2. g = [s \in Part(0) |-> Adds(r, g, s)]
      BY <2>1 DEF Adds
    <2> QED
      BY <2>2
  <1>3. ASSUME NEW n \in Nat, n \in Good PROVE n + 1 \in Good
    <2>1. PICK g : g = [s \in Part(n) |-> Adds(r, g, s)]
      BY <1>3
    <2> DEFINE h == [s \in Part(n + 1) |-> Adds(r, g, s)]
    <2>2. \A s \in Part(n) : s \in Part(n + 1) /\ h[s] = g[s]
      <3>1. Part(n) \subseteq Part(n + 1)
        BY <1>1
      <3> HIDE DEF Part
      <3> QED
        BY <2>1, <3>1
    <2>3. \A s \in Part(n + 1) : s # {} => s \ {Chosen(s)} \in Part(n)
      <3> TAKE s \in Part(n + 1)
      <3> HAVE s # {}
      <3>1. Chosen(s) \in s
        BY DEF Chosen
      <3>2. IsFiniteSet(s) /\ Cardinality(s) \in Nat
        BY <1>1
      <3>3. Cardinality(s \ {Chosen(s)}) = Cardinality(s) - 1
        BY <3>1, <3>2, FS_RemoveElement
      <3> QED
        BY <3>2, <3>3
    <2>4. \A s \in Part(n + 1) : Adds(r, h, s) = Adds(r, g, s)
      <3> HIDE DEF Part, h
      <3> QED
        BY <2>2, <2>3 DEF Adds
    <2>5. h = [s \in Part(n + 1) |-> Adds(r, h, s)]
      <3> HIDE DEF Part
      <3> QED
        BY <2>4
    <2>6. \E f : f = [s \in Part(n + 1) |-> Adds(r, f, s)]
      <3> HIDE DEF h
      <3> QED
        BY <2>5
    <2> HIDE DEF h, Part
    <2> QED
      BY <2>6
  <1> HIDE DEF Good
  <1>4. Cardinality(S) \in Good
    BY <1>2, <1>3, NatInductive, FS_CardinalityType
  <1>5. Part(Cardinality(S)) = SUBSET S
    BY FS_Subset, FS_CardinalityType
  <1>6. \E g : g = [s \in SUBSET S |-> Adds(r, g, s)]
    BY <1>4, <1>5 DEF Good
  <1> DEFINE t == Tally(r, S)
  <1>7. t = [s \in SUBSET S |-> Adds(r, t, s)]
    BY <1>6 DEF Tally
  <1> HIDE DEF t
  <1>8. \A s \in SUBSET S : t[s] = Adds(r, t, s)
    BY <1>7
  <1> QED
    BY <1>8 DEF t

\* What a subset sums to does not depend on what it is a subset of.
LEMMA TallySame ==
    ASSUME NEW r, NEW S, IsFiniteSet(S), NEW T \in SUBSET S
    PROVE  Tally(r, S)[T] = Counted(r, T)
  <1> DEFINE Good == {n \in Nat : \A U \in SUBSET T : Cardinality(U) = n => Tally(r, S)[U] = Tally(r, T)[U]}
  <1>1. /\ IsFiniteSet(T)
        /\ \A U \in SUBSET T : U \in SUBSET S /\ IsFiniteSet(U) /\ Cardinality(U) \in Nat
    BY FS_Subset, FS_CardinalityType
  <1>2. \A U \in SUBSET T : /\ Tally(r, S)[U] = Adds(r, Tally(r, S), U)
                            /\ Tally(r, T)[U] = Adds(r, Tally(r, T), U)
    BY <1>1, TallyAt
  <1>3. 0 \in Good
    BY <1>1, <1>2, FS_EmptySet DEF Adds
  <1>4. ASSUME NEW n \in Nat, n \in Good PROVE n + 1 \in Good
    <2>1. ASSUME NEW U \in SUBSET T, Cardinality(U) = n + 1
          PROVE  Tally(r, S)[U] = Tally(r, T)[U]
      <3>1. U # {}
        BY <2>1, FS_EmptySet
      <3>2. Chosen(U) \in U
        BY <3>1 DEF Chosen
      <3>3. Cardinality(U \ {Chosen(U)}) = (n + 1) - 1
        BY <1>1, <2>1, <3>2, FS_RemoveElement
      <3>4. Tally(r, S)[U \ {Chosen(U)}] = Tally(r, T)[U \ {Chosen(U)}]
        <4>1. U \ {Chosen(U)} \in SUBSET T /\ Cardinality(U \ {Chosen(U)}) = n
          BY <3>3
        <4> QED
          BY <1>4, <4>1
      <3> QED
        BY <1>2, <3>1, <3>4 DEF Adds
    <2> QED
      BY <2>1
  <1> HIDE DEF Good
  <1>5. Cardinality(T) \in Good
    BY <1>1, <1>3, <1>4, NatInductive
  <1> QED
    BY <1>5, CountedIsTally DEF Good

LEMMA CountedStep ==
    ASSUME NEW r, NEW S, IsFiniteSet(S)
    PROVE  Counted(r, S) = IF S = {} THEN 0 ELSE Counted(r, S \ {Chosen(S)}) + r[Chosen(S)].windows
  <1>1. Counted(r, S) = Adds(r, Tally(r, S), S)
    BY CountedIsTally, TallyAt
  <1>2. S \ {Chosen(S)} \in SUBSET S
    OBVIOUS
  <1>3. Tally(r, S)[S \ {Chosen(S)}] = Counted(r, S \ {Chosen(S)})
    BY <1>2, TallySame
  <1> QED
    BY <1>1, <1>3 DEF Adds

\* Any signature may be taken out of the sum: addition commutes.
LEMMA CountedTakes ==
    ASSUME NEW r, NEW S, IsFiniteSet(S), \A x \in S : r[x].windows \in Nat
    PROVE  /\ Counted(r, S) \in Nat
           /\ \A x \in S : Counted(r, S) = Counted(r, S \ {x}) + r[x].windows
  <1> DEFINE Takes(U) == /\ Counted(r, U) \in Nat
                         /\ \A x \in U : /\ Counted(r, U \ {x}) \in Nat
                                         /\ Counted(r, U) = Counted(r, U \ {x}) + r[x].windows
             Good == {n \in Nat : \A U \in SUBSET S : Cardinality(U) = n => Takes(U)}
  <1>1. \A U \in SUBSET S : IsFiniteSet(U) /\ Cardinality(U) \in Nat
    BY FS_Subset, FS_CardinalityType
  <1>2. 0 \in Good
    <2>1. ASSUME NEW U \in SUBSET S, Cardinality(U) = 0 PROVE Takes(U)
      <3>1. U = {}
        BY <1>1, <2>1, FS_EmptySet
      <3>2. Counted(r, {}) = 0
        BY CountedStep, FS_EmptySet
      <3> QED
        BY <3>1, <3>2
    <2> QED
      BY <2>1
  <1>3. ASSUME NEW n \in Nat, n \in Good PROVE n + 1 \in Good
    <2>1. ASSUME NEW U \in SUBSET S, Cardinality(U) = n + 1 PROVE Takes(U)
      <3> DEFINE c == Chosen(U)
      <3>1. U # {} /\ IsFiniteSet(U)
        BY <1>1, <2>1, FS_EmptySet
      <3>2. c \in U
        BY <3>1 DEF Chosen
      <3>3. Counted(r, U) = Counted(r, U \ {c}) + r[c].windows
        BY <3>1, CountedStep
      <3> HIDE DEF c
      <3>4. \A x \in U : U \ {x} \in SUBSET S /\ Cardinality(U \ {x}) = n
        <4> TAKE x \in U
        <4>1. Cardinality(U \ {x}) = (n + 1) - 1
          BY <2>1, <3>1, FS_RemoveElement
        <4> QED
          BY <4>1
      <3>5. \A x \in U : Takes(U \ {x})
        BY <1>3, <3>4
      <3>6. \A x \in U : Counted(r, U \ {x}) \in Nat /\ r[x].windows \in Nat
        BY <3>5
      <3>7. ASSUME NEW x \in U PROVE Counted(r, U) = Counted(r, U \ {x}) + r[x].windows
        <4>1. CASE x = c
          BY <3>3, <4>1
        <4>2. CASE x # c
          <5>1. x \in U \ {c} /\ c \in U \ {x}
            BY <3>2, <4>2
          <5>2. Counted(r, U \ {c}) = Counted(r, (U \ {c}) \ {x}) + r[x].windows
            BY <3>2, <3>5, <5>1
          <5>3. Counted(r, U \ {x}) = Counted(r, (U \ {x}) \ {c}) + r[c].windows
            BY <3>5, <5>1
          <5>4. (U \ {c}) \ {x} = (U \ {x}) \ {c}
            OBVIOUS
          <5>5. Counted(r, (U \ {c}) \ {x}) \in Nat
            BY <3>2, <3>5, <5>1
          <5>6. r[x].windows \in Nat /\ r[c].windows \in Nat
            BY <3>2, <3>6
          <5>7. Counted(r, U) = (Counted(r, (U \ {c}) \ {x}) + r[x].windows) + r[c].windows
            BY <3>3, <5>2, Zenon
          <5>8. Counted(r, U \ {x}) = Counted(r, (U \ {c}) \ {x}) + r[c].windows
            BY <5>3, <5>4, Zenon
          <5>9. \A e, v, w \in Nat : (e + w) + v = (e + v) + w
            OBVIOUS
          <5> QED
            <6>1. Counted(r, U \ {x}) + r[x].windows = (Counted(r, (U \ {c}) \ {x}) + r[c].windows) + r[x].windows
              BY <5>8, Zenon
            <6>2. (Counted(r, (U \ {c}) \ {x}) + r[c].windows) + r[x].windows
                    = (Counted(r, (U \ {c}) \ {x}) + r[x].windows) + r[c].windows
              BY <5>5, <5>6, <5>9
            <6> QED
              BY <5>7, <6>1, <6>2, Zenon
        <4> QED
          BY <4>1, <4>2
      <3> QED
        BY <3>2, <3>3, <3>6, <3>7
    <2> QED
      BY <2>1
  <1> HIDE DEF Good
  <1>4. Cardinality(S) \in Good
    BY <1>1, <1>2, <1>3, NatInductive
  <1> QED
    BY <1>4 DEF Good

\* More signatures, with more windows each, sum to more.
LEMMA CountedGrows ==
    ASSUME NEW r, NEW q, NEW T, IsFiniteSet(T), NEW S \in SUBSET T,
           \A x \in T : q[x].windows \in Nat,
           \A x \in S : r[x].windows \in Nat /\ r[x].windows =< q[x].windows
    PROVE  Counted(r, S) =< Counted(q, T)
  <1> DEFINE Good == {n \in Nat : \A U \in SUBSET T : Cardinality(U) = n => Counted(r, S \cap U) =< Counted(q, U)}
  <1>1. \A U \in SUBSET T : IsFiniteSet(U) /\ Cardinality(U) \in Nat /\ IsFiniteSet(S \cap U)
    BY FS_Subset, FS_CardinalityType
  <1>2. 0 \in Good
    <2>1. ASSUME NEW U \in SUBSET T, Cardinality(U) = 0 PROVE Counted(r, S \cap U) =< Counted(q, U)
      <3>1. U = {} /\ S \cap U = {}
        BY <1>1, <2>1, FS_EmptySet
      <3>2. Counted(r, {}) = 0 /\ Counted(q, {}) = 0
        BY CountedStep, FS_EmptySet
      <3> QED
        BY <3>1, <3>2
    <2> QED
      BY <2>1
  <1>3. ASSUME NEW n \in Nat, n \in Good PROVE n + 1 \in Good
    <2>1. ASSUME NEW U \in SUBSET T, Cardinality(U) = n + 1 PROVE Counted(r, S \cap U) =< Counted(q, U)
      <3>1. PICK x \in U : TRUE
        BY <2>1, FS_EmptySet
      <3> DEFINE V == U \ {x}
      <3>2. Cardinality(V) = (n + 1) - 1
        BY <1>1, <2>1, FS_RemoveElement
      <3>3. V \in SUBSET T /\ Cardinality(V) = n
        BY <3>2
      <3>4. Counted(r, S \cap V) =< Counted(q, V)
        BY <1>3, <3>3
      <3>5. /\ Counted(q, U) = Counted(q, V) + q[x].windows
            /\ Counted(q, V) \in Nat /\ q[x].windows \in Nat
        BY <1>1, <3>3, CountedTakes
      <3>6. Counted(r, S \cap V) \in Nat
        BY <1>1, <3>3, CountedTakes
      <3>7. CASE x \in S
        <4>1. Counted(r, S \cap U) = Counted(r, (S \cap U) \ {x}) + r[x].windows
          BY <1>1, <3>7, CountedTakes
        <4>2. (S \cap U) \ {x} = S \cap V
          OBVIOUS
        <4>3. r[x].windows \in Nat /\ r[x].windows =< q[x].windows
          BY <3>7
        <4>4. Counted(r, S \cap U) = Counted(r, S \cap V) + r[x].windows
          BY <4>1, <4>2, Zenon
        <4> HIDE DEF V
        <4> QED
          BY <3>4, <3>5, <3>6, <4>3, <4>4
      <3>8. CASE x \notin S
        <4>1. S \cap U = S \cap V
          BY <3>8
        <4>2. Counted(r, S \cap U) = Counted(r, S \cap V)
          BY <4>1, Zenon
        <4> HIDE DEF V
        <4> QED
          BY <3>4, <3>5, <3>6, <4>2
      <3> QED
        BY <3>7, <3>8
    <2> QED
      BY <2>1
  <1> HIDE DEF Good
  <1>4. Cardinality(T) \in Good
    BY <1>1, <1>2, <1>3, NatInductive
  <1>5. Counted(r, S \cap T) =< Counted(q, T)
    BY <1>4 DEF Good
  <1>6. S \cap T = S
    OBVIOUS
  <1> QED
    BY <1>5, <1>6, Zenon

\* One that has another window makes the sum greater by one at least.
LEMMA CountedGainsOne ==
    ASSUME NEW r, NEW q, NEW T, IsFiniteSet(T), NEW S \in SUBSET T,
           \A x \in T : q[x].windows \in Nat,
           \A x \in S : r[x].windows \in Nat /\ r[x].windows =< q[x].windows,
           NEW y \in T, q[y].windows >= 1, y \in S => q[y].windows >= r[y].windows + 1
    PROVE  Counted(r, S) + 1 =< Counted(q, T)
  <1> DEFINE V == T \ {y}
             W == S \ {y}
  <1>1. IsFiniteSet(S) /\ IsFiniteSet(V) /\ IsFiniteSet(W)
    BY FS_Subset
  <1>2. Counted(r, W) =< Counted(q, V)
    BY <1>1, CountedGrows
  <1>3. /\ Counted(q, T) = Counted(q, V) + q[y].windows
        /\ Counted(q, V) \in Nat /\ q[y].windows \in Nat
    BY <1>1, CountedTakes
  <1>4. Counted(r, W) \in Nat
    BY <1>1, CountedTakes
  <1>5. CASE y \in S
    <2>1. Counted(r, S) = Counted(r, W) + r[y].windows /\ r[y].windows \in Nat
      BY <1>1, <1>5, CountedTakes
    <2>2. q[y].windows >= r[y].windows + 1
      BY <1>5
    <2> HIDE DEF V, W
    <2> QED
      BY <1>2, <1>3, <1>4, <2>1, <2>2
  <1>6. CASE y \notin S
    <2>1. W = S
      BY <1>6
    <2>2. Counted(r, S) = Counted(r, W)
      BY <2>1, Zenon
    <2> HIDE DEF V, W
    <2> QED
      BY <1>2, <1>3, <1>4, <2>2
  <1> QED
    BY <1>5, <1>6

\* The window's cards that have a signature, and those that have one of some.
Under(current, sig)  == {k \in current : Signature(k) = sig}
Among(current, sigs) == {k \in current : Signature(k) \in sigs}

\* What a window adds to the sum is what it adds to each of the signatures: its
\* cards that have one of them.
LEMMA CountedGains ==
    ASSUME NEW r, NEW q, NEW T, IsFiniteSet(T), NEW S \in SUBSET T,
           NEW current, IsFiniteSet(current),
           \A x \in S : r[x].windows \in Nat,
           \A x \in T : q[x].windows = (IF x \in S THEN r[x].windows ELSE 0)
                                      + Cardinality(Under(current, x))
    PROVE  Counted(q, T) = Counted(r, S) + Cardinality(Among(current, T))
  <1> DEFINE seen(U) == Among(current, U)
             one(x)  == Under(current, x)
             Good == {n \in Nat : \A U \in SUBSET T : Cardinality(U) = n =>
                                   Counted(q, U) = Counted(r, S \cap U) + Cardinality(seen(U))}
  <1>1. \A U \in SUBSET T : IsFiniteSet(U) /\ Cardinality(U) \in Nat /\ IsFiniteSet(S \cap U)
    BY FS_Subset, FS_CardinalityType
  <1>2. /\ \A U : IsFiniteSet(seen(U)) /\ Cardinality(seen(U)) \in Nat
        /\ \A x : IsFiniteSet(one(x)) /\ Cardinality(one(x)) \in Nat
    <2>1. \A U : seen(U) \subseteq current
      BY DEF Among
    <2>2. \A x : one(x) \subseteq current
      BY DEF Under
    <2> QED
      BY <2>1, <2>2, FS_Subset, FS_CardinalityType
  <1>3. \A x \in T : q[x].windows \in Nat
    BY <1>2
  <1>4. 0 \in Good
    <2>1. ASSUME NEW U \in SUBSET T, Cardinality(U) = 0
          PROVE  Counted(q, U) = Counted(r, S \cap U) + Cardinality(seen(U))
      <3>1. U = {} /\ S \cap U = {} /\ seen(U) = {}
        BY <1>1, <2>1, FS_EmptySet DEF Among
      <3>2. Counted(r, {}) = 0 /\ Counted(q, {}) = 0 /\ Cardinality(seen(U)) = 0
        BY <3>1, CountedStep, FS_EmptySet
      <3> QED
        BY <3>1, <3>2
    <2> QED
      BY <2>1
  <1>5. ASSUME NEW n \in Nat, n \in Good PROVE n + 1 \in Good
    <2>1. ASSUME NEW U \in SUBSET T, Cardinality(U) = n + 1
          PROVE  Counted(q, U) = Counted(r, S \cap U) + Cardinality(seen(U))
      <3>1. PICK x \in U : TRUE
        BY <2>1, FS_EmptySet
      <3> DEFINE V == U \ {x}
      <3>2. Cardinality(V) = (n + 1) - 1
        BY <1>1, <2>1, FS_RemoveElement
      <3>3. V \in SUBSET T /\ Cardinality(V) = n
        BY <3>2
      <3>4. Counted(q, V) = Counted(r, S \cap V) + Cardinality(seen(V))
        BY <1>5, <3>3
      <3>5. Counted(q, U) = Counted(q, V) + q[x].windows
        BY <1>1, <1>3, CountedTakes
      <3>6. Counted(r, S \cap V) \in Nat
        BY <1>1, <3>3, CountedTakes
      <3>7. Cardinality(seen(U)) = Cardinality(seen(V)) + Cardinality(one(x))
        <4>1. seen(U) = seen(V) \cup one(x) /\ seen(V) \cap one(x) = {}
          BY DEF Among, Under
        <4> HIDE DEF seen, one
        <4>2. Cardinality(seen(V) \cup one(x))
                = Cardinality(seen(V)) + Cardinality(one(x)) - Cardinality(seen(V) \cap one(x))
          BY <1>2, FS_Union
        <4>3. Cardinality(seen(V) \cap one(x)) = 0
          BY <4>1, FS_EmptySet
        <4>4. Cardinality(seen(U)) = Cardinality(seen(V) \cup one(x))
          BY <4>1
        <4> QED
          BY <1>2, <4>2, <4>3, <4>4
      <3>8. CASE x \in S
        <4>1. Counted(r, S \cap U) = Counted(r, (S \cap U) \ {x}) + r[x].windows
          BY <1>1, <3>8, CountedTakes
        <4>2. (S \cap U) \ {x} = S \cap V
          OBVIOUS
        <4>3. Counted(r, S \cap U) = Counted(r, S \cap V) + r[x].windows
          BY <4>1, <4>2, Zenon
        <4>4. r[x].windows \in Nat /\ q[x].windows = r[x].windows + Cardinality(one(x))
          BY <3>8
        <4> HIDE DEF V, seen, one
        <4> QED
          BY <1>2, <3>4, <3>5, <3>6, <3>7, <4>3, <4>4
      <3>9. CASE x \notin S
        <4>1. S \cap U = S \cap V
          BY <3>9
        <4>2. Counted(r, S \cap U) = Counted(r, S \cap V)
          BY <4>1, Zenon
        <4>3. q[x].windows = Cardinality(one(x))
          BY <1>2, <3>9
        <4> HIDE DEF V, seen, one
        <4> QED
          BY <1>2, <3>4, <3>5, <3>6, <3>7, <4>2, <4>3
      <3> QED
        BY <3>8, <3>9
    <2> QED
      BY <2>1
  <1> HIDE DEF Good
  <1>6. Cardinality(T) \in Good
    BY <1>1, <1>4, <1>5, NatInductive
  <1>7. Counted(q, T) = Counted(r, S \cap T) + Cardinality(seen(T))
    BY <1>6 DEF Good
  <1>8. S \cap T = S
    OBVIOUS
  <1> QED
    BY <1>7, <1>8, Zenon

-----------------------------------------------------------------------------
\* The signatures of the kind of k's entity that know the entity.
KinIn(r, k) == {sig \in DOMAIN r : sig[1] = KindOf[k[1]] /\ k[1] \in r[sig].entities}

\* The signatures of a kind.
OfKind(r, kind) == {sig \in DOMAIN r : sig[1] = kind}

\* What EveryWindowCountedOnce says, with what makes its sums sums: signatures are
\* finite.
RecurInv ==
    /\ IsFiniteSet(DOMAIN recur)
    /\ \A kind \in Kind : Counted(recur, OfKind(recur, kind)) = heardFrom[kind]
    /\ \A k \in DOMAIN open :
         Signature(k) \in KinIn(recur, k) /\ open[k].occurs <= Counted(recur, KinIn(recur, k))

\* A window's cards are finite in number, one for each entity.
LEMMA CurrentIsFinite ==
    ASSUME NEW heard \in Loudness, NEW ms \in SUBSET Match
    PROVE  IsFiniteSet(Current(heard, ms))
  <1> DEFINE current == Current(heard, ms)
  <1>1. current \subseteq Key /\ \A k1, k2 \in current : k1[1] = k2[1] => k1 = k2
    BY CurrentKeys
  <1> HIDE DEF current
  <1>2. [k \in current |-> k[1]] \in Injection(current, Scope)
    BY <1>1 DEF Key, Injection, IsInjective
  <1>3. IsFiniteSet(current)
    BY <1>2, FS_Injection, UnexplainedAssumption DEF UnexplainedAssumption
  <1> QED
    BY <1>3 DEF current

\* A window only adds to the recurrence, and one at least for each of its cards.
LEMMA RecurrenceGrows ==
    ASSUME TypeOK, NEW current, IsFiniteSet(current), current \subseteq Key,
           \A k1, k2 \in current : k1[1] = k2[1] => k1 = k2,
           recur' = RecordRecurrence(current)
    PROVE  /\ DOMAIN recur' = DOMAIN recur \cup {Signature(k) : k \in current}
           /\ \A sig \in DOMAIN recur' : recur'[sig].windows \in Nat /\ recur'[sig].windows >= 1
           /\ \A sig \in DOMAIN recur : /\ recur[sig].windows \in Nat
                                        /\ recur[sig].windows <= recur'[sig].windows
                                        /\ recur[sig].entities \subseteq recur'[sig].entities
           /\ \A k \in current :
                /\ k[1] \in recur'[Signature(k)].entities
                /\ Signature(k) \in DOMAIN recur =>
                     recur'[Signature(k)].windows >= recur[Signature(k)].windows + 1
  <1> DEFINE seen(sig) == {k \in current : Signature(k) = sig}
  <1>1. DOMAIN recur' = DOMAIN recur \cup {Signature(k) : k \in current}
    BY DEF RecordRecurrence
  <1>2. \A sig \in DOMAIN recur : recur[sig] \in [windows : Nat \ {0}, entities : SUBSET Scope]
    BY DEF TypeOK
  <1>3. \A sig \in DOMAIN recur' : recur'[sig] \in [windows : Nat \ {0}, entities : SUBSET Scope]
    BY <1>2, RecurrenceTyped
  <1>4. \A sig \in DOMAIN recur' :
          /\ recur'[sig].windows = StatOf(sig).windows + Cardinality(seen(sig))
          /\ recur'[sig].entities = StatOf(sig).entities \cup {k[1] : k \in seen(sig)}
    BY DEF RecordRecurrence
  <1>5. \A sig : IsFiniteSet(seen(sig)) /\ Cardinality(seen(sig)) \in Nat
    BY FS_Subset, FS_CardinalityType
  <1>6. \A k \in current : k \in seen(Signature(k)) /\ Cardinality(seen(Signature(k))) # 0
    <2> TAKE k \in current
    <2>1. k \in seen(Signature(k))
      OBVIOUS
    <2>2. seen(Signature(k)) # {} /\ IsFiniteSet(seen(Signature(k)))
      BY <1>5, <2>1
    <2> HIDE DEF seen
    <2>3. Cardinality(seen(Signature(k))) # 0
      BY <2>2, FS_EmptySet
    <2> QED
      BY <2>1, <2>3
  <1> HIDE DEF seen
  <1>7. \A sig \in DOMAIN recur : StatOf(sig) = recur[sig] /\ sig \in DOMAIN recur'
    BY <1>1 DEF StatOf
  <1>8. \A sig \in DOMAIN recur' : recur'[sig].windows \in Nat /\ recur'[sig].windows >= 1
    BY <1>3
  <1>9. \A sig \in DOMAIN recur : /\ recur[sig].windows \in Nat
                                  /\ recur[sig].windows <= recur'[sig].windows
                                  /\ recur[sig].entities \subseteq recur'[sig].entities
    <2> TAKE sig \in DOMAIN recur
    <2>1. recur[sig].windows \in Nat
      BY <1>2
    <2>2. /\ recur'[sig].windows = recur[sig].windows + Cardinality(seen(sig))
          /\ recur'[sig].entities = recur[sig].entities \cup {k[1] : k \in seen(sig)}
      BY <1>4, <1>7
    <2> QED
      BY <2>1, <2>2, <1>5
  <1>10. ASSUME NEW k \in current
         PROVE  /\ k[1] \in recur'[Signature(k)].entities
                /\ Signature(k) \in DOMAIN recur =>
                     recur'[Signature(k)].windows >= recur[Signature(k)].windows + 1
    <2>1. Signature(k) \in DOMAIN recur'
      BY <1>1
    <2>2. k[1] \in recur'[Signature(k)].entities
      BY <1>4, <1>6, <2>1
    <2>3. ASSUME Signature(k) \in DOMAIN recur
          PROVE  recur'[Signature(k)].windows >= recur[Signature(k)].windows + 1
      <3>1. recur[Signature(k)].windows \in Nat
        BY <1>2, <2>3
      <3>2. recur'[Signature(k)].windows = recur[Signature(k)].windows + Cardinality(seen(Signature(k)))
        BY <1>4, <1>7, <2>1, <2>3
      <3>3. Cardinality(seen(Signature(k))) \in Nat /\ Cardinality(seen(Signature(k))) # 0
        BY <1>5, <1>6
      <3> QED
        BY <3>1, <3>2, <3>3
    <2> QED
      BY <2>2, <2>3
  <1> QED
    BY <1>1, <1>8, <1>9, <1>10

\* The window's cards of a kind are as many as its entities that have one.
LEMMA CardsOfKind ==
    ASSUME NEW heard, NEW ms, NEW kind
    PROVE  Cardinality({k \in Current(heard, ms) : KindOf[k[1]] = kind})
             = Cardinality(Unaccounted(kind, heard, ms))
  <1> DEFINE A == Unaccounted(kind, heard, ms)
             B == {k \in Current(heard, ms) : KindOf[k[1]] = kind}
             f == [s \in A |-> <<s, Uncovered(heard, ms, s)>>]
  <1>1. \A s \in A : f[s] \in B
    BY DEF Unaccounted, Current
  <1>2. \A s, t \in A : f[s] = f[t] => s = t
    OBVIOUS
  <1>3. \A k \in B : \E s \in A : f[s] = k
    BY DEF Unaccounted, Current
  <1>4. f \in [A -> B]
    BY <1>1
  <1>5. IsFiniteSet(A)
    BY UnaccountedFinite
  <1> HIDE DEF A, B, f
  <1>6. f \in Bijection(A, B)
    BY <1>2, <1>3, <1>4, Fun_IsBij
  <1>7. ExistsBijection(A, B)
    BY <1>6 DEF ExistsBijection
  <1>8. Cardinality(B) = Cardinality(A)
    BY <1>5, <1>7, FS_Bijection
  <1> QED
    BY <1>8 DEF A, B

LEMMA RouteCounts ==
    ASSUME UnexpInv, RecurInv, Route
    PROVE  RecurInv'
  <1>1. PICK heard \in Loudness, ms \in SUBSET Match :
          LET current == Current(heard, ms)
          IN  /\ now' = now + 1
              /\ open' = Reconciled(current, now + 1)
              /\ recur' = RecordRecurrence(current)
              /\ heardFrom' = [kind \in Kind |->
                                  heardFrom[kind] + Cardinality(Unaccounted(kind, heard, ms))]
    BY DEF Route
  <1> DEFINE current == Current(heard, ms)
             at == now + 1
  <1>2. /\ current \subseteq Key /\ IsFiniteSet(current)
        /\ \A k1, k2 \in current : k1[1] = k2[1] => k1 = k2
    BY CurrentKeys, CurrentIsFinite
  <1>3. DOMAIN open' = current /\ \A k \in current : open'[k] = CardOf(current, k, at)
    BY <1>1 DEF Reconciled
  <1>4. recur' = RecordRecurrence(current)
    BY <1>1
  <1>8. \A kind : Cardinality({k \in current : KindOf[k[1]] = kind})
                    = Cardinality(Unaccounted(kind, heard, ms))
    BY CardsOfKind
  <1> HIDE DEF current, at
  <1>5. /\ DOMAIN recur' = DOMAIN recur \cup {Signature(k) : k \in current}
        /\ \A sig \in DOMAIN recur' : recur'[sig].windows \in Nat /\ recur'[sig].windows >= 1
        /\ \A sig \in DOMAIN recur : /\ recur[sig].windows \in Nat
                                     /\ recur[sig].windows <= recur'[sig].windows
                                     /\ recur[sig].entities \subseteq recur'[sig].entities
        /\ \A k \in current :
             /\ k[1] \in recur'[Signature(k)].entities
             /\ Signature(k) \in DOMAIN recur =>
                  recur'[Signature(k)].windows >= recur[Signature(k)].windows + 1
    BY <1>2, <1>4, RecurrenceGrows DEF UnexpInv
  <1>6. IsFiniteSet(DOMAIN recur')
    <2> DEFINE f == [k \in current |-> Signature(k)]
    <2>1. f \in Surjection(current, {Signature(k) : k \in current})
      BY DEF Surjection
    <2>2. IsFiniteSet({Signature(k) : k \in current})
      BY <1>2, <2>1, FS_Surjection
    <2> QED
      BY <1>5, <2>2, FS_Union DEF RecurInv
  <1>7. ASSUME NEW k \in current
        PROVE  Signature(k) \in KinIn(recur', k) /\ open'[k].occurs <= Counted(recur', KinIn(recur', k))
    <2>1. Signature(k) \in DOMAIN recur' /\ Signature(k)[1] = KindOf[k[1]]
      BY <1>5 DEF Signature
    <2>2. Signature(k) \in KinIn(recur', k)
      BY <1>5, <2>1 DEF KinIn
    <2>3. KinIn(recur, k) \subseteq KinIn(recur', k) /\ KinIn(recur, k) \subseteq DOMAIN recur
      BY <1>5 DEF KinIn
    <2>4. KinIn(recur', k) \subseteq DOMAIN recur'
      BY DEF KinIn
    <2>5. IsFiniteSet(KinIn(recur', k)) /\ IsFiniteSet(KinIn(recur, k))
      BY <1>6, <2>3, <2>4, FS_Subset
    <2>6. \A x \in KinIn(recur', k) : recur'[x].windows \in Nat
      BY <1>5, <2>4
    <2>7. \A x \in KinIn(recur, k) : recur[x].windows \in Nat /\ recur[x].windows <= recur'[x].windows
      BY <1>5, <2>3
    <2>8. /\ recur'[Signature(k)].windows >= 1
          /\ Signature(k) \in KinIn(recur, k) => recur'[Signature(k)].windows >= recur[Signature(k)].windows + 1
      BY <1>5, <2>1, <2>3
    <2>9. /\ Counted(recur, KinIn(recur, k)) + 1 <= Counted(recur', KinIn(recur', k))
          /\ Counted(recur, KinIn(recur, k)) \in Nat /\ Counted(recur', KinIn(recur', k)) \in Nat
      <3>1. Counted(recur, KinIn(recur, k)) + 1 <= Counted(recur', KinIn(recur', k))
        BY <2>2, <2>3, <2>5, <2>6, <2>7, <2>8, CountedGainsOne
      <3> QED
        BY <2>5, <2>6, <2>7, <3>1, CountedTakes
    <2>10. open'[k].occurs <= Counted(recur', KinIn(recur', k))
      <3>1. CASE Origins(current, k) = {}
        <4>1. open'[k].occurs = 1
          BY <1>3, <3>1, CardFromNone
        <4> QED
          BY <2>9, <4>1
      <3>2. CASE Origins(current, k) # {}
        <4>1. PICK o \in Origins(current, k) : TRUE
          BY <3>2
        <4>2. /\ o \in DOMAIN open /\ o[1] = k[1]
              /\ CardOf(current, k, at) = [first |-> open[o].first, last |-> at, occurs |-> open[o].occurs + 1]
          BY <4>1, CardFromOrigin DEF UnexpInv
        <4>3. open'[k].occurs = open[o].occurs + 1
          BY <1>3, <4>2
        <4>4. KinIn(recur, o) = KinIn(recur, k)
          BY <4>2 DEF KinIn
        <4>5. open[o].occurs <= Counted(recur, KinIn(recur, o))
          BY <4>2 DEF RecurInv
        <4>6. open[o].occurs <= Counted(recur, KinIn(recur, k))
          BY <4>4, <4>5, Zenon
        <4>7. open[o].occurs \in Nat
          BY <4>2, UnexplainedAssumption DEF UnexpInv, TypeOK, Card, Time, UnexplainedAssumption
        <4> QED
          BY <2>9, <4>3, <4>6, <4>7
      <3> QED
        BY <3>1, <3>2
    <2> QED
      BY <2>2, <2>10
  <1>9. ASSUME NEW kind \in Kind
        PROVE  Counted(recur', OfKind(recur', kind)) = heardFrom'[kind]
    <2> DEFINE T == OfKind(recur', kind)
               S == OfKind(recur, kind)
    <2>1. /\ T \subseteq DOMAIN recur' /\ S \subseteq DOMAIN recur /\ S \subseteq T
          /\ \A x \in T : x \in S <=> x \in DOMAIN recur
      BY <1>5 DEF OfKind
    <2>2. IsFiniteSet(T)
      BY <1>6, <2>1, FS_Subset
    <2>3. \A x \in S : recur[x].windows \in Nat
      BY <1>5, <2>1
    <2>4. \A x \in T : recur'[x].windows = (IF x \in S THEN recur[x].windows ELSE 0)
                                         + Cardinality(Under(current, x))
      BY <1>4, <1>5, <2>1 DEF RecordRecurrence, StatOf, NoRecurrence, Under
    <2>5. Among(current, T) = {k \in current : KindOf[k[1]] = kind}
      BY <1>5 DEF OfKind, Signature, Among
    <2>6. Counted(recur, S) = heardFrom[kind]
      BY DEF RecurInv
    <2> HIDE DEF T, S
    <2>7. Counted(recur', T) = Counted(recur, S) + Cardinality(Among(current, T))
      BY <1>2, <2>1, <2>2, <2>3, <2>4, CountedGains
    <2>8. Counted(recur', T) = heardFrom[kind] + Cardinality(Unaccounted(kind, heard, ms))
      BY <1>8, <2>5, <2>6, <2>7
    <2>9. Counted(recur', T) = heardFrom'[kind]
      BY <1>1, <2>8
    <2> QED
      BY <2>9 DEF T
  <1> QED
    BY <1>3, <1>6, <1>7, <1>9 DEF RecurInv, Signature

\* Since the tracker began, the recurrence counts each window in which an entity had
\* something unexplained once and only once, under a signature of the entity's kind,
\* and an open card's windows under signatures that know the entity; a restart begins
\* anew (Tracker.recordRecurrence).
THEOREM EveryWindowIsCounted == Spec => []EveryWindowCountedOnce
  <1>1. Init => RecurInv
    <2> SUFFICES ASSUME Init PROVE RecurInv
      OBVIOUS
    <2>1. DOMAIN open = {} /\ DOMAIN recur = {} /\ heardFrom = Unheard
      BY DEF Init, NoCards
    <2>2. \A kind \in Kind : OfKind(recur, kind) = {} /\ heardFrom[kind] = 0
      BY <2>1 DEF OfKind, Unheard
    <2> QED
      BY <2>1, <2>2, FS_EmptySet, CountedStep DEF RecurInv
  <1>2. UnexpInv /\ RecurInv /\ [Next]_vars => RecurInv'
    <2> SUFFICES ASSUME UnexpInv, RecurInv, [Next]_vars PROVE RecurInv'
      OBVIOUS
    <2>1. CASE Route
      BY <2>1, RouteCounts
    <2>2. CASE UpsertUnexplained \/ UpsertFails \/ UNCHANGED vars
      <3>1. open' = open /\ recur' = recur /\ heardFrom' = heardFrom
        BY <2>2 DEF UpsertUnexplained, UpsertFails, vars
      <3> QED
        BY <3>1 DEF RecurInv, Signature
    <2>3. CASE Restart
      <3>1. DOMAIN open' = {} /\ DOMAIN recur' = {} /\ heardFrom' = Unheard
        BY <2>3 DEF Restart, NoCards
      <3>2. \A kind \in Kind : OfKind(recur', kind) = {} /\ heardFrom'[kind] = 0
        BY <3>1 DEF OfKind, Unheard
      <3> QED
        BY <3>1, <3>2, FS_EmptySet, CountedStep DEF RecurInv
    <2> QED
      BY <2>1, <2>2, <2>3 DEF Next
  <1>3. RecurInv => EveryWindowCountedOnce
    <2> SUFFICES ASSUME RecurInv PROVE EveryWindowCountedOnce
      OBVIOUS
    <2>1. \A sigs : Windows(sigs) = Counted(recur, sigs)
      BY DEF Windows, Counted
    <2>2. \A k : Kin(k[1]) = KinIn(recur, k)
      BY DEF Kin, KinIn
    <2> QED
      BY <2>1, <2>2 DEF RecurInv, EveryWindowCountedOnce, OfKind
  <1> QED
    BY <1>1, <1>2, <1>3, ChannelConsistent, PTL DEF Spec

-----------------------------------------------------------------------------
(***************************************************************************)
(* What is loud: Observe                                                   *)
(***************************************************************************)

\* The three folds over a sequence: a payload's rows, a cycle's payloads, a
\* run's rises. Each takes the last element last.
Taken(kind, run, acc, x) ==
    CASE kind = "row" -> IngestRow(acc, x)
      [] kind = "payload" -> FoldLeft(IngestRow, acc, x)
      [] kind = "rise" -> acc + Rise(run, x)

Partly(kind, run, base, seq, g, s) ==
    IF s = {} THEN base ELSE Taken(kind, run, g[s \ {Max(s)}], seq[Max(s)])

Partial(kind, run, base, seq, S) ==
    CHOOSE g : g = [s \in SUBSET S |-> Partly(kind, run, base, seq, g, s)]

LEMMA RowFold == \A store, p : FoldLeft(IngestRow, store, p) = Partial("row", <<>>, store, p, DOMAIN p)[DOMAIN p]
  BY DEF FoldLeft, MapThenFoldSet, Partial, Partly, Taken

PayloadFold(store, payloads) == FoldLeft(LAMBDA st, p : FoldLeft(IngestRow, st, p), store, payloads)

LEMMA PayloadFoldIs ==
    \A store, p : PayloadFold(store, p) = Partial("payload", <<>>, store, p, DOMAIN p)[DOMAIN p]
  <1> DEFINE Inner(st, p) == FoldLeft(IngestRow, st, p)
  <1>1. \A store, p : PayloadFold(store, p) = FoldLeft(Inner, store, p)
    BY DEF PayloadFold
  <1> HIDE DEF Inner
  <1> QED
    BY <1>1 DEF FoldLeft, MapThenFoldSet, Partial, Partly, Taken, Inner

LEMMA RiseFold ==
    \A run : WindowDelta(run) =
       Partial("rise", run, 0, [i \in 1..(Len(run) - 1) |-> i + 1], 1..(Len(run) - 1))[1..(Len(run) - 1)]
  BY DEF FoldLeft, MapThenFoldSet, Partial, Partly, Taken, WindowDelta

\* A set of naturals up to a bound has a greatest member.
LEMMA GreatestExists ==
    ASSUME NEW n \in Nat, NEW S, S \subseteq 0..n, S # {}
    PROVE  Max(S) \in S /\ \A y \in S : y <= Max(S)
  <1> DEFINE Good == {k \in Nat : (\E x \in S : x <= k) => \E x \in S : \A y \in S : y <= k => y <= x}
  <1>1. 0 \in Good
    OBVIOUS
  <1>2. ASSUME NEW k \in Nat, k \in Good PROVE k + 1 \in Good
    <2>1. CASE k + 1 \in S
      <3>1. \A y \in S : y <= k + 1 => y <= k + 1
        OBVIOUS
      <3> QED
        BY <2>1, <3>1
    <2>2. CASE k + 1 \notin S
      <3>1. \A y \in S : y <= k + 1 <=> y <= k
        BY <2>2
      <3> QED
        BY <1>2, <3>1
    <2> QED
      BY <2>1, <2>2
  <1> HIDE DEF Good
  <1>3. n \in Good
    BY <1>1, <1>2, NatInductive
  <1>4. \A y \in S : y <= n
    OBVIOUS
  <1>5. \E x \in S : \A y \in S : x >= y
    BY <1>3, <1>4 DEF Good
  <1>6. PICK x \in S : \A y \in S : x >= y
    BY <1>5
  <1>7. Max(S) \in S /\ \A y \in S : Max(S) >= y
    BY <1>6 DEF Max
  <1> QED
    BY <1>7

LEMMA TopOfInterval ==
    ASSUME NEW n \in Nat, NEW i \in 1..n
    PROVE  /\ Max(1..i) = i
           /\ (1..i) \ {i} = 1..(i - 1)
           /\ 1..i # {}
  <1>1. 1..i # {} /\ 1..i \subseteq 0..n
    OBVIOUS
  <1>2. Max(1..i) \in 1..i /\ i <= Max(1..i)
    BY <1>1, GreatestExists
  <1> QED
    BY <1>2

\* The fold is well defined, and takes its elements one after the other.
LEMMA PartialIs ==
    ASSUME NEW kind, NEW run, NEW base, NEW seq, NEW n \in Nat
    PROVE  \A s \in SUBSET (1..n) :
             Partial(kind, run, base, seq, 1..n)[s] =
               Partly(kind, run, base, seq, Partial(kind, run, base, seq, 1..n), s)
  <1> DEFINE P(g, s) == Partly(kind, run, base, seq, g, s)
             Good == {k \in Nat : \E g : g = [s \in SUBSET (1..k) |-> P(g, s)]}
  <1>1. 0 \in Good
    <2> DEFINE g == [s \in SUBSET (1..0) |-> base]
    <2>1. \A s \in SUBSET (1..0) : s = {}
      OBVIOUS
    <2>2. g = [s \in SUBSET (1..0) |-> P(g, s)]
      BY <2>1 DEF Partly
    <2> QED
      BY <2>2
  <1>2. ASSUME NEW k \in Nat, k \in Good PROVE k + 1 \in Good
    <2>1. PICK g : g = [s \in SUBSET (1..k) |-> P(g, s)]
      BY <1>2
    <2> DEFINE h == [s \in SUBSET (1..(k + 1)) |-> P(g, s)]
    <2>2. \A s \in SUBSET (1..(k + 1)) : s # {} => s \ {Max(s)} \in SUBSET (1..k)
      <3> TAKE s \in SUBSET (1..(k + 1))
      <3> HAVE s # {}
      <3>1. Max(s) \in s /\ \A y \in s : y <= Max(s)
        <4>1. k + 1 \in Nat /\ s \subseteq 0..(k + 1)
          OBVIOUS
        <4> QED
          BY <4>1, GreatestExists
      <3>2. Max(s) \in 1..(k + 1)
        BY <3>1
      <3>3. \A y \in s : y \in 1..(k + 1) /\ (y # Max(s) => y < Max(s))
        BY <3>1, <3>2
      <3>4. \A y \in s : y # Max(s) => y \in 1..k
        BY <3>2, <3>3
      <3> QED
        BY <3>4
    <2>3. \A s \in SUBSET (1..k) : s \in SUBSET (1..(k + 1))
      OBVIOUS
    <2>4. \A s \in SUBSET (1..k) : h[s] = g[s]
      <3> HIDE DEF P
      <3> QED
        BY <2>1, <2>3
    <2>5. \A s \in SUBSET (1..(k + 1)) : P(h, s) = P(g, s)
      <3> HIDE DEF h
      <3> QED
        BY <2>2, <2>4 DEF Partly
    <2>6. h = [s \in SUBSET (1..(k + 1)) |-> P(h, s)]
      <3> HIDE DEF P
      <3> QED
        BY <2>5
    <2> HIDE DEF h, P
    <2> QED
      BY <2>6
  <1> HIDE DEF Good
  <1>3. n \in Good
    BY <1>1, <1>2, NatInductive
  <1>4. \E g : g = [s \in SUBSET (1..n) |-> P(g, s)]
    BY <1>3 DEF Good
  <1> DEFINE t == Partial(kind, run, base, seq, 1..n)
  <1>5. t = [s \in SUBSET (1..n) |-> P(t, s)]
    BY <1>4 DEF Partial
  <1> HIDE DEF t, P
  <1>6. \A s \in SUBSET (1..n) : t[s] = P(t, s)
    BY <1>5
  <1> QED
    BY <1>6 DEF t, P

GoesStepByStep(kind, run, base, seq, n) ==
    \E h : /\ h[0] = base
           /\ h[n] = Partial(kind, run, base, seq, 1..n)[1..n]
           /\ \A i \in 1..n : h[i] = Taken(kind, run, h[i - 1], seq[i])

LEMMA PartialSteps ==
    ASSUME NEW kind, NEW run, NEW base, NEW seq, NEW n \in Nat
    PROVE  GoesStepByStep(kind, run, base, seq, n)
  <1> DEFINE g == Partial(kind, run, base, seq, 1..n)
             h == [i \in 0..n |-> g[1..i]]
  <1>1. \A s \in SUBSET (1..n) : g[s] = Partly(kind, run, base, seq, g, s)
    BY PartialIs
  <1> HIDE DEF g
  <1>2. h[0] = base
    <2>1. 1..0 = {} /\ 0 \in 0..n
      OBVIOUS
    <2> QED
      BY <1>1, <2>1 DEF Partly
  <1>3. ASSUME NEW i \in 1..n PROVE h[i] = Taken(kind, run, h[i - 1], seq[i])
    <2>1. Max(1..i) = i /\ (1..i) \ {i} = 1..(i - 1) /\ 1..i # {}
      BY TopOfInterval
    <2>2. 1..i \in SUBSET (1..n) /\ i \in 0..n /\ i - 1 \in 0..n
      OBVIOUS
    <2>3. g[1..i] = Taken(kind, run, g[1..(i - 1)], seq[i])
      BY <1>1, <2>1, <2>2 DEF Partly
    <2> QED
      BY <2>2, <2>3
  <1>4. h[n] = g[1..n]
    OBVIOUS
  <1> HIDE DEF h
  <1> QED
    BY <1>2, <1>3, <1>4 DEF g, GoesStepByStep

RowByRow(store, p, n) ==
    \E h : /\ h[0] = store
           /\ \A i \in 1..n : h[i] = IngestRow(h[i - 1], p[i])
           /\ FoldLeft(IngestRow, store, p) = h[n]

LEMMA RowsOneByOne ==
    ASSUME NEW store, NEW p, NEW n \in Nat, DOMAIN p = 1..n
    PROVE  RowByRow(store, p, n)
  <1>0. GoesStepByStep("row", <<>>, store, p, n)
    BY PartialSteps
  <1>1. PICK h : /\ h[0] = store
                 /\ h[n] = Partial("row", <<>>, store, p, 1..n)[1..n]
                 /\ \A i \in 1..n : h[i] = Taken("row", <<>>, h[i - 1], p[i])
    BY <1>0 DEF GoesStepByStep
  <1>2. h[n] = FoldLeft(IngestRow, store, p)
    BY <1>1, RowFold
  <1>3. \A i \in 1..n : h[i] = IngestRow(h[i - 1], p[i])
    BY <1>1 DEF Taken
  <1> QED
    BY <1>1, <1>2, <1>3 DEF RowByRow

PayloadByPayload(store, p, n) ==
    \E h : /\ h[0] = store
           /\ \A i \in 1..n : h[i] = FoldLeft(IngestRow, h[i - 1], p[i])
           /\ PayloadFold(store, p) = h[n]

LEMMA PayloadsOneByOne ==
    ASSUME NEW store, NEW p, NEW n \in Nat, DOMAIN p = 1..n
    PROVE  PayloadByPayload(store, p, n)
  <1>0. GoesStepByStep("payload", <<>>, store, p, n)
    BY PartialSteps
  <1>1. PICK h : /\ h[0] = store
                 /\ h[n] = Partial("payload", <<>>, store, p, 1..n)[1..n]
                 /\ \A i \in 1..n : h[i] = Taken("payload", <<>>, h[i - 1], p[i])
    BY <1>0 DEF GoesStepByStep
  <1>2. h[n] = PayloadFold(store, p)
    BY <1>1, PayloadFoldIs
  <1>3. \A i \in 1..n : h[i] = FoldLeft(IngestRow, h[i - 1], p[i])
    <2>1. \A acc, x : Taken("payload", <<>>, acc, x) = FoldLeft(IngestRow, acc, x)
      BY DEF Taken
    <2> QED
      BY <1>1, <2>1
  <1> QED
    BY <1>1, <1>2, <1>3 DEF PayloadByPayload

-----------------------------------------------------------------------------
\* What one row does to the store: nothing, or one more reading in one ring.
Put(store, id, sample) ==
    [j \in DOMAIN store \cup {id} |-> IF j = id THEN Pushed(RingOf(store, id), sample) ELSE store[j]]

Stream(kind, uid, metric, sub) == [cei |-> [kind |-> kind, uid |-> uid], metric |-> metric, sub |-> sub]
Sample(at, value, src) == [at |-> at, value |-> value, src |-> src]

OfPod(cgroup, series, pod, total) ==
    [cgroup |-> cgroup, series |-> series, uid |-> pod.uid, total |-> total, restarts |-> pod.restarts]
OfNodes(series) == [cgroup |-> "node", series |-> series]

CounterStream(m, uid) == Stream("Container", <<uid, "c">>, m, <<>>)
FailureStream(uid) == Stream("Container", <<uid, "c">>, "failures", <<>>)
GaugeStream(uid) == Stream("Container", <<uid, "c">>, "gauge", <<>>)
SliceStream(uid) == Stream("Pod", <<uid>>, "gauge", <<>>)
MachineStream == Stream("Node", <<0>>, "machine_cpu_cores", <<>>)
DeviceStream(device) == Stream("Node", <<0>>, "fs_avail", [device |-> device])

LEMMA IngestRowIs ==
    ASSUME NEW store, NEW row, NEW cei, Identified(row, Lookup) = [outcome |-> "resolved", cei |-> cei], row.finite
    PROVE  IngestRow(store, row) = Put(store, StreamID(row, cei), Sample(JoinTime(row), row.value, row.src))
  BY DEF IngestRow, Put, Sample

SpeaksOf(row, container) ==
    /\ Label(row, "namespace") = "ns"
    /\ FirstLabel(row, "pod", "pod_name") = "p"
    /\ FirstLabel(row, "container", "container_name") = container
    /\ Label(row, "image") = ""
    /\ Label(row, "name") = ""

LEMMA LabelsOfPod ==
    ASSUME NEW row, NEW uid, NEW container, row.labels = PodLabels(uid, container)
    PROVE  SpeaksOf(row, container)
  <1>1. CASE Runtime[uid] = "dockershim"
    <2>1. row.labels = [namespace |-> "ns", pod_name |-> "p", container_name |-> container]
      BY <1>1 DEF PodLabels
    <2>2. DOMAIN row.labels = {"namespace", "pod_name", "container_name"}
      BY <2>1
    <2>3. row.labels["namespace"] = "ns" /\ row.labels["pod_name"] = "p" /\ row.labels["container_name"] = container
      BY <2>1
    <2> QED
      BY <2>2, <2>3 DEF Label, FirstLabel, SpeaksOf
  <1>2. CASE Runtime[uid] # "dockershim"
    <2>1. row.labels = [namespace |-> "ns", pod |-> "p", container |-> container]
      BY <1>2 DEF PodLabels
    <2>2. DOMAIN row.labels = {"namespace", "pod", "container"}
      BY <2>1
    <2>3. row.labels["namespace"] = "ns" /\ row.labels["pod"] = "p" /\ row.labels["container"] = container
      BY <2>1
    <2> QED
      BY <2>2, <2>3 DEF Label, FirstLabel, SpeaksOf
  <1> QED
    BY <1>1, <1>2

\* A further label changes nothing of whom a row speaks.
LEMMA FurtherLabelIs ==
    ASSUME NEW labels, NEW value
    PROVE  /\ DOMAIN Further(labels, "failure_type", value) = DOMAIN labels \cup {"failure_type"}
           /\ \A k \in DOMAIN labels : k # "failure_type" => Further(labels, "failure_type", value)[k] = labels[k]
  BY DEF Further

LEMMA LabelsOfFailures ==
    ASSUME NEW row, NEW uid, NEW type, row.labels = Further(PodLabels(uid, "c"), "failure_type", type)
    PROVE  SpeaksOf(row, "c")
  <1> DEFINE own == PodLabels(uid, "c")
  <1>0. row.labels = Further(own, "failure_type", type)
    OBVIOUS
  <1> HIDE DEF own
  <1>1. /\ DOMAIN row.labels = DOMAIN own \cup {"failure_type"}
        /\ \A k \in DOMAIN own : k # "failure_type" => row.labels[k] = own[k]
    BY <1>0, FurtherLabelIs
  <1>2. CASE Runtime[uid] = "dockershim"
    <2>1. own = [namespace |-> "ns", pod_name |-> "p", container_name |-> "c"]
      BY <1>2 DEF PodLabels, own
    <2>2. DOMAIN own = {"namespace", "pod_name", "container_name"}
      BY <2>1
    <2>3. own["namespace"] = "ns" /\ own["pod_name"] = "p" /\ own["container_name"] = "c"
      BY <2>1
    <2>4. DOMAIN row.labels = {"namespace", "pod_name", "container_name", "failure_type"}
      BY <1>1, <2>2
    <2>5. row.labels["namespace"] = "ns" /\ row.labels["pod_name"] = "p" /\ row.labels["container_name"] = "c"
      BY <1>1, <2>2, <2>3
    <2> QED
      BY <2>4, <2>5 DEF Label, FirstLabel, SpeaksOf
  <1>3. CASE Runtime[uid] # "dockershim"
    <2>1. own = [namespace |-> "ns", pod |-> "p", container |-> "c"]
      BY <1>3 DEF PodLabels, own
    <2>2. DOMAIN own = {"namespace", "pod", "container"}
      BY <2>1
    <2>3. own["namespace"] = "ns" /\ own["pod"] = "p" /\ own["container"] = "c"
      BY <2>1
    <2>4. DOMAIN row.labels = {"namespace", "pod", "container", "failure_type"}
      BY <1>1, <2>2
    <2>5. row.labels["namespace"] = "ns" /\ row.labels["pod"] = "p" /\ row.labels["container"] = "c"
      BY <1>1, <2>2, <2>3
    <2> QED
      BY <2>4, <2>5 DEF Label, FirstLabel, SpeaksOf
  <1> QED
    BY <1>2, <1>3

LEMMA PauseLabels ==
    ASSUME NEW l, l = [namespace |-> "ns", pod |-> "p", container |-> "", image |-> "pause"]
    PROVE  /\ DOMAIN l = {"namespace", "pod", "container", "image"}
           /\ l["namespace"] = "ns" /\ l["pod"] = "p" /\ l["container"] = "" /\ l["image"] = "pause"
  OBVIOUS

LEMMA LabelsOfSandbox ==
    ASSUME NEW row, NEW uid, row.labels = SandboxLabels(uid)
    PROVE  /\ Label(row, "namespace") = "ns"
           /\ FirstLabel(row, "pod", "pod_name") = "p"
           /\ \/ FirstLabel(row, "container", "container_name") = "POD"
              \/ FirstLabel(row, "container", "container_name") = "" /\ Label(row, "image") = "pause"
  <1>1. CASE Runtime[uid] = "dockershim"
    <2>1. row.labels = PodLabels(uid, "POD")
      BY <1>1 DEF SandboxLabels
    <2> QED
      BY <2>1, LabelsOfPod DEF SpeaksOf
  <1>2. CASE Runtime[uid] # "dockershim"
    <2>1. row.labels = [namespace |-> "ns", pod |-> "p", container |-> "", image |-> "pause"]
      BY <1>2 DEF SandboxLabels
    <2>2. /\ DOMAIN row.labels = {"namespace", "pod", "container", "image"}
          /\ row.labels["namespace"] = "ns" /\ row.labels["pod"] = "p"
          /\ row.labels["container"] = "" /\ row.labels["image"] = "pause"
      BY <2>1, PauseLabels
    <2> QED
      BY <2>2 DEF Label, FirstLabel
  <1> QED
    BY <1>1, <1>2

LEMMA LookupOfPod ==
    ASSUME NEW t \in Recent
    PROVE  Lookup.pods[<<"ns", "p">>, t] = {At(t).uid}
  BY DEF Lookup

LEMMA LookupOfNode ==
    ASSUME NEW t \in Recent
    PROVE  Lookup.nodes["n", t] = {0}
  BY DEF Lookup

LEMMA JoinTimeIs ==
    ASSUME NEW row
    PROVE  /\ \A t : row.event = {t} => JoinTime(row) = t
           /\ row.event = {} => JoinTime(row) = row.at
  BY DEF JoinTime

LEMMA JoinedOne ==
    ASSUME NEW uid, NEW container, NEW why
    PROVE  /\ Joined({uid}, "Node", <<>>, why) = [outcome |-> "resolved", cei |-> [kind |-> "Node", uid |-> <<uid>>]]
           /\ Joined({uid}, "Pod", <<>>, why) = [outcome |-> "resolved", cei |-> [kind |-> "Pod", uid |-> <<uid>>]]
           /\ Joined({uid}, "Container", <<container>>, why) =
                [outcome |-> "resolved", cei |-> [kind |-> "Container", uid |-> <<uid, container>>]]
  <1>1. {uid} # {} /\ (CHOOSE u \in {uid} : TRUE) = uid
    OBVIOUS
  <1>2. <<uid>> \o <<>> = <<uid>>
    OBVIOUS
  <1>3. <<uid>> \o <<container>> = <<uid, container>>
    <2> DEFINE S == {uid, container}
    <2>1. <<uid>> \in Seq(S) /\ <<container>> \in Seq(S) /\ container \in S
      OBVIOUS
    <2> DEFINE l == <<uid>> \o <<container>>
               r == <<uid, container>>
    <2>2. /\ l \in Seq(S) /\ Len(l) = Len(<<uid>>) + Len(<<container>>)
          /\ \A i \in 1..(Len(<<uid>>) + Len(<<container>>)) :
               l[i] = IF i <= Len(<<uid>>) THEN <<uid>>[i] ELSE <<container>>[i - Len(<<uid>>)]
      BY <2>1, ConcatProperties
    <2>3. Len(l) = 2 /\ l[1] = uid /\ l[2] = container
      <3>1. Len(<<uid>>) = 1 /\ Len(<<container>>) = 1 /\ <<uid>>[1] = uid /\ <<container>>[1] = container
        OBVIOUS
      <3> HIDE DEF l
      <3> QED
        BY <2>2, <3>1
    <2>4. r \in Seq(S) /\ Len(r) = 2 /\ r[1] = uid /\ r[2] = container
      OBVIOUS
    <2>5. \A i \in 1..Len(l) : l[i] = r[i]
      <3> HIDE DEF l, r
      <3> QED
        BY <2>3, <2>4
    <2> HIDE DEF l, r, S
    <2>6. l = r
      BY <2>2, <2>3, <2>4, <2>5, SeqEqual
    <2> QED
      BY <2>6 DEF l, r
  <1> QED
    BY <1>1, <1>2, <1>3 DEF Joined, Resolved

PodCEI(uid, container) ==
    IF container = "" THEN [kind |-> "Pod", uid |-> <<uid>>] ELSE [kind |-> "Container", uid |-> <<uid, container>>]

LEMMA PodRowJoins ==
    ASSUME NEW row, NEW t \in Recent, NEW container, container # "POD",
           row.family = "cadvisor", row.class = "other", SpeaksOf(row, container), row.event = {t}
    PROVE  Identified(row, Lookup) = [outcome |-> "resolved", cei |-> PodCEI(At(t).uid, container)]
  <1>1. /\ Label(row, "namespace") = "ns"
        /\ FirstLabel(row, "pod", "pod_name") = "p"
        /\ FirstLabel(row, "container", "container_name") = container
        /\ Label(row, "image") = ""
        /\ Label(row, "name") = ""
    BY DEF SpeaksOf
  <1>2. JoinTime(row) = t
    BY JoinTimeIs
  <1>3. Lookup.pods[<<"ns", "p">>, t] = {At(t).uid}
    BY LookupOfPod
  <1>4. ~ IsSandbox(row)
    BY <1>1 DEF IsSandbox
  <1>5. OfCAdvisor(row, Lookup) =
          IF container = "" THEN Joined({At(t).uid}, "Pod", <<>>, "unknown-pod")
          ELSE Joined({At(t).uid}, "Container", <<container>>, "unknown-pod")
    BY <1>1, <1>2, <1>3, <1>4 DEF OfCAdvisor
  <1>6. Identified(row, Lookup) = OfCAdvisor(row, Lookup)
    BY DEF Identified
  <1> QED
    BY <1>5, <1>6, JoinedOne DEF PodCEI

LEMMA SandboxRowIsDropped ==
    ASSUME NEW row, NEW t \in Recent, NEW store,
           row.family = "cadvisor", row.class = "other", row.labels = SandboxLabels(At(t).uid), row.event = {t}
    PROVE  IngestRow(store, row) = store
  <1>1. /\ Label(row, "namespace") = "ns"
        /\ FirstLabel(row, "pod", "pod_name") = "p"
        /\ \/ FirstLabel(row, "container", "container_name") = "POD"
           \/ FirstLabel(row, "container", "container_name") = "" /\ Label(row, "image") = "pause"
    BY LabelsOfSandbox
  <1>2. JoinTime(row) = t
    BY JoinTimeIs
  <1>3. Lookup.pods[<<"ns", "p">>, t] = {At(t).uid}
    BY LookupOfPod
  <1>4. IsSandbox(row)
    BY <1>1 DEF IsSandbox
  <1>5. OfCAdvisor(row, Lookup) = Dropped("pause-sandbox-row")
    BY <1>1, <1>2, <1>3, <1>4 DEF OfCAdvisor
  <1>6. Identified(row, Lookup).outcome = "dropped"
    BY <1>5 DEF Identified, Dropped
  <1> QED
    BY <1>6 DEF IngestRow

LEMMA SystemRowIsDropped ==
    ASSUME NEW row, NEW store,
           row.family = "cadvisor", row.class = "other", row.labels = [id |-> "system.slice"]
    PROVE  IngestRow(store, row) = store
  <1>1. DOMAIN row.labels = {"id"}
    OBVIOUS
  <1>2. Label(row, "namespace") = "" /\ FirstLabel(row, "pod", "pod_name") = ""
    BY <1>1 DEF Label, FirstLabel
  <1>3. OfCAdvisor(row, Lookup) = Dropped("non-pod-cgroup")
    BY <1>2 DEF OfCAdvisor
  <1>4. Identified(row, Lookup).outcome = "dropped"
    BY <1>3 DEF Identified, Dropped
  <1> QED
    BY <1>4 DEF IngestRow

LEMMA NodeRowJoins ==
    ASSUME NEW row, instant \in Recent, row.source = "n", row.event = {}, row.at = instant,
           \/ row.family = "cadvisor" /\ row.class = "machine"
           \/ row.family = "node-exporter"
    PROVE  Identified(row, Lookup) = [outcome |-> "resolved", cei |-> [kind |-> "Node", uid |-> <<0>>]]
  <1>1. JoinTime(row) = instant
    BY JoinTimeIs
  <1>2. Lookup.nodes["n", instant] = {0}
    BY LookupOfNode
  <1>3. OfSource(row, Lookup) = Joined({0}, "Node", <<>>, "unknown-node")
    BY <1>1, <1>2 DEF OfSource, OfNode
  <1>4. Identified(row, Lookup) = OfSource(row, Lookup)
    BY DEF Identified, OfCAdvisor
  <1> QED
    BY <1>3, <1>4, JoinedOne

CAdvisorRow(t, metric, labels, value, src) ==
    Row("cadvisor", "other", metric, labels, {t}, value, TRUE, src)

NodeRow(family, class, metric, labels, value, series) ==
    Row(family, class, metric, labels, {}, value, TRUE, OfNodes(series))

CounterRow(t, m) ==
    CAdvisorRow(t, m, PodLabels(At(t).uid, "c"), At(t).count[m], OfPod("container", "", At(t), At(t).total[m]))

FailureRow(t, type, m) ==
    CAdvisorRow(t, "failures", Further(PodLabels(At(t).uid, "c"), "failure_type", type), At(t).count[m],
                OfPod("container", type, At(t), At(t).count[m]))

GaugeRow(t, labels, value, cgroup) == CAdvisorRow(t, "gauge", labels, value, OfPod(cgroup, "", At(t), 0))

LEMMA CAdvisorRowsAre ==
    ASSUME NEW t, NEW finite
    PROVE  /\ DOMAIN CAdvisorRows(t, finite) = 1..9
           /\ CAdvisorRows(t, finite)[1] = CounterRow(t, "counter")
           /\ CAdvisorRows(t, finite)[2] = CounterRow(t, "periods")
           /\ CAdvisorRows(t, finite)[3] = FailureRow(t, "pgfault", "periods")
           /\ CAdvisorRows(t, finite)[4] = FailureRow(t, "pgmajfault", "counter")
           /\ CAdvisorRows(t, finite)[5] = GaugeRow(t, SandboxLabels(At(t).uid), 0, "sandbox")
           /\ CAdvisorRows(t, TRUE)[6] = GaugeRow(t, PodLabels(At(t).uid, "c"), At(t).level, "container")
           /\ CAdvisorRows(t, TRUE)[7] = GaugeRow(t, PodLabels(At(t).uid, ""), At(t).level, "slice")
           /\ ~ CAdvisorRows(t, FALSE)[6].finite /\ ~ CAdvisorRows(t, FALSE)[7].finite
           /\ CAdvisorRows(t, finite)[8] = GaugeRow(t, [id |-> "system.slice"], 0, "system")
           /\ CAdvisorRows(t, finite)[9] = NodeRow("cadvisor", "machine", "machine_cpu_cores", <<>>, 1, "machine")
  <1> DEFINE p(f) == CAdvisorRows(t, f)
  <1>1. \A f : DOMAIN p(f) = 1..9
    BY DEF CAdvisorRows
  <1>2. \A f : p(f)[1] = CounterRow(t, "counter")
    BY DEF CAdvisorRows, CounterRow, OfPod, CAdvisorRow
  <1>3. \A f : p(f)[2] = CounterRow(t, "periods")
    BY DEF CAdvisorRows, CounterRow, OfPod, CAdvisorRow
  <1>4. \A f : p(f)[3] = FailureRow(t, "pgfault", "periods")
    BY DEF CAdvisorRows, FailureRow, OfPod, CAdvisorRow
  <1>5. \A f : p(f)[4] = FailureRow(t, "pgmajfault", "counter")
    BY DEF CAdvisorRows, FailureRow, OfPod, CAdvisorRow
  <1>6. \A f : p(f)[5] = GaugeRow(t, SandboxLabels(At(t).uid), 0, "sandbox")
    BY DEF CAdvisorRows, GaugeRow, OfPod, CAdvisorRow
  <1>7. p(TRUE)[6] = GaugeRow(t, PodLabels(At(t).uid, "c"), At(t).level, "container")
    BY DEF CAdvisorRows, GaugeRow, OfPod, CAdvisorRow
  <1>8. p(TRUE)[7] = GaugeRow(t, PodLabels(At(t).uid, ""), At(t).level, "slice")
    BY DEF CAdvisorRows, GaugeRow, OfPod, CAdvisorRow
  <1>9. ~ p(FALSE)[6].finite /\ ~ p(FALSE)[7].finite
    BY DEF CAdvisorRows, Row
  <1>10. \A f : p(f)[8] = GaugeRow(t, [id |-> "system.slice"], 0, "system")
    BY DEF CAdvisorRows, GaugeRow, OfPod, CAdvisorRow
  <1>11. \A f : p(f)[9] = NodeRow("cadvisor", "machine", "machine_cpu_cores", <<>>, 1, "machine")
    BY DEF CAdvisorRows, NodeRow, OfNodes
  <1> HIDE DEF p
  <1>12. p(TRUE) = CAdvisorRows(t, TRUE) /\ p(FALSE) = CAdvisorRows(t, FALSE) /\ p(finite) = CAdvisorRows(t, finite)
    BY DEF p
  <1> QED
    BY <1>1, <1>2, <1>3, <1>4, <1>5, <1>6, <1>7, <1>8, <1>9, <1>10, <1>11, <1>12

LEMMA NodeRowsAre ==
    /\ DOMAIN NodeRows = 1..2
    /\ NodeRows[1] = NodeRow("node-exporter", "other", "fs_avail", [device |-> "sda"], 1, "sda")
    /\ NodeRows[2] = NodeRow("node-exporter", "other", "fs_avail", [device |-> "sdb"], 2, "sdb")
  <1>1. <<"sda", "sdb">>[1] = "sda" /\ <<"sda", "sdb">>[2] = "sdb"
    OBVIOUS
  <1>2. NodeRows = [i \in 1..2 |-> NodeRow("node-exporter", "other", "fs_avail", [device |-> <<"sda", "sdb">>[i]],
                                            i, <<"sda", "sdb">>[i])]
    BY DEF NodeRows, NodeRow, OfNodes
  <1> QED
    BY <1>1, <1>2

\* What a pod's rows are ingested as.
PodStream(uid, container, metric) ==
    IF container = "" THEN Stream("Pod", <<uid>>, metric, <<>>) ELSE Stream("Container", <<uid, container>>, metric, <<>>)

PodRowKept(store, t, container, metric, labels, value, src) ==
    IngestRow(store, CAdvisorRow(t, metric, labels, value, src)) =
      Put(store, PodStream(At(t).uid, container, metric), Sample(t, value, src))

LEMMA PodRowIngested ==
    ASSUME NEW store, NEW t \in Recent, NEW container, container # "POD", NEW metric, NEW labels, NEW value, NEW src,
           SpeaksOf(CAdvisorRow(t, metric, labels, value, src), container)
    PROVE  PodRowKept(store, t, container, metric, labels, value, src)
  <1> DEFINE row == CAdvisorRow(t, metric, labels, value, src)
             cei == PodCEI(At(t).uid, container)
  <1>1. /\ row.family = "cadvisor" /\ row.class = "other" /\ row.event = {t} /\ row.finite = TRUE
        /\ row.metric = metric /\ row.value = value /\ row.src = src
    BY DEF Row, CAdvisorRow
  <1>0. SpeaksOf(row, container)
    OBVIOUS
  <1> HIDE DEF row
  <1>2. Identified(row, Lookup) = [outcome |-> "resolved", cei |-> cei]
    BY <1>0, <1>1, PodRowJoins
  <1>3. JoinTime(row) = t
    BY <1>1, JoinTimeIs
  <1>4. StreamID(row, cei) = [cei |-> cei, metric |-> metric, sub |-> <<>>]
    BY <1>1 DEF StreamID, StreamSubID
  <1>5. StreamID(row, cei) = PodStream(At(t).uid, container, metric)
    BY <1>4 DEF Stream, PodStream, PodCEI
  <1> HIDE DEF cei
  <1>6. IngestRow(store, row) = Put(store, StreamID(row, cei), Sample(t, value, src))
    BY <1>1, <1>2, <1>3, IngestRowIs
  <1> QED
    BY <1>5, <1>6 DEF row, PodRowKept

LEMMA OwnRowsSpeak ==
    ASSUME NEW t, NEW metric, NEW value, NEW src
    PROVE  /\ \A container : SpeaksOf(CAdvisorRow(t, metric, PodLabels(At(t).uid, container), value, src), container)
           /\ \A type : SpeaksOf(CAdvisorRow(t, metric, Further(PodLabels(At(t).uid, "c"), "failure_type", type), value, src), "c")
  <1>1. \A labels : CAdvisorRow(t, metric, labels, value, src).labels = labels
    BY DEF CAdvisorRow, Row
  <1>2. ASSUME NEW container
        PROVE  SpeaksOf(CAdvisorRow(t, metric, PodLabels(At(t).uid, container), value, src), container)
    BY <1>1, LabelsOfPod
  <1>3. ASSUME NEW type
        PROVE  SpeaksOf(CAdvisorRow(t, metric, Further(PodLabels(At(t).uid, "c"), "failure_type", type), value, src), "c")
    BY <1>1, LabelsOfFailures
  <1> QED
    BY <1>2, <1>3

LEMMA NodeRowIngested ==
    ASSUME NEW store, instant \in Recent, NEW metric, NEW value, NEW series, NEW labels, NEW family, NEW class,
           \/ family = "cadvisor" /\ class = "machine"
           \/ family = "node-exporter"
    PROVE  IngestRow(store, NodeRow(family, class, metric, labels, value, series)) =
             Put(store, Stream("Node", <<0>>, metric, IF family = "node-exporter" THEN labels ELSE <<>>),
                 Sample(instant, value, OfNodes(series)))
  <1> DEFINE row == NodeRow(family, class, metric, labels, value, series)
             cei == [kind |-> "Node", uid |-> <<0>>]
  <1>1. /\ row.family = family /\ row.class = class /\ row.labels = labels /\ row.source = "n" /\ row.at = instant
        /\ row.event = {} /\ row.finite = TRUE /\ row.metric = metric /\ row.value = value
        /\ row.src = OfNodes(series)
    BY DEF Row, NodeRow
  <1> HIDE DEF row
  <1>2. Identified(row, Lookup) = [outcome |-> "resolved", cei |-> cei]
    BY <1>1, NodeRowJoins
  <1>3. JoinTime(row) = instant
    BY <1>1, JoinTimeIs
  <1>4. StreamID(row, cei) = Stream("Node", <<0>>, metric, IF family = "node-exporter" THEN labels ELSE <<>>)
    BY <1>1 DEF StreamID, StreamSubID, Stream
  <1> HIDE DEF cei
  <1>5. IngestRow(store, row) = Put(store, StreamID(row, cei), Sample(instant, value, OfNodes(series)))
    BY <1>1, <1>2, <1>3, IngestRowIs
  <1> QED
    BY <1>4, <1>5 DEF row

\* What the readings of a collection are kept as.
CounterSample(m, t) == Sample(t, At(t).count[m], OfPod("container", "", At(t), At(t).total[m]))
FailureSample(type, m, t) == Sample(t, At(t).count[m], OfPod("container", type, At(t), At(t).count[m]))
GaugeSample(t) == Sample(t, At(t).level, OfPod("container", "", At(t), 0))
SliceSample(t) == Sample(t, At(t).level, OfPod("slice", "", At(t), 0))
NodeSample(value, series) == Sample(instant, value, OfNodes(series))

WithCounter(store, m, t) == Put(store, CounterStream(m, At(t).uid), CounterSample(m, t))
WithCounters(store, t) == WithCounter(WithCounter(store, "counter", t), "periods", t)
WithFailure(store, type, m, t) == Put(store, FailureStream(At(t).uid), FailureSample(type, m, t))
WithFailures(store, t) == WithFailure(WithFailure(store, "pgfault", "periods", t), "pgmajfault", "counter", t)
WithGauge(store, t) == Put(store, GaugeStream(At(t).uid), GaugeSample(t))
WithSlice(store, t) == Put(store, SliceStream(At(t).uid), SliceSample(t))
WithMachine(store) == Put(store, MachineStream, NodeSample(1, "machine"))
WithDevices(store) == Put(Put(store, DeviceStream("sda"), NodeSample(1, "sda")), DeviceStream("sdb"), NodeSample(2, "sdb"))

LEMMA CounterRowIngested ==
    ASSUME NEW store, NEW t \in Recent, NEW m
    PROVE  IngestRow(store, CounterRow(t, m)) = WithCounter(store, m, t)
  <1> DEFINE src == OfPod("container", "", At(t), At(t).total[m])
             own == PodLabels(At(t).uid, "c")
             value == At(t).count[m]
  <1>1. SpeaksOf(CAdvisorRow(t, m, own, value, src), "c")
    BY OwnRowsSpeak
  <1>2. CounterRow(t, m) = CAdvisorRow(t, m, own, value, src) /\ CounterSample(m, t) = Sample(t, value, src)
    BY DEF CounterRow, CounterSample
  <1> HIDE DEF src, own, value
  <1>3. PodRowKept(store, t, "c", m, own, value, src)
    BY <1>1, PodRowIngested
  <1>4. PodStream(At(t).uid, "c", m) = CounterStream(m, At(t).uid)
    BY DEF PodStream, CounterStream
  <1> QED
    BY <1>2, <1>3, <1>4 DEF WithCounter, PodRowKept

LEMMA FailureRowIngested ==
    ASSUME NEW store, NEW t \in Recent, NEW type, NEW m
    PROVE  IngestRow(store, FailureRow(t, type, m)) = WithFailure(store, type, m, t)
  <1> DEFINE src == OfPod("container", type, At(t), At(t).count[m])
             labels == Further(PodLabels(At(t).uid, "c"), "failure_type", type)
             value == At(t).count[m]
  <1>1. SpeaksOf(CAdvisorRow(t, "failures", labels, value, src), "c")
    BY OwnRowsSpeak
  <1>2. /\ FailureRow(t, type, m) = CAdvisorRow(t, "failures", labels, value, src)
        /\ FailureSample(type, m, t) = Sample(t, value, src)
    BY DEF FailureRow, FailureSample
  <1> HIDE DEF src, labels, value
  <1>3. PodRowKept(store, t, "c", "failures", labels, value, src)
    BY <1>1, PodRowIngested
  <1>4. PodStream(At(t).uid, "c", "failures") = FailureStream(At(t).uid)
    BY DEF PodStream, FailureStream
  <1> QED
    BY <1>2, <1>3, <1>4 DEF WithFailure, PodRowKept

LEMMA GaugeRowIngested ==
    ASSUME NEW store, NEW t \in Recent
    PROVE  /\ IngestRow(store, GaugeRow(t, PodLabels(At(t).uid, "c"), At(t).level, "container")) = WithGauge(store, t)
           /\ IngestRow(store, GaugeRow(t, PodLabels(At(t).uid, ""), At(t).level, "slice")) = WithSlice(store, t)
  <1>1. ASSUME NEW container, container # "POD", NEW cgroup
        PROVE  IngestRow(store, GaugeRow(t, PodLabels(At(t).uid, container), At(t).level, cgroup)) =
                 Put(store, PodStream(At(t).uid, container, "gauge"), Sample(t, At(t).level, OfPod(cgroup, "", At(t), 0)))
    <2> DEFINE src == OfPod(cgroup, "", At(t), 0)
               own == PodLabels(At(t).uid, container)
               value == At(t).level
    <2>1. SpeaksOf(CAdvisorRow(t, "gauge", own, value, src), container)
      BY OwnRowsSpeak
    <2>2. GaugeRow(t, own, value, cgroup) = CAdvisorRow(t, "gauge", own, value, src)
      BY DEF GaugeRow
    <2> HIDE DEF src, own, value
    <2>3. PodRowKept(store, t, container, "gauge", own, value, src)
      BY <1>1, <2>1, PodRowIngested
    <2> QED
      BY <2>2, <2>3 DEF PodRowKept, src, own, value
  <1>2. PodStream(At(t).uid, "c", "gauge") = GaugeStream(At(t).uid)
    BY DEF PodStream, GaugeStream
  <1>3. PodStream(At(t).uid, "", "gauge") = SliceStream(At(t).uid)
    BY DEF PodStream, SliceStream
  <1>4. IngestRow(store, GaugeRow(t, PodLabels(At(t).uid, "c"), At(t).level, "container")) = WithGauge(store, t)
    BY <1>1, <1>2 DEF WithGauge, GaugeSample
  <1>5. IngestRow(store, GaugeRow(t, PodLabels(At(t).uid, ""), At(t).level, "slice")) = WithSlice(store, t)
    BY <1>1, <1>3 DEF WithSlice, SliceSample
  <1> QED
    BY <1>4, <1>5

LEMMA OtherRowsAreDropped ==
    ASSUME NEW store, NEW t \in Recent
    PROVE  /\ IngestRow(store, GaugeRow(t, SandboxLabels(At(t).uid), 0, "sandbox")) = store
           /\ IngestRow(store, GaugeRow(t, [id |-> "system.slice"], 0, "system")) = store
  <1>1. \A labels, value, cgroup : LET r == GaugeRow(t, labels, value, cgroup) IN
          r.family = "cadvisor" /\ r.class = "other" /\ r.labels = labels /\ r.event = {t}
    BY DEF Row, CAdvisorRow, GaugeRow
  <1>2. IngestRow(store, GaugeRow(t, SandboxLabels(At(t).uid), 0, "sandbox")) = store
    <2> DEFINE r == GaugeRow(t, SandboxLabels(At(t).uid), 0, "sandbox")
    <2>1. r.family = "cadvisor" /\ r.class = "other" /\ r.labels = SandboxLabels(At(t).uid) /\ r.event = {t}
      BY <1>1
    <2> HIDE DEF r
    <2>2. IngestRow(store, r) = store
      BY <2>1, SandboxRowIsDropped
    <2> QED
      BY <2>2 DEF r
  <1>3. IngestRow(store, GaugeRow(t, [id |-> "system.slice"], 0, "system")) = store
    <2> DEFINE labels == [id |-> "system.slice"]
               r == GaugeRow(t, labels, 0, "system")
    <2> HIDE DEF labels
    <2>1. r.family = "cadvisor" /\ r.class = "other" /\ r.labels = labels /\ r.event = {t}
      BY <1>1
    <2> HIDE DEF r
    <2>2. r.labels = [id |-> "system.slice"]
      BY <2>1 DEF labels
    <2>3. IngestRow(store, r) = store
      BY <2>1, <2>2, SystemRowIsDropped
    <2> QED
      BY <2>3 DEF r, labels
  <1> QED
    BY <1>2, <1>3

LEMMA MachineRowIngested ==
    ASSUME NEW store, instant \in Recent
    PROVE  IngestRow(store, NodeRow("cadvisor", "machine", "machine_cpu_cores", <<>>, 1, "machine")) = WithMachine(store)
  <1>1. IngestRow(store, NodeRow("cadvisor", "machine", "machine_cpu_cores", <<>>, 1, "machine")) =
          Put(store, Stream("Node", <<0>>, "machine_cpu_cores", <<>>), Sample(instant, 1, OfNodes("machine")))
    BY NodeRowIngested
  <1> QED
    BY <1>1 DEF WithMachine, MachineStream, NodeSample

LEMMA CAdvisorIngested ==
    ASSUME NEW store, NEW t \in Recent, instant \in Recent
    PROVE  /\ FoldLeft(IngestRow, store, CAdvisorRows(t, TRUE)) =
                WithMachine(WithSlice(WithGauge(WithFailures(WithCounters(store, t), t), t), t))
           /\ FoldLeft(IngestRow, store, CAdvisorRows(t, FALSE)) = WithMachine(WithFailures(WithCounters(store, t), t))
  <1> DEFINE row(i, finite) == CAdvisorRows(t, finite)[i]
  <1>1. \A st, finite : IngestRow(IngestRow(st, row(1, finite)), row(2, finite)) = WithCounters(st, t)
    BY CAdvisorRowsAre, CounterRowIngested DEF WithCounters
  <1>2. \A st, finite : IngestRow(IngestRow(st, row(3, finite)), row(4, finite)) = WithFailures(st, t)
    BY CAdvisorRowsAre, FailureRowIngested DEF WithFailures
  <1>3. ASSUME NEW st, NEW finite PROVE IngestRow(st, row(5, finite)) = st /\ IngestRow(st, row(8, finite)) = st
    <2> DEFINE sandbox == GaugeRow(t, SandboxLabels(At(t).uid), 0, "sandbox")
               system == GaugeRow(t, [id |-> "system.slice"], 0, "system")
    <2>1. IngestRow(st, sandbox) = st /\ IngestRow(st, system) = st
      BY OtherRowsAreDropped
    <2>2. row(5, finite) = sandbox /\ row(8, finite) = system
      BY CAdvisorRowsAre
    <2> HIDE DEF sandbox, system
    <2> QED
      BY <2>1, <2>2
  <1>4. \A st : IngestRow(IngestRow(st, row(6, TRUE)), row(7, TRUE)) = WithSlice(WithGauge(st, t), t)
    BY CAdvisorRowsAre, GaugeRowIngested
  <1>5. \A st : IngestRow(st, row(6, FALSE)) = st /\ IngestRow(st, row(7, FALSE)) = st
    BY CAdvisorRowsAre DEF IngestRow
  <1>6. \A st, finite : IngestRow(st, row(9, finite)) = WithMachine(st)
    BY CAdvisorRowsAre, MachineRowIngested
  <1>7. ASSUME NEW finite
        PROVE  FoldLeft(IngestRow, store, CAdvisorRows(t, finite)) =
                 IngestRow(IngestRow(IngestRow(IngestRow(IngestRow(IngestRow(IngestRow(IngestRow(IngestRow(store,
                   row(1, finite)), row(2, finite)), row(3, finite)), row(4, finite)), row(5, finite)),
                   row(6, finite)), row(7, finite)), row(8, finite)), row(9, finite))
    <2> DEFINE p == CAdvisorRows(t, finite)
    <2>1. DOMAIN p = 1..9
      BY CAdvisorRowsAre
    <2> HIDE DEF p
    <2>2. PICK h : /\ h[0] = store
                   /\ \A i \in 1..9 : h[i] = IngestRow(h[i - 1], p[i])
                   /\ FoldLeft(IngestRow, store, p) = h[9]
      <3>1. RowByRow(store, p, 9)
        BY <2>1, RowsOneByOne
      <3> QED
        BY <3>1 DEF RowByRow
    <2>3. /\ h[1] = IngestRow(h[0], p[1]) /\ h[2] = IngestRow(h[1], p[2]) /\ h[3] = IngestRow(h[2], p[3])
          /\ h[4] = IngestRow(h[3], p[4]) /\ h[5] = IngestRow(h[4], p[5]) /\ h[6] = IngestRow(h[5], p[6])
          /\ h[7] = IngestRow(h[6], p[7]) /\ h[8] = IngestRow(h[7], p[8]) /\ h[9] = IngestRow(h[8], p[9])
      BY <2>2
    <2> QED
      BY <2>2, <2>3 DEF p
  <1> HIDE DEF row
  <1> DEFINE base == WithFailures(WithCounters(store, t), t)
  <1>8. \A finite : IngestRow(IngestRow(IngestRow(IngestRow(IngestRow(store,
          row(1, finite)), row(2, finite)), row(3, finite)), row(4, finite)), row(5, finite)) = base
    BY <1>1, <1>2, <1>3
  <1> HIDE DEF base
  <1>9. FoldLeft(IngestRow, store, CAdvisorRows(t, TRUE)) = WithMachine(WithSlice(WithGauge(base, t), t))
    <2>1. FoldLeft(IngestRow, store, CAdvisorRows(t, TRUE)) =
            IngestRow(IngestRow(IngestRow(IngestRow(base, row(6, TRUE)), row(7, TRUE)), row(8, TRUE)), row(9, TRUE))
      BY <1>7, <1>8
    <2>2. IngestRow(IngestRow(base, row(6, TRUE)), row(7, TRUE)) = WithSlice(WithGauge(base, t), t)
      BY <1>4
    <2> QED
      BY <1>3, <1>6, <2>1, <2>2
  <1>10. FoldLeft(IngestRow, store, CAdvisorRows(t, FALSE)) = WithMachine(base)
    <2>1. FoldLeft(IngestRow, store, CAdvisorRows(t, FALSE)) =
            IngestRow(IngestRow(IngestRow(IngestRow(base, row(6, FALSE)), row(7, FALSE)), row(8, FALSE)), row(9, FALSE))
      BY <1>7, <1>8
    <2>2. IngestRow(IngestRow(base, row(6, FALSE)), row(7, FALSE)) = base
      BY <1>5
    <2> QED
      BY <1>3, <1>6, <2>1, <2>2
  <1> QED
    BY <1>9, <1>10 DEF base

LEMMA NodeIngested ==
    ASSUME NEW store, instant \in Recent
    PROVE  FoldLeft(IngestRow, store, NodeRows) = WithDevices(store)
  <1> DEFINE row(device, value) == NodeRow("node-exporter", "other", "fs_avail", [device |-> device], value, device)
  <1>0. ASSUME NEW st, NEW device, NEW value
        PROVE  IngestRow(st, row(device, value)) = Put(st, DeviceStream(device), NodeSample(value, device))
    <2> DEFINE labels == [device |-> device]
    <2> HIDE DEF labels
    <2>1. IngestRow(st, NodeRow("node-exporter", "other", "fs_avail", labels, value, device)) =
            Put(st, Stream("Node", <<0>>, "fs_avail", labels), Sample(instant, value, OfNodes(device)))
      BY NodeRowIngested
    <2> QED
      BY <2>1 DEF labels, DeviceStream, NodeSample
  <1>1. \A st : IngestRow(st, NodeRows[1]) = Put(st, DeviceStream("sda"), NodeSample(1, "sda"))
    BY <1>0, NodeRowsAre
  <1>2. \A st : IngestRow(st, NodeRows[2]) = Put(st, DeviceStream("sdb"), NodeSample(2, "sdb"))
    BY <1>0, NodeRowsAre
  <1>3. PICK h : /\ h[0] = store
                 /\ \A i \in 1..2 : h[i] = IngestRow(h[i - 1], NodeRows[i])
                 /\ FoldLeft(IngestRow, store, NodeRows) = h[2]
    <2>1. RowByRow(store, NodeRows, 2)
      BY NodeRowsAre, RowsOneByOne
    <2> QED
      BY <2>1 DEF RowByRow
  <1>4. h[1] = IngestRow(h[0], NodeRows[1]) /\ h[2] = IngestRow(h[1], NodeRows[2])
    BY <1>3
  <1> QED
    BY <1>1, <1>2, <1>3, <1>4 DEF WithDevices

LEMMA NoRowsIngested ==
    ASSUME NEW store
    PROVE  FoldLeft(IngestRow, store, <<>>) = store
  <1>1. DOMAIN <<>> = 1..0
    OBVIOUS
  <1>2. PICK h : h[0] = store /\ FoldLeft(IngestRow, store, <<>>) = h[0]
    <2>1. RowByRow(store, <<>>, 0)
      BY <1>1, RowsOneByOne
    <2> QED
      BY <2>1 DEF RowByRow
  <1> QED
    BY <1>2

\* What each of the cycles keeps.
LEMMA CyclesKeep ==
    ASSUME instant \in Recent
    PROVE  /\ ScrapeAll => \E t \in Recent : rings' = WithDevices(WithMachine(WithSlice(WithGauge(WithFailures(WithCounters(rings, t), t), t), t)))
           /\ ScrapeSpoilt => rings' = WithDevices(WithMachine(WithFailures(WithCounters(rings, instant), instant)))
           /\ ScrapePartial => rings' = WithDevices(rings)
  <1>1. ASSUME NEW p, NEW q
        PROVE  PayloadFold(rings, <<p, q>>) = FoldLeft(IngestRow, FoldLeft(IngestRow, rings, p), q)
    <2>1. DOMAIN <<p, q>> = 1..2 /\ <<p, q>>[1] = p /\ <<p, q>>[2] = q
      OBVIOUS
    <2>2. PICK h : /\ h[0] = rings
                   /\ \A i \in 1..2 : h[i] = FoldLeft(IngestRow, h[i - 1], <<p, q>>[i])
                   /\ PayloadFold(rings, <<p, q>>) = h[2]
      <3>1. PayloadByPayload(rings, <<p, q>>, 2)
        BY <2>1, PayloadsOneByOne
      <3> QED
        BY <3>1 DEF PayloadByPayload
    <2>3. h[1] = FoldLeft(IngestRow, h[0], p) /\ h[2] = FoldLeft(IngestRow, h[1], q)
      BY <2>1, <2>2
    <2> QED
      BY <2>2, <2>3
  <1>2. \A p, q : Cycle(<<p, q>>) => rings' = FoldLeft(IngestRow, FoldLeft(IngestRow, rings, p), q)
    BY <1>1 DEF Cycle, IngestPayloads, PayloadFold
  <1>3. ScrapeAll => \E t \in Recent : rings' = WithDevices(WithMachine(WithSlice(WithGauge(WithFailures(WithCounters(rings, t), t), t), t)))
    <2> HAVE ScrapeAll
    <2>1. PICK lag \in Lags : instant - lag \in Recent /\ Cycle(<<CAdvisorRows(instant - lag, TRUE), NodeRows>>)
      BY DEF ScrapeAll
    <2>2. rings' = FoldLeft(IngestRow, FoldLeft(IngestRow, rings, CAdvisorRows(instant - lag, TRUE)), NodeRows)
      BY <1>2, <2>1
    <2> DEFINE t == instant - lag
    <2>3. t \in Recent
      BY <2>1
    <2> HIDE DEF t
    <2>4. FoldLeft(IngestRow, rings, CAdvisorRows(t, TRUE)) = WithMachine(WithSlice(WithGauge(WithFailures(WithCounters(rings, t), t), t), t))
      BY <2>3, CAdvisorIngested
    <2>5. rings' = WithDevices(WithMachine(WithSlice(WithGauge(WithFailures(WithCounters(rings, t), t), t), t)))
      BY <2>2, <2>4, NodeIngested DEF t
    <2> QED
      BY <2>3, <2>5
  <1>4. ScrapeSpoilt => rings' = WithDevices(WithMachine(WithFailures(WithCounters(rings, instant), instant)))
    BY <1>2, CAdvisorIngested, NodeIngested DEF ScrapeSpoilt
  <1>5. ScrapePartial => rings' = WithDevices(rings)
    BY <1>2, NoRowsIngested, NodeIngested DEF ScrapePartial
  <1> QED
    BY <1>3, <1>4, <1>5

-----------------------------------------------------------------------------
\* What is known of the pod and of the readings kept. A reading belongs to its
\* stream, and where the stream has one reading a cycle at most it came no later
\* than the cycles that pushed it along allow.
Pods == [uid : Nat, count : [Counter -> Nat], total : [Counter -> Nat], restarts : Nat, level : Nat]
Sole == ""
Series == {Sole, "pgfault", "pgmajfault", "machine", "sda", "sdb"}
PodSources == [cgroup : {"container", "slice"}, series : Series, uid : Nat, total : Nat, restarts : Nat]
NodeSources == [cgroup : {"node"}, series : Series]
Samples == [at : Nat, value : Nat, src : PodSources \cup NodeSources]

CgroupOf(id) ==
    IF id.cei.kind = "Node" THEN "node" ELSE IF id.cei.kind = "Pod" THEN "slice" ELSE "container"

SeriesOf(id) ==
    IF id.metric = "machine_cpu_cores" THEN "machine" ELSE IF id.metric = "fs_avail" THEN id.sub.device ELSE Sole

BelongsTo(s, id) ==
    /\ s.src.cgroup = CgroupOf(id)
    /\ id.cei \in Owner(s.src)
    /\ id.metric \notin Labelled => s.src.series = SeriesOf(id)
    /\ id.metric \in Counter => s.src \in PodSources /\ id = CounterStream(id.metric, s.src.uid)

Dated(ring, slack) == \A i \in 1..Len(ring) : ring[i].at <= instant - (Len(ring) - i) - slack

RingOK(ring, id, slack) ==
    /\ ring \in Seq(Samples) /\ ring # <<>>
    /\ \A i \in 1..Len(ring) : BelongsTo(ring[i], id) /\ ring[i].at <= instant
    /\ id.metric \notin Labelled => Dated(ring, slack)

\* served: the streams that had their reading of this cycle.
StoreOK(store, served) == \A id \in DOMAIN store : RingOK(store[id], id, IF id \in served THEN 0 ELSE 1)

PastOK ==
    /\ instant \in Nat
    /\ past \in Seq(Pods) /\ Len(past) \in 1..(instant + 1)

\* r is the ring with a reading more, its first gone when it was full.
Evicted(ring) == IF Len(ring) = HotCapacity THEN 1 ELSE 0

IsPushed(r, ring, sample, S) ==
    /\ r \in Seq(S) /\ r # <<>>
    /\ Len(r) = Len(ring) + 1 - Evicted(ring)
    /\ \A i \in 1..(Len(r) - 1) : r[i] = ring[i + Evicted(ring)] /\ i + Evicted(ring) \in 1..Len(ring)
    /\ r[Len(r)] = sample

LEMMA PushedRing ==
    ASSUME NEW S, NEW ring \in Seq(S), NEW sample \in S
    PROVE  IsPushed(Pushed(ring, sample), ring, sample, S)
  <1>1. HotCapacity \in Nat \ {0}
    BY ObserveAssumption DEF ObserveAssumption
  <1>2. CASE Len(ring) = HotCapacity
    <2> DEFINE q == Tail(ring)
    <2>1. q \in Seq(S) /\ Len(q) = Len(ring) - 1 /\ \A i \in 1..Len(q) : q[i] = ring[i + 1]
      <3>1. ring # <<>>
        BY <1>1, <1>2
      <3> QED
        BY <3>1, HeadTailProperties
    <2> HIDE DEF q
    <2>2. /\ Append(q, sample) \in Seq(S) /\ Append(q, sample) # <<>> /\ Len(Append(q, sample)) = Len(q) + 1
          /\ \A i \in 1..Len(q) : Append(q, sample)[i] = q[i]
          /\ Append(q, sample)[Len(q) + 1] = sample
      BY <2>1, AppendProperties
    <2>3. Pushed(ring, sample) = Append(q, sample)
      BY <1>2 DEF Pushed, q
    <2>4. Len(ring) \in Nat
      OBVIOUS
    <2> QED
      BY <1>2, <2>1, <2>2, <2>3, <2>4 DEF IsPushed, Evicted
  <1>3. CASE Len(ring) # HotCapacity
    <2>2. /\ Append(ring, sample) \in Seq(S) /\ Append(ring, sample) # <<>> /\ Len(Append(ring, sample)) = Len(ring) + 1
          /\ \A i \in 1..Len(ring) : Append(ring, sample)[i] = ring[i]
          /\ Append(ring, sample)[Len(ring) + 1] = sample
      BY AppendProperties
    <2>3. Pushed(ring, sample) = Append(ring, sample)
      BY <1>3 DEF Pushed
    <2>4. Len(ring) \in Nat
      OBVIOUS
    <2> QED
      BY <1>3, <2>2, <2>3, <2>4 DEF IsPushed, Evicted
  <1> QED
    BY <1>2, <1>3

LEMMA SampleTyped ==
    \A s \in Samples : s.at \in Nat /\ s.value \in Nat
  BY DEF Samples

LEMMA RingTyped ==
    ASSUME NEW ring \in Seq(Samples)
    PROVE  /\ Len(ring) \in Nat
           /\ \A i \in 1..Len(ring) : ring[i] \in Samples /\ ring[i].at \in Nat /\ ring[i].value \in Nat
  BY ElementOfSeq, SampleTyped

LEMMA PutKeeps ==
    ASSUME NEW store, NEW served, StoreOK(store, served), instant \in Nat,
           NEW id, id \notin served \/ id.metric \in Labelled,
           NEW s \in Samples, BelongsTo(s, id), s.at <= instant
    PROVE  StoreOK(Put(store, id, s), served \cup {id})
  <1> DEFINE st == Put(store, id, s)
  <1>1. DOMAIN st = DOMAIN store \cup {id} /\ st[id] = Pushed(RingOf(store, id), s)
        /\ \A j \in DOMAIN store : j # id => st[j] = store[j]
    BY DEF Put
  <1> HIDE DEF st
  <1>2. ASSUME NEW j \in DOMAIN store, j # id
        PROVE  RingOK(st[j], j, IF j \in served \cup {id} THEN 0 ELSE 1)
    BY <1>1, <1>2 DEF StoreOK
  <1>3. RingOK(st[id], id, 0)
    <2> DEFINE ring == RingOf(store, id)
               r == Pushed(ring, s)
    <2>1. /\ ring \in Seq(Samples)
          /\ \A i \in 1..Len(ring) : BelongsTo(ring[i], id) /\ ring[i].at <= instant
          /\ id.metric \notin Labelled => Dated(ring, 1)
      <3>1. CASE id \in DOMAIN store
        BY <3>1 DEF StoreOK, RingOK, RingOf
      <3>2. CASE id \notin DOMAIN store
        BY <3>2 DEF RingOf, Dated
      <3> QED
        BY <3>1, <3>2
    <2> HIDE DEF ring
    <2> DEFINE d == Evicted(ring)
    <2>2. /\ r \in Seq(Samples) /\ r # <<>>
          /\ Len(r) = Len(ring) + 1 - d
          /\ \A i \in 1..(Len(r) - 1) : r[i] = ring[i + d] /\ i + d \in 1..Len(ring)
          /\ r[Len(r)] = s
      <3>1. IsPushed(r, ring, s, Samples)
        BY <2>1, PushedRing
      <3> HIDE DEF r
      <3> QED
        BY <3>1 DEF IsPushed
    <2>3. d \in 0..1 /\ Len(ring) \in Nat /\ s.at \in Nat
      BY <2>1, SampleTyped DEF Evicted
    <2>4. \A i \in 1..Len(ring) : ring[i].at \in Nat
      BY <2>1, RingTyped
    <2> HIDE DEF d, r
    <2>0. Len(r) \in Nat /\ \A i \in 1..Len(r) : i = Len(r) \/ i \in 1..(Len(r) - 1)
      BY <2>2, <2>3
    <2>5. \A i \in 1..Len(r) : BelongsTo(r[i], id) /\ r[i].at <= instant
      BY <2>0, <2>1, <2>2
    <2>6. ASSUME id.metric \notin Labelled, NEW i \in 1..Len(r)
          PROVE  r[i].at <= instant - (Len(r) - i) - 0
      <3>1. CASE i = Len(r)
        BY <2>0, <2>2, <2>3, <3>1
      <3>2. CASE i # Len(r)
        <4>2. r[i] = ring[i + d] /\ i + d \in 1..Len(ring)
          BY <2>0, <2>2, <3>2
        <4>3. r[i].at <= instant - (Len(ring) - (i + d)) - 1 /\ r[i].at \in Nat
          BY <2>1, <2>4, <2>6, <4>2 DEF Dated
        <4> QED
          BY <2>0, <2>2, <2>3, <4>3
      <3> QED
        BY <3>1, <3>2
    <2> QED
      BY <1>1, <2>2, <2>5, <2>6 DEF RingOK, Dated, r, ring
  <1> QED
    BY <1>1, <1>2, <1>3 DEF StoreOK, st

LEMMA ServedWeakens ==
    ASSUME NEW store, NEW served, NEW more, instant \in Nat, StoreOK(store, served), served \subseteq more
    PROVE  StoreOK(store, more)
  <1> SUFFICES ASSUME NEW id \in DOMAIN store
               PROVE  RingOK(store[id], id, IF id \in more THEN 0 ELSE 1)
    BY DEF StoreOK
  <1> DEFINE ring == store[id]
  <1>1. RingOK(ring, id, IF id \in served THEN 0 ELSE 1)
    BY DEF StoreOK
  <1> HIDE DEF ring
  <1>2. ring \in Seq(Samples) /\ Len(ring) \in Nat /\ \A i \in 1..Len(ring) : ring[i].at \in Nat
    BY <1>1, RingTyped DEF RingOK
  <1>3. id.metric \notin Labelled => Dated(ring, 0)
    <2> DEFINE slack == IF id \in served THEN 0 ELSE 1
    <2>1. slack \in 0..1 /\ RingOK(ring, id, slack)
      BY <1>1
    <2> HIDE DEF slack
    <2> QED
      BY <1>2, <2>1 DEF RingOK, Dated
  <1>4. id.metric \notin Labelled /\ id \notin served => Dated(ring, 1)
    BY <1>1 DEF RingOK
  <1> QED
    BY <1>1, <1>3, <1>4 DEF RingOK, ring

\* The instants whose pod is remembered.
LEMMA RecentPods ==
    ASSUME PastOK
    PROVE  /\ instant \in Recent /\ At(instant) = Present
           /\ \A t \in Recent : /\ t \in Nat /\ t <= instant
                               /\ At(t) \in Pods
                               /\ Len(past) - (instant - t) \in 1..Len(past)
  <1>1. past \in Seq(Pods) /\ Len(past) \in Nat /\ Len(past) >= 1 /\ Len(past) <= instant + 1 /\ instant \in Nat
    BY DEF PastOK
  <1>2. \A t \in Recent : t \in Nat /\ t <= instant /\ Len(past) - (instant - t) \in 1..Len(past)
    BY <1>1 DEF Recent
  <1>3. \A i \in 1..Len(past) : past[i] \in Pods
    BY <1>1, ElementOfSeq
  <1>4. \A t \in Recent : At(t) \in Pods
    BY <1>2, <1>3 DEF At
  <1>5. instant \in Recent /\ At(instant) = Present
    BY <1>1 DEF Recent, At, Present, Last
  <1> QED
    BY <1>2, <1>4, <1>5

\* What is kept of a pod is told of it truly.
LEMMA PodTyped ==
    ASSUME NEW pod \in Pods
    PROVE  /\ pod.uid \in Nat /\ pod.restarts \in Nat /\ pod.level \in Nat
           /\ \A m \in Counter : pod.count[m] \in Nat /\ pod.total[m] \in Nat
  BY DEF Pods

LEMMA SampleIs ==
    ASSUME NEW t \in Nat, NEW value \in Nat, NEW src \in PodSources \cup NodeSources
    PROVE  /\ Sample(t, value, src).at = t /\ Sample(t, value, src).value = value /\ Sample(t, value, src).src = src
           /\ Sample(t, value, src) \in Samples
  BY DEF Sample, Samples

LEMMA ContainerSource ==
    ASSUME NEW series \in Series, NEW pod \in Pods, NEW total \in Nat
    PROVE  LET src == OfPod("container", series, pod, total) IN
           /\ src \in PodSources /\ src.cgroup = "container" /\ src.series = series
           /\ src.uid = pod.uid /\ src.total = total /\ src.restarts = pod.restarts
           /\ Owner(src) = {[kind |-> "Container", uid |-> <<pod.uid, "c">>]}
  BY PodTyped DEF OfPod, PodSources, Owner

LEMMA SliceSource ==
    ASSUME NEW series \in Series, NEW pod \in Pods
    PROVE  LET src == OfPod("slice", series, pod, 0) IN
           /\ src \in PodSources /\ src.cgroup = "slice" /\ src.series = series
           /\ Owner(src) = {[kind |-> "Pod", uid |-> <<pod.uid>>]}
  BY PodTyped DEF OfPod, PodSources, Owner

LEMMA StreamsOfPod ==
    /\ \A m, uid : /\ CounterStream(m, uid).metric = m
                   /\ CounterStream(m, uid).cei = [kind |-> "Container", uid |-> <<uid, "c">>]
    /\ \A uid : /\ FailureStream(uid).metric = "failures"
                /\ FailureStream(uid).cei = [kind |-> "Container", uid |-> <<uid, "c">>]
                /\ GaugeStream(uid).metric = "gauge"
                /\ GaugeStream(uid).cei = [kind |-> "Container", uid |-> <<uid, "c">>]
                /\ SliceStream(uid).metric = "gauge"
                /\ SliceStream(uid).cei = [kind |-> "Pod", uid |-> <<uid>>]
  BY DEF CounterStream, FailureStream, GaugeStream, SliceStream, Stream

LEMMA StreamsOfNode ==
    /\ MachineStream.metric = "machine_cpu_cores" /\ MachineStream.cei = [kind |-> "Node", uid |-> <<0>>]
    /\ \A device : /\ DeviceStream(device).metric = "fs_avail" /\ DeviceStream(device).sub.device = device
                   /\ DeviceStream(device).cei = [kind |-> "Node", uid |-> <<0>>]
  BY DEF MachineStream, DeviceStream, Stream

LEMMA MetricsDiffer ==
    /\ "counter" \in Counter /\ "periods" \in Counter /\ \A m \in Counter : m = "counter" \/ m = "periods"
    /\ "failures" \in Labelled /\ "failures" \notin Counter
    /\ \A m \in {"gauge", "machine_cpu_cores", "fs_avail"} : m \notin Counter /\ m \notin Labelled
    /\ \A m \in Counter : m \notin Labelled /\ m # "machine_cpu_cores" /\ m # "fs_avail"
  BY DEF Counter, Labelled

LEMMA CounterSampleIs ==
    ASSUME PastOK, NEW t \in Recent, NEW m \in Counter
    PROVE  LET s == CounterSample(m, t) IN
           /\ s \in Samples /\ s.at = t /\ s.at <= instant /\ BelongsTo(s, CounterStream(m, At(t).uid))
           /\ s.src.restarts = At(t).restarts
  <1>1. t \in Nat /\ t <= instant /\ At(t) \in Pods
    BY RecentPods
  <1> DEFINE pod == At(t)
             src == OfPod("container", Sole, pod, pod.total[m])
             s == CounterSample(m, t)
             id == CounterStream(m, pod.uid)
  <1>2. pod.count[m] \in Nat /\ pod.total[m] \in Nat
    BY <1>1, PodTyped
  <1>3. /\ src \in PodSources /\ src.cgroup = "container" /\ src.series = Sole /\ src.restarts = pod.restarts
        /\ src.uid = pod.uid /\ Owner(src) = {[kind |-> "Container", uid |-> <<pod.uid, "c">>]}
    <2>1. Sole \in Series
      BY DEF Series
    <2> QED
      BY <1>1, <1>2, <2>1, ContainerSource
  <1>4. s = Sample(t, pod.count[m], src)
    BY DEF CounterSample, Sole
  <1> HIDE DEF src, s
  <1>5. s \in Samples /\ s.at = t /\ s.src = src
    BY <1>1, <1>2, <1>3, <1>4, SampleIs
  <1>6. id.metric = m /\ id.cei = [kind |-> "Container", uid |-> <<pod.uid, "c">>]
    BY StreamsOfPod
  <1>7. id = CounterStream(id.metric, s.src.uid)
    BY <1>3, <1>5, <1>6
  <1> HIDE DEF id
  <1>8. CgroupOf(id) = "container" /\ SeriesOf(id) = Sole
    BY <1>6 DEF CgroupOf, SeriesOf, Counter
  <1>9. BelongsTo(s, id)
    BY <1>3, <1>5, <1>6, <1>7, <1>8 DEF BelongsTo
  <1> QED
    BY <1>1, <1>3, <1>5, <1>9 DEF s, id

LEMMA FailureSampleIs ==
    ASSUME PastOK, NEW t \in Recent, NEW m \in Counter, NEW type \in Series
    PROVE  LET s == FailureSample(type, m, t) IN
           s \in Samples /\ s.at <= instant /\ BelongsTo(s, FailureStream(At(t).uid))
  <1>1. t \in Nat /\ t <= instant /\ At(t) \in Pods
    BY RecentPods
  <1> DEFINE pod == At(t)
             src == OfPod("container", type, pod, pod.count[m])
             s == FailureSample(type, m, t)
             id == FailureStream(pod.uid)
  <1>2. pod.count[m] \in Nat
    BY <1>1, PodTyped
  <1>3. /\ src \in PodSources /\ src.cgroup = "container"
        /\ Owner(src) = {[kind |-> "Container", uid |-> <<pod.uid, "c">>]}
    BY <1>1, <1>2, ContainerSource
  <1>4. s = Sample(t, pod.count[m], src)
    BY DEF FailureSample
  <1> HIDE DEF src, s
  <1>5. s \in Samples /\ s.at = t /\ s.src = src
    BY <1>1, <1>2, <1>3, <1>4, SampleIs
  <1>6. id.metric \in Labelled /\ id.metric \notin Counter /\ id.cei = [kind |-> "Container", uid |-> <<pod.uid, "c">>]
    BY StreamsOfPod, MetricsDiffer
  <1> HIDE DEF id
  <1>8. CgroupOf(id) = "container"
    BY <1>6 DEF CgroupOf
  <1>9. BelongsTo(s, id)
    BY <1>3, <1>5, <1>6, <1>8 DEF BelongsTo
  <1> QED
    BY <1>1, <1>5, <1>9 DEF s, id

LEMMA GaugeSampleIs ==
    ASSUME PastOK, NEW t \in Recent
    PROVE  /\ GaugeSample(t) \in Samples /\ GaugeSample(t).at <= instant /\ BelongsTo(GaugeSample(t), GaugeStream(At(t).uid))
           /\ SliceSample(t) \in Samples /\ SliceSample(t).at <= instant /\ BelongsTo(SliceSample(t), SliceStream(At(t).uid))
  <1>1. t \in Nat /\ t <= instant /\ At(t) \in Pods
    BY RecentPods
  <1> DEFINE pod == At(t)
             own(c) == OfPod(c, Sole, pod, 0)
             g == GaugeStream(pod.uid)
             l == SliceStream(pod.uid)
  <1>2. pod.level \in Nat
    BY <1>1, PodTyped
  <1>3. /\ own("container") \in PodSources /\ own("container").cgroup = "container" /\ own("container").series = Sole
        /\ Owner(own("container")) = {[kind |-> "Container", uid |-> <<pod.uid, "c">>]}
        /\ own("slice") \in PodSources /\ own("slice").cgroup = "slice" /\ own("slice").series = Sole
        /\ Owner(own("slice")) = {[kind |-> "Pod", uid |-> <<pod.uid>>]}
    <2>1. Sole \in Series /\ 0 \in Nat
      BY DEF Series
    <2> QED
      BY <1>1, <2>1, ContainerSource, SliceSource
  <1>4. GaugeSample(t) = Sample(t, pod.level, own("container")) /\ SliceSample(t) = Sample(t, pod.level, own("slice"))
    BY DEF GaugeSample, SliceSample, Sole
  <1> HIDE DEF own
  <1>5. /\ GaugeSample(t) \in Samples /\ GaugeSample(t).at = t /\ GaugeSample(t).src = own("container")
        /\ SliceSample(t) \in Samples /\ SliceSample(t).at = t /\ SliceSample(t).src = own("slice")
    BY <1>1, <1>2, <1>3, <1>4, SampleIs
  <1>6. /\ g.metric = "gauge" /\ g.cei = [kind |-> "Container", uid |-> <<pod.uid, "c">>]
        /\ l.metric = "gauge" /\ l.cei = [kind |-> "Pod", uid |-> <<pod.uid>>]
    BY StreamsOfPod
  <1> HIDE DEF g, l
  <1>7. CgroupOf(g) = "container" /\ SeriesOf(g) = Sole /\ CgroupOf(l) = "slice" /\ SeriesOf(l) = Sole
    BY <1>6 DEF CgroupOf, SeriesOf
  <1>8. g.metric \notin Counter /\ l.metric \notin Counter
    BY <1>6, MetricsDiffer
  <1>9. BelongsTo(GaugeSample(t), g) /\ BelongsTo(SliceSample(t), l)
    BY <1>3, <1>5, <1>6, <1>7, <1>8 DEF BelongsTo
  <1> QED
    BY <1>1, <1>5, <1>9 DEF g, l

LEMMA NodeSampleIs ==
    ASSUME instant \in Nat, NEW value \in Nat, NEW series \in Series, NEW id, id.cei = [kind |-> "Node", uid |-> << 0 >>],
           id.metric \notin Counter, SeriesOf(id) = series
    PROVE  LET s == NodeSample(value, series) IN s \in Samples /\ s.at = instant /\ BelongsTo(s, id)
  <1> DEFINE src == OfNodes(series)
             s == NodeSample(value, series)
  <1>1. src \in NodeSources /\ src.cgroup = "node" /\ src.series = series
    BY DEF OfNodes, NodeSources
  <1>2. s = Sample(instant, value, src)
    BY DEF NodeSample
  <1> HIDE DEF src, s
  <1>3. s \in Samples /\ s.at = instant /\ s.src = src
    BY <1>1, <1>2, SampleIs
  <1>4. Owner(src) = {[kind |-> "Node", uid |-> <<0>>]}
    BY <1>1 DEF Owner
  <1>5. CgroupOf(id) = "node"
    BY DEF CgroupOf
  <1> QED
    BY <1>1, <1>3, <1>4, <1>5 DEF BelongsTo, s

LEMMA NodeSamples ==
    ASSUME instant \in Nat
    PROVE  /\ NodeSample(1, "machine") \in Samples /\ NodeSample(1, "machine").at = instant
           /\ BelongsTo(NodeSample(1, "machine"), MachineStream)
           /\ NodeSample(1, "sda") \in Samples /\ NodeSample(1, "sda").at = instant
           /\ BelongsTo(NodeSample(1, "sda"), DeviceStream("sda"))
           /\ NodeSample(2, "sdb") \in Samples /\ NodeSample(2, "sdb").at = instant
           /\ BelongsTo(NodeSample(2, "sdb"), DeviceStream("sdb"))
  <1>1. /\ "machine" \in Series /\ "sda" \in Series /\ "sdb" \in Series
        /\ 1 \in Nat /\ 2 \in Nat
    BY DEF Series
  <1>2. SeriesOf(MachineStream) = "machine" /\ \A device : SeriesOf(DeviceStream(device)) = device
    BY StreamsOfNode DEF SeriesOf
  <1>3. MachineStream.metric \notin Counter /\ \A device : DeviceStream(device).metric \notin Counter
    BY StreamsOfNode, MetricsDiffer
  <1> QED
    BY <1>1, <1>2, <1>3, StreamsOfNode, NodeSampleIs

LEMMA StreamsDiffer ==
    \A uid :
      /\ CounterStream("counter", uid) # CounterStream("periods", uid)
      /\ \A m \in Counter :
           /\ CounterStream(m, uid) # GaugeStream(uid) /\ CounterStream(m, uid) # SliceStream(uid)
           /\ CounterStream(m, uid) # FailureStream(uid) /\ CounterStream(m, uid) # MachineStream
           /\ \A device : CounterStream(m, uid) # DeviceStream(device)
      /\ FailureStream(uid) # GaugeStream(uid) /\ FailureStream(uid) # SliceStream(uid)
      /\ FailureStream(uid) # MachineStream /\ \A device : FailureStream(uid) # DeviceStream(device)
      /\ GaugeStream(uid) # SliceStream(uid)
      /\ GaugeStream(uid) # MachineStream /\ SliceStream(uid) # MachineStream
      /\ \A device : /\ GaugeStream(uid) # DeviceStream(device) /\ SliceStream(uid) # DeviceStream(device)
                     /\ MachineStream # DeviceStream(device)
      /\ DeviceStream("sda") # DeviceStream("sdb")
  <1>1. \A uid : GaugeStream(uid).cei.kind = "Container" /\ SliceStream(uid).cei.kind = "Pod"
    BY DEF GaugeStream, SliceStream, Stream
  <1>2. DeviceStream("sda") # DeviceStream("sdb")
    BY StreamsOfNode
  <1>3. \A m \in Counter : m # "gauge" /\ m # "failures" /\ m # "machine_cpu_cores" /\ m # "fs_avail"
    BY DEF Counter
  <1>4. \A uid : CounterStream("counter", uid).metric = "counter" /\ CounterStream("periods", uid).metric = "periods"
    BY StreamsOfPod
  <1> QED
    BY <1>1, <1>2, <1>3, <1>4, StreamsOfPod, StreamsOfNode

-----------------------------------------------------------------------------
\* What is told of a counter of the pod, in the rings and at the instants that
\* may still be scraped, is one story for each incarnation: nothing unhappens,
\* the counter moves with what happens, and a restart only ever hides some of it.
Follows(p, q) ==
    p.src.uid = q.src.uid /\ p.at <= q.at =>
      /\ p.src.total <= q.src.total /\ p.src.restarts <= q.src.restarts
      /\ p.src.restarts = q.src.restarts => q.value - p.value = q.src.total - p.src.total
      /\ p.src.restarts < q.src.restarts => q.value <= q.src.total - p.src.total

Told(store, m) ==
    {CounterSample(m, t) : t \in Recent}
      \cup UNION {Range(store[id]) : id \in {j \in DOMAIN store : j.metric = m}}

OneStory(told) ==
    /\ \A p \in told : p \in Samples /\ p.src \in PodSources /\ p.at <= instant /\ p.src.uid <= Present.uid
    /\ \A p, q \in told : Follows(p, q)

\* The two counters of a container are read together: their rings go in step.
Parallel(a, b) ==
    /\ Len(a) = Len(b)
    /\ \A i \in 1..Len(a) : a[i].at = b[i].at /\ a[i].src.restarts = b[i].src.restarts

Paired(store) ==
    \A uid : Parallel(RingOf(store, CounterStream("counter", uid)), RingOf(store, CounterStream("periods", uid)))

LEMMA PutTells ==
    ASSUME NEW store, NEW served, StoreOK(store, served), NEW id, NEW s \in Samples, NEW m,
           id.metric = m => s \in Told(store, m)
    PROVE  Told(Put(store, id, s), m) \subseteq Told(store, m)
  <1> DEFINE st == Put(store, id, s)
             ring == RingOf(store, id)
  <1>1. DOMAIN st = DOMAIN store \cup {id} /\ st[id] = Pushed(ring, s)
        /\ \A j \in DOMAIN store : j # id => st[j] = store[j]
    BY DEF Put
  <1>2. ring \in Seq(Samples)
    BY DEF RingOf, StoreOK, RingOK
  <1>3. Range(ring) \subseteq UNION {Range(store[j]) : j \in {j \in DOMAIN store : j = id}}
    BY <1>2 DEF RingOf, Range
  <1> HIDE DEF st, ring
  <1>4. IsPushed(Pushed(ring, s), ring, s, Samples)
    BY <1>2, PushedRing
  <1>5. Range(st[id]) \subseteq Range(ring) \cup {s}
    <2> DEFINE r == st[id]
    <2>1. IsPushed(r, ring, s, Samples)
      BY <1>1, <1>4
    <2> HIDE DEF r
    <2>2. /\ DOMAIN r = 1..Len(r) /\ Len(r) \in Nat /\ DOMAIN ring = 1..Len(ring)
          /\ \A i \in 1..(Len(r) - 1) : r[i] = ring[i + Evicted(ring)] /\ i + Evicted(ring) \in 1..Len(ring)
          /\ r[Len(r)] = s
      BY <1>2, <2>1 DEF IsPushed
    <2>3. ASSUME NEW i \in DOMAIN r PROVE r[i] \in Range(ring) \cup {s}
      <3>1. i = Len(r) \/ i \in 1..(Len(r) - 1)
        BY <2>2
      <3> QED
        BY <2>2, <3>1 DEF Range
    <2> QED
      BY <2>3 DEF r, Range
  <1>6. ASSUME NEW j \in DOMAIN st, j.metric = m, NEW x \in Range(st[j])
        PROVE  x \in Told(store, m)
    <2>1. CASE j # id
      BY <1>1, <1>6, <2>1 DEF Told
    <2>2. CASE j = id
      <3>1. x \in Range(ring) \/ x = s
        BY <1>5, <1>6, <2>2
      <3>2. x \in Range(ring) => x \in Told(store, m)
        BY <1>3, <1>6, <2>2 DEF Told
      <3> QED
        BY <1>6, <2>2, <3>1, <3>2
    <2> QED
      BY <2>1, <2>2
  <1> QED
    BY <1>6 DEF Told, st

LEMMA PushedInStep ==
    ASSUME NEW a \in Seq(Samples), NEW b \in Seq(Samples), Parallel(a, b),
           NEW s \in Samples, NEW t \in Samples, s.at = t.at, s.src.restarts = t.src.restarts
    PROVE  Parallel(Pushed(a, s), Pushed(b, t))
  <1> DEFINE p == Pushed(a, s)
             q == Pushed(b, t)
             d == Evicted(a)
  <1>1. IsPushed(p, a, s, Samples) /\ IsPushed(q, b, t, Samples)
    BY PushedRing
  <1>2. Evicted(b) = d /\ Len(a) = Len(b) /\ Len(a) \in Nat /\ d \in 0..1
    BY DEF Parallel, Evicted
  <1> HIDE DEF p, q, d
  <1>3. /\ Len(p) = Len(a) + 1 - d /\ Len(q) = Len(p) /\ Len(p) \in Nat
        /\ \A i \in 1..(Len(p) - 1) : p[i] = a[i + d] /\ q[i] = b[i + d] /\ i + d \in 1..Len(a)
        /\ p[Len(p)] = s /\ q[Len(p)] = t
    BY <1>1, <1>2 DEF IsPushed, d
  <1>4. \A i \in 1..Len(p) : i = Len(p) \/ i \in 1..(Len(p) - 1)
    BY <1>3
  <1>5. \A i \in 1..Len(p) : p[i].at = q[i].at /\ p[i].src.restarts = q[i].src.restarts
    BY <1>3, <1>4 DEF Parallel
  <1> QED
    BY <1>3, <1>5 DEF Parallel, p, q

LEMMA RingAfterPut ==
    ASSUME NEW store, NEW id, NEW s, NEW j
    PROVE  /\ j # id => RingOf(Put(store, id, s), j) = RingOf(store, j)
           /\ RingOf(Put(store, id, s), id) = Pushed(RingOf(store, id), s)
  <1> DEFINE st == Put(store, id, s)
  <1>1. DOMAIN st = DOMAIN store \cup {id} /\ st[id] = Pushed(RingOf(store, id), s)
        /\ \A k \in DOMAIN store : k # id => st[k] = store[k]
    BY DEF Put
  <1> HIDE DEF st
  <1>2. RingOf(st, id) = Pushed(RingOf(store, id), s)
    <2> DEFINE r == Pushed(RingOf(store, id), s)
    <2>1. DOMAIN st = DOMAIN store \cup {id} /\ st[id] = r
      BY <1>1
    <2> HIDE DEF r
    <2>2. RingOf(st, id) = r
      BY <2>1 DEF RingOf
    <2> QED
      BY <2>2 DEF r
  <1>3. j # id => RingOf(st, j) = RingOf(store, j)
    BY <1>1 DEF RingOf
  <1> QED
    BY <1>2, <1>3 DEF st

\* A store in order, which tells no more than what was known.
Due(store, served) ==
    /\ StoreOK(store, served) /\ Paired(store)
    /\ \A m \in Counter : Told(store, m) \subseteq Told(rings, m)

\* A reading that is due is kept.
LEMMA PutDue ==
    ASSUME NEW store, NEW served, Due(store, served), instant \in Nat,
           NEW id, id \notin served \/ id.metric \in Labelled, id.metric \notin Counter,
           NEW s \in Samples, BelongsTo(s, id), s.at <= instant
    PROVE  Due(Put(store, id, s), served \cup {id})
  <1>1. StoreOK(store, served) /\ Paired(store)
    BY DEF Due
  <1>2. StoreOK(Put(store, id, s), served \cup {id})
    BY <1>1, PutKeeps
  <1>3. Paired(Put(store, id, s))
    <2>1. \A m \in Counter : \A uid : CounterStream(m, uid) # id
      BY StreamsOfPod
    <2>2. \A m \in Counter : \A uid : RingOf(Put(store, id, s), CounterStream(m, uid)) = RingOf(store, CounterStream(m, uid))
      BY <2>1, RingAfterPut
    <2> QED
      BY <1>1, <2>2, MetricsDiffer DEF Paired
  <1>4. ASSUME NEW m \in Counter PROVE Told(Put(store, id, s), m) \subseteq Told(rings, m)
    <2>1. Told(Put(store, id, s), m) \subseteq Told(store, m)
      BY <1>1, PutTells
    <2> QED
      BY <2>1 DEF Due
  <1> QED
    BY <1>2, <1>3, <1>4 DEF Due

LEMMA RingsAreSequences ==
    ASSUME NEW store, NEW served, StoreOK(store, served), NEW id
    PROVE  RingOf(store, id) \in Seq(Samples)
  BY DEF RingOf, StoreOK, RingOK

LEMMA CountersDue ==
    ASSUME NEW store, PastOK, Due(store, {}), NEW t \in Recent
    PROVE  Due(WithCounters(store, t), {CounterStream("counter", At(t).uid), CounterStream("periods", At(t).uid)})
  <1> DEFINE c == CounterStream("counter", At(t).uid)
             p == CounterStream("periods", At(t).uid)
             cs == CounterSample("counter", t)
             ps == CounterSample("periods", t)
             none == {}
             s1 == Put(store, c, cs)
             s2 == Put(s1, p, ps)
  <1>1. /\ cs \in Samples /\ cs.at = t /\ cs.at <= instant /\ BelongsTo(cs, c) /\ cs.src.restarts = At(t).restarts
        /\ ps \in Samples /\ ps.at = t /\ ps.at <= instant /\ BelongsTo(ps, p) /\ ps.src.restarts = At(t).restarts
    BY CounterSampleIs, MetricsDiffer
  <1>2. /\ c # p /\ c.metric = "counter" /\ p.metric = "periods"
        /\ \A m \in Counter : \A uid : uid # At(t).uid => CounterStream(m, uid) # c /\ CounterStream(m, uid) # p
    <2>1. \A m, n, u, v : u # v => CounterStream(m, u) # CounterStream(n, v)
      <3>1. \A m, u : CounterStream(m, u).cei.uid[1] = u
        BY DEF CounterStream, Stream
      <3> QED
        BY <3>1
    <2> QED
      BY <2>1, StreamsDiffer, StreamsOfPod
  <1>3. instant \in Nat /\ StoreOK(store, none) /\ Paired(store)
    BY DEF PastOK, Due
  <1>4. WithCounters(store, t) = s2
    BY DEF WithCounters, WithCounter
  <1>5. /\ \A st : cs \in Told(st, "counter") /\ ps \in Told(st, "periods")
    BY DEF Told
  <1>6. c \notin none /\ p \notin none \cup {c} /\ (none \cup {c}) \cup {p} = {c, p}
    BY <1>2
  <1>7. Parallel(RingOf(store, c), RingOf(store, p))
    BY <1>3 DEF Paired
  <1> HIDE DEF c, p, cs, ps, none
  <1>8. StoreOK(s1, none \cup {c})
    BY <1>1, <1>3, <1>6, PutKeeps
  <1>9. StoreOK(s2, {c, p})
    <2> HIDE DEF s1
    <2>1. StoreOK(Put(s1, p, ps), (none \cup {c}) \cup {p})
      BY <1>1, <1>3, <1>6, <1>8, PutKeeps
    <2> QED
      BY <1>6, <2>1
  <1>10. ASSUME NEW m \in Counter PROVE Told(s2, m) \subseteq Told(rings, m)
    <2>1. Told(s1, m) \subseteq Told(store, m)
      <3>1. c.metric = m => cs \in Told(store, m)
        BY <1>2, <1>5
      <3> QED
        BY <1>1, <1>3, <3>1, PutTells
    <2>2. Told(s2, m) \subseteq Told(s1, m)
      <3>1. p.metric = m => ps \in Told(s1, m)
        BY <1>2, <1>5
      <3> HIDE DEF s1
      <3> QED
        BY <1>1, <1>8, <3>1, PutTells
    <2>3. Told(store, m) \subseteq Told(rings, m)
      BY DEF Due
    <2> HIDE DEF s1, s2
    <2> QED
      BY <2>1, <2>2, <2>3
  <1>11. /\ RingOf(s2, c) = Pushed(RingOf(store, c), cs) /\ RingOf(s2, p) = Pushed(RingOf(store, p), ps)
         /\ \A j : j # c /\ j # p => RingOf(s2, j) = RingOf(store, j)
    <2>1. \A j : j # c => RingOf(s1, j) = RingOf(store, j)
      BY RingAfterPut
    <2>2. RingOf(s1, c) = Pushed(RingOf(store, c), cs)
      BY RingAfterPut
    <2> HIDE DEF s1
    <2>3. \A j : j # p => RingOf(s2, j) = RingOf(s1, j)
      BY RingAfterPut
    <2>4. RingOf(s2, p) = Pushed(RingOf(s1, p), ps)
      BY RingAfterPut
    <2> HIDE DEF s2
    <2> QED
      BY <1>2, <2>1, <2>2, <2>3, <2>4
  <1> HIDE DEF s1, s2
  <1>12. Paired(s2)
    <2>1. ASSUME NEW uid
          PROVE  Parallel(RingOf(s2, CounterStream("counter", uid)), RingOf(s2, CounterStream("periods", uid)))
      <3>1. CASE uid = At(t).uid
        <4>1. RingOf(store, c) \in Seq(Samples) /\ RingOf(store, p) \in Seq(Samples)
          BY <1>3, RingsAreSequences
        <4>2. Parallel(RingOf(s2, c), RingOf(s2, p))
          BY <1>1, <1>7, <1>11, <4>1, PushedInStep
        <4> QED
          BY <3>1, <4>2 DEF c, p
      <3>2. CASE uid # At(t).uid
        BY <1>2, <1>3, <1>11, <3>2, MetricsDiffer DEF Paired
      <3> QED
        BY <3>1, <3>2
    <2> QED
      BY <2>1 DEF Paired
  <1>13. Due(s2, {c, p})
    BY <1>9, <1>10, <1>12 DEF Due
  <1> QED
    BY <1>4, <1>13 DEF c, p

\* What a pod's cycle serves.
Counters(uid) == {CounterStream("counter", uid), CounterStream("periods", uid)}

LEMMA FailuresDue ==
    ASSUME NEW store, NEW served, PastOK, Due(store, served), NEW t \in Recent
    PROVE  Due(WithFailures(store, t), served \cup {FailureStream(At(t).uid)})
  <1> DEFINE f == FailureStream(At(t).uid)
             a == FailureSample("pgfault", "periods", t)
             b == FailureSample("pgmajfault", "counter", t)
             s1 == Put(store, f, a)
  <1>1. a \in Samples /\ a.at <= instant /\ BelongsTo(a, f) /\ b \in Samples /\ b.at <= instant /\ BelongsTo(b, f)
    <2>1. "pgfault" \in Series /\ "pgmajfault" \in Series
      BY DEF Series
    <2> QED
      BY <2>1, FailureSampleIs, MetricsDiffer
  <1>2. instant \in Nat /\ f.metric \in Labelled /\ f.metric \notin Counter
    BY StreamsOfPod, MetricsDiffer DEF PastOK
  <1>3. WithFailures(store, t) = Put(s1, f, b)
    BY DEF WithFailures, WithFailure
  <1>4. (served \cup {f}) \cup {f} = served \cup {f}
    OBVIOUS
  <1> HIDE DEF f, a, b
  <1>5. Due(s1, served \cup {f})
    BY <1>1, <1>2, PutDue
  <1> HIDE DEF s1
  <1>6. Due(Put(s1, f, b), (served \cup {f}) \cup {f})
    BY <1>1, <1>2, <1>5, PutDue
  <1> QED
    BY <1>3, <1>4, <1>6 DEF f

LEMMA GaugesDue ==
    ASSUME NEW store, NEW served, PastOK, Due(store, served), NEW t \in Recent,
           GaugeStream(At(t).uid) \notin served, SliceStream(At(t).uid) \notin served
    PROVE  Due(WithSlice(WithGauge(store, t), t), (served \cup {GaugeStream(At(t).uid)}) \cup {SliceStream(At(t).uid)})
  <1> DEFINE g == GaugeStream(At(t).uid)
             l == SliceStream(At(t).uid)
             gs == GaugeSample(t)
             ls == SliceSample(t)
  <1>1. /\ gs \in Samples /\ gs.at <= instant /\ BelongsTo(gs, g) /\ instant \in Nat
        /\ ls \in Samples /\ ls.at <= instant /\ BelongsTo(ls, l)
    BY GaugeSampleIs DEF PastOK
  <1>3. g \notin served /\ l \notin served \cup {g}
    BY StreamsDiffer
  <1>4. g.metric \notin Counter /\ l.metric \notin Counter
    BY StreamsOfPod, MetricsDiffer
  <1>5. WithGauge(store, t) = Put(store, g, gs) /\ \A st : WithSlice(st, t) = Put(st, l, ls)
    BY DEF WithGauge, WithSlice
  <1> HIDE DEF g, l, gs, ls
  <1>6. Due(Put(store, g, gs), served \cup {g})
    BY <1>1, <1>3, <1>4, PutDue
  <1>7. Due(Put(Put(store, g, gs), l, ls), (served \cup {g}) \cup {l})
    BY <1>1, <1>3, <1>4, <1>6, PutDue
  <1> QED
    BY <1>5, <1>7 DEF g, l

LEMMA MachineDue ==
    ASSUME NEW store, NEW served, PastOK, Due(store, served), MachineStream \notin served
    PROVE  Due(WithMachine(store), served \cup {MachineStream})
  <1> DEFINE s == NodeSample(1, "machine")
  <1>1. instant \in Nat
    BY DEF PastOK
  <1>2. s \in Samples /\ s.at = instant /\ BelongsTo(s, MachineStream)
    BY <1>1, NodeSamples
  <1>3. MachineStream.metric \notin Counter
    BY StreamsOfNode, MetricsDiffer
  <1> HIDE DEF s
  <1> QED
    BY <1>1, <1>2, <1>3, PutDue DEF WithMachine, s

LEMMA DevicesDue ==
    ASSUME NEW store, NEW served, PastOK, Due(store, served),
           DeviceStream("sda") \notin served, DeviceStream("sdb") \notin served
    PROVE  Due(WithDevices(store), (served \cup {DeviceStream("sda")}) \cup {DeviceStream("sdb")})
  <1> DEFINE a == DeviceStream("sda")
             b == DeviceStream("sdb")
             as == NodeSample(1, "sda")
             bs == NodeSample(2, "sdb")
  <1>1. instant \in Nat
    BY DEF PastOK
  <1>2. /\ as \in Samples /\ as.at <= instant /\ BelongsTo(as, a)
        /\ bs \in Samples /\ bs.at <= instant /\ BelongsTo(bs, b)
    BY <1>1, NodeSamples
  <1>4. /\ a.metric \notin Counter /\ b.metric \notin Counter
        /\ a \notin served /\ b \notin served \cup {a}
    BY StreamsDiffer, StreamsOfNode, MetricsDiffer
  <1>5. WithDevices(store) = Put(Put(store, a, as), b, bs)
    BY DEF WithDevices
  <1> HIDE DEF a, b, as, bs
  <1>6. Due(Put(store, a, as), served \cup {a})
    BY <1>1, <1>2, <1>4, PutDue
  <1>7. Due(Put(Put(store, a, as), b, bs), (served \cup {a}) \cup {b})
    BY <1>1, <1>2, <1>4, <1>6, PutDue
  <1> QED
    BY <1>5, <1>7 DEF a, b

LEMMA CountersAndFailuresDue ==
    ASSUME PastOK, Due(rings, {}), NEW t \in Recent
    PROVE  Due(WithFailures(WithCounters(rings, t), t), Counters(At(t).uid) \cup {FailureStream(At(t).uid)})
  <1> DEFINE s1 == WithCounters(rings, t)
             served == Counters(At(t).uid)
  <1>1. Due(s1, served)
    BY CountersDue DEF Counters
  <1> HIDE DEF s1, served
  <1>2. Due(WithFailures(s1, t), served \cup {FailureStream(At(t).uid)})
    BY <1>1, FailuresDue
  <1> QED
    BY <1>2 DEF s1, served

\* A cycle keeps what is due, and nothing else.
LEMMA CycleKeeps ==
    ASSUME PastOK, StoreOK(rings, {}), Paired(rings), ScrapeAll \/ ScrapeSpoilt \/ ScrapePartial
    PROVE  StoreOK(rings', DOMAIN rings') /\ Paired(rings') /\ \A m \in Counter : Told(rings', m) \subseteq Told(rings, m)
  <1>1. instant \in Recent /\ instant \in Nat
    BY RecentPods DEF PastOK
  <1> DEFINE none == {}
             a == DeviceStream("sda")
             b == DeviceStream("sdb")
             Some(uid) == Counters(uid) \cup {FailureStream(uid)}
             All(uid) == (Some(uid) \cup {GaugeStream(uid)}) \cup {SliceStream(uid)}
  <1>2. \A uid :
          /\ GaugeStream(uid) \notin Some(uid) /\ SliceStream(uid) \notin Some(uid)
          /\ MachineStream \notin All(uid) /\ MachineStream \notin Some(uid)
          /\ a \notin All(uid) \cup {MachineStream} /\ b \notin All(uid) \cup {MachineStream}
          /\ a \notin Some(uid) \cup {MachineStream} /\ b \notin Some(uid) \cup {MachineStream}
    BY StreamsDiffer, MetricsDiffer DEF Counters
  <1>3. a \notin none /\ b \notin none /\ Due(rings, none)
    BY DEF Due
  <1>8. \A t \in Recent : Due(WithFailures(WithCounters(rings, t), t), Some(At(t).uid))
    BY <1>3, CountersAndFailuresDue
  <1> HIDE DEF none, Some, All
  <1>4. ASSUME NEW store, NEW served, Due(store, served), a \notin served, b \notin served, rings' = WithDevices(store)
        PROVE  StoreOK(rings', DOMAIN rings') /\ Paired(rings') /\ \A m \in Counter : Told(rings', m) \subseteq Told(rings, m)
    <2> DEFINE all == (served \cup {a}) \cup {b}
    <2>1. Due(rings', all)
      BY <1>4, DevicesDue
    <2> HIDE DEF all
    <2>2. StoreOK(rings', all \cup DOMAIN rings')
      BY <1>1, <2>1, ServedWeakens DEF Due
    <2>3. StoreOK(rings', DOMAIN rings')
      BY <2>2 DEF StoreOK
    <2> QED
      BY <2>1, <2>3 DEF Due
  <1> HIDE DEF a, b
  <1>5. CASE ScrapeAll
    <2>1. PICK t \in Recent :
            rings' = WithDevices(WithMachine(WithSlice(WithGauge(WithFailures(WithCounters(rings, t), t), t), t)))
      BY <1>1, <1>5, CyclesKeep
    <2> DEFINE s1 == WithFailures(WithCounters(rings, t), t)
               s2 == WithSlice(WithGauge(s1, t), t)
               s3 == WithMachine(s2)
               all == All(At(t).uid)
    <2>2. Due(s1, Some(At(t).uid))
      BY <1>8
    <2> HIDE DEF s1
    <2>3. Due(s2, all)
      BY <1>2, <2>2, GaugesDue DEF All
    <2>4. MachineStream \notin all /\ a \notin all \cup {MachineStream} /\ b \notin all \cup {MachineStream}
      BY <1>2
    <2> HIDE DEF s2, all
    <2>5. Due(s3, all \cup {MachineStream})
      BY <2>3, <2>4, MachineDue
    <2>6. rings' = WithDevices(s3)
      BY <2>1 DEF s1, s2
    <2> HIDE DEF s3
    <2> QED
      BY <1>4, <2>4, <2>5, <2>6
  <1>6. CASE ScrapeSpoilt
    <2>1. rings' = WithDevices(WithMachine(WithFailures(WithCounters(rings, instant), instant)))
      BY <1>1, <1>6, CyclesKeep
    <2> DEFINE s1 == WithFailures(WithCounters(rings, instant), instant)
               s3 == WithMachine(s1)
               all == Some(At(instant).uid)
    <2>2. Due(s1, all)
      BY <1>1, <1>8
    <2>4. MachineStream \notin all /\ a \notin all \cup {MachineStream} /\ b \notin all \cup {MachineStream}
      BY <1>2
    <2> HIDE DEF s1, all
    <2>5. Due(s3, all \cup {MachineStream})
      BY <2>2, <2>4, MachineDue
    <2>6. rings' = WithDevices(s3)
      BY <2>1 DEF s1
    <2> HIDE DEF s3
    <2> QED
      BY <1>4, <2>4, <2>5, <2>6
  <1>7. CASE ScrapePartial
    <2>1. rings' = WithDevices(rings)
      BY <1>1, <1>7, CyclesKeep
    <2> QED
      BY <1>3, <1>4, <2>1
  <1> QED
    BY <1>5, <1>6, <1>7

-----------------------------------------------------------------------------
\* The invariant, and the life of the pod.
ObserveInv ==
    /\ PastOK
    /\ StoreOK(rings, IF scraped THEN DOMAIN rings ELSE {}) /\ Paired(rings)
    /\ \A m \in Counter : OneStory(Told(rings, m))

LEMMA PastGrows ==
    ASSUME PastOK, NEW pod \in Pods, Becomes(pod)
    PROVE  /\ PastOK'
           /\ Present' = pod
           /\ \A t \in Recent' : IF t = instant + 1 THEN At(t)' = pod ELSE t \in Recent /\ At(t)' = At(t)
  <1>1. /\ past \in Seq(Pods) /\ Len(past) \in Nat /\ Len(past) >= 1 /\ Len(past) <= instant + 1
        /\ instant \in Nat
    BY DEF PastOK
  <1> DEFINE gone == IF Len(past) > MaxLag THEN 1 ELSE 0
  <1>2. /\ Kept \in Seq(Pods) /\ Len(Kept) = Len(past) - gone
        /\ \A i \in 1..Len(Kept) : Kept[i] = past[i + gone]
    <2>1. CASE Len(past) > MaxLag
      <3>1. past # <<>>
        BY <1>1
      <3>2. Tail(past) \in Seq(Pods) /\ Len(Tail(past)) = Len(past) - 1 /\ \A i \in 1..Len(Tail(past)) : Tail(past)[i] = past[i + 1]
        BY <1>1, <3>1, HeadTailProperties
      <3> QED
        BY <2>1, <3>2 DEF Kept
    <2>2. CASE ~ (Len(past) > MaxLag)
      <3>1. \A i \in 1..Len(past) : past[i + 0] = past[i]
        BY <1>1
      <3> QED
        BY <1>1, <2>2, <3>1 DEF Kept
    <2> QED
      BY <2>1, <2>2
  <1>3. gone \in 0..1
    OBVIOUS
  <1> HIDE DEF gone
  <1>4. /\ past' \in Seq(Pods) /\ past' # <<>> /\ Len(past') = Len(Kept) + 1
        /\ \A i \in 1..Len(Kept) : past'[i] = Kept[i]
        /\ past'[Len(Kept) + 1] = pod
    <2>1. past' = Append(Kept, pod)
      BY DEF Becomes
    <2> QED
      BY <1>2, <2>1, AppendProperties
  <1>5. instant' = instant + 1
    BY DEF Becomes
  <1>6. Len(past') = Len(past) - gone + 1
    BY <1>1, <1>2, <1>3, <1>4
  <1>7. PastOK'
    <2>1. Len(past') \in 1..(instant' + 1)
      BY <1>1, <1>3, <1>5, <1>6
    <2>2. instant' \in Nat
      BY <1>1, <1>5
    <2> QED
      BY <1>4, <2>1, <2>2 DEF PastOK
  <1>8. Present' = pod
    BY <1>1, <1>2, <1>4 DEF Present, Last
  <1>9. ASSUME NEW t \in Recent'
        PROVE  IF t = instant + 1 THEN At(t)' = pod ELSE t \in Recent /\ At(t)' = At(t)
    <2>0. t \in (instant' - Len(past') + 1)..instant'
      BY DEF Recent
    <2>1. t \in Int /\ t >= instant + 1 - Len(past') + 1 /\ t <= instant + 1
      BY <1>1, <1>3, <1>5, <1>6, <2>0
    <2>2. At(t)' = past'[Len(past') - (instant + 1 - t)]
      <3>1. At(t)' = past'[Len(past') - (instant' - t)]
        BY DEF At
      <3>2. instant' - t = instant + 1 - t
        BY <1>1, <1>5, <2>1
      <3> QED
        BY <3>1, <3>2
    <2>3. CASE t = instant + 1
      <3>1. Len(past') - (instant + 1 - t) = Len(Kept) + 1
        BY <1>1, <1>2, <1>3, <1>4, <2>3
      <3> QED
        BY <1>4, <2>2, <2>3, <3>1
    <2>4. CASE t # instant + 1
      <3> DEFINE k == Len(past') - (instant + 1 - t)
      <3>0. t \in Int /\ gone \in Int /\ Len(past) \in Int /\ instant \in Int
            /\ Len(Kept) = Len(past) - gone /\ Len(past') = Len(past) - gone + 1
        BY <1>1, <1>2, <1>3, <1>6, <2>1
      <3>1. k \in 1..Len(Kept) /\ k + gone = Len(past) - (instant - t)
        BY <2>1, <2>4, <3>0
      <3>3. t \in Recent
        BY <1>3, <2>1, <2>4, <3>0 DEF Recent
      <3>2. At(t)' = past[k + gone]
        BY <1>2, <1>4, <2>2, <3>1
      <3> QED
        BY <2>4, <3>1, <3>2, <3>3 DEF At
    <2> QED
      BY <2>3, <2>4
  <1> QED
    BY <1>7, <1>8, <1>9

\* How the pod may go on from an instant to the next.
GoesOn(old, new) ==
    \/ /\ new.uid = old.uid
       /\ \A m \in Counter :
            \/ new.count[m] = old.count[m] /\ new.total[m] = old.total[m] /\ new.restarts = old.restarts
            \/ new.count[m] = old.count[m] + 1 /\ new.total[m] = old.total[m] + 1 /\ new.restarts = old.restarts
            \/ new.count[m] = 0 /\ new.total[m] = old.total[m] /\ new.restarts = old.restarts + 1
    \/ new.uid = old.uid + 1

ReadOf(m, t, pod) == Sample(t, pod.count[m], OfPod("container", Sole, pod, pod.total[m]))

LEMMA ReadingOfPod ==
    ASSUME NEW t \in Nat, NEW pod \in Pods, NEW m \in Counter
    PROVE  LET s == ReadOf(m, t, pod) IN
           /\ s \in Samples /\ s.src \in PodSources /\ s.at = t /\ s.value = pod.count[m]
           /\ s.src.uid = pod.uid /\ s.src.total = pod.total[m] /\ s.src.restarts = pod.restarts
  <1> DEFINE src == OfPod("container", Sole, pod, pod.total[m])
  <1>1. pod.count[m] \in Nat /\ pod.total[m] \in Nat /\ Sole \in Series
    BY PodTyped DEF Series
  <1>2. src \in PodSources /\ src.uid = pod.uid /\ src.total = pod.total[m] /\ src.restarts = pod.restarts
    BY <1>1, ContainerSource
  <1> HIDE DEF src
  <1>3. LET s == Sample(t, pod.count[m], src) IN s \in Samples /\ s.src = src /\ s.at = t /\ s.value = pod.count[m]
    BY <1>1, <1>2, SampleIs
  <1> QED
    BY <1>2, <1>3 DEF ReadOf, src

LEMMA CounterSampleRead ==
    \A m, t : CounterSample(m, t) = ReadOf(m, t, At(t))
  BY DEF CounterSample, ReadOf, Sole

\* The story goes on with the pod.
LEMMA FollowsOn ==
    ASSUME NEW p \in Samples, p.src \in PodSources,
           NEW q \in Samples, q.src \in PodSources,
           NEW n \in Samples, n.src \in PodSources,
           Follows(p, q), p.at <= q.at, q.at <= n.at, p.src.uid <= q.src.uid,
           \/ /\ n.src.uid = q.src.uid
              /\ \/ n.value = q.value /\ n.src.total = q.src.total /\ n.src.restarts = q.src.restarts
                 \/ n.value = q.value + 1 /\ n.src.total = q.src.total + 1 /\ n.src.restarts = q.src.restarts
                 \/ n.value = 0 /\ n.src.total = q.src.total /\ n.src.restarts = q.src.restarts + 1
           \/ n.src.uid = q.src.uid + 1
    PROVE  Follows(p, n)
  <1>1. \A s \in PodSources : s.uid \in Nat /\ s.total \in Nat /\ s.restarts \in Nat
    BY DEF PodSources
  <1>2. /\ p.at \in Nat /\ p.value \in Nat /\ p.src.uid \in Nat /\ p.src.total \in Nat /\ p.src.restarts \in Nat
        /\ q.at \in Nat /\ q.value \in Nat /\ q.src.uid \in Nat /\ q.src.total \in Nat /\ q.src.restarts \in Nat
        /\ n.at \in Nat /\ n.value \in Nat /\ n.src.uid \in Nat /\ n.src.total \in Nat /\ n.src.restarts \in Nat
    BY <1>1, SampleTyped
  <1>3. CASE n.src.uid = q.src.uid + 1
    <2>1. p.src.uid # n.src.uid
      BY <1>2, <1>3
    <2> QED
      BY <2>1 DEF Follows
  <1>4. CASE n.src.uid = q.src.uid /\ p.src.uid # q.src.uid
    BY <1>4 DEF Follows
  <1>5. CASE n.src.uid = q.src.uid /\ p.src.uid = q.src.uid
    <2>1. /\ p.src.total <= q.src.total /\ p.src.restarts <= q.src.restarts
          /\ p.src.restarts = q.src.restarts => q.value - p.value = q.src.total - p.src.total
          /\ p.src.restarts < q.src.restarts => q.value <= q.src.total - p.src.total
      BY <1>5 DEF Follows
    <2>2. \/ n.value = q.value /\ n.src.total = q.src.total /\ n.src.restarts = q.src.restarts
          \/ n.value = q.value + 1 /\ n.src.total = q.src.total + 1 /\ n.src.restarts = q.src.restarts
          \/ n.value = 0 /\ n.src.total = q.src.total /\ n.src.restarts = q.src.restarts + 1
      BY <1>2, <1>5
    <2>3. /\ p.src.total <= n.src.total /\ p.src.restarts <= n.src.restarts
          /\ p.src.restarts = n.src.restarts => n.value - p.value = n.src.total - p.src.total
          /\ p.src.restarts < n.src.restarts => n.value <= n.src.total - p.src.total
      BY <1>2, <2>1, <2>2
    <2> QED
      BY <2>3 DEF Follows
  <1> QED
    BY <1>3, <1>4, <1>5

LEMMA StoryGoesOn ==
    ASSUME PastOK, NEW m \in Counter, OneStory(Told(rings, m)), NEW pod \in Pods, Becomes(pod), GoesOn(Present, pod)
    PROVE  OneStory(Told(rings, m))'
  <1>1. instant \in Nat
    BY DEF PastOK
  <1>2. instant' = instant + 1 /\ rings' = rings
    BY DEF Becomes
  <1>3. /\ PastOK' /\ Present' = pod
        /\ \A t \in Recent' : IF t = instant + 1 THEN At(t)' = pod ELSE t \in Recent /\ At(t)' = At(t)
    BY <1>1, PastGrows
  <1> DEFINE n == ReadOf(m, instant + 1, pod)
             q == CounterSample(m, instant)
  <1>5. \A p \in Told(rings, m)' : p = n \/ p \in Told(rings, m)
    <2>1. ASSUME NEW t \in Recent' PROVE CounterSample(m, t)' = n \/ CounterSample(m, t)' \in Told(rings, m)
      <3>1. CounterSample(m, t)' = Sample(t, At(t)'.count[m], OfPod("container", "", At(t)', At(t)'.total[m]))
        BY DEF CounterSample
      <3>2. CASE t = instant + 1
        BY <1>3, <3>1, <3>2 DEF ReadOf, Sole
      <3>3. CASE t # instant + 1
        <4>1. t \in Recent /\ CounterSample(m, t)' = CounterSample(m, t)
          BY <1>3, <3>1, <3>3 DEF CounterSample
        <4> QED
          BY <4>1 DEF Told
      <3> QED
        BY <3>2, <3>3
    <2>2. UNION {Range(rings[id]) : id \in {j \in DOMAIN rings : j.metric = m}}' \subseteq Told(rings, m)
      BY <1>2 DEF Told
    <2> QED
      BY <2>1, <2>2 DEF Told
  <1>6. instant \in Recent /\ At(instant) = Present /\ Present \in Pods
    BY <1>1, RecentPods
  <1>7. q = ReadOf(m, instant, Present) /\ q \in Told(rings, m)
    BY <1>6, CounterSampleRead DEF Told
  <1>8. /\ q \in Samples /\ q.src \in PodSources /\ q.at = instant /\ q.value = Present.count[m]
        /\ q.src.uid = Present.uid /\ q.src.total = Present.total[m] /\ q.src.restarts = Present.restarts
    BY <1>1, <1>6, <1>7, ReadingOfPod
  <1>9. /\ n \in Samples /\ n.src \in PodSources /\ n.at = instant + 1 /\ n.value = pod.count[m]
        /\ n.src.uid = pod.uid /\ n.src.total = pod.total[m] /\ n.src.restarts = pod.restarts
    <2>1. instant + 1 \in Nat
      BY <1>1
    <2> QED
      BY <2>1, ReadingOfPod
  <1>10. Present.uid <= pod.uid /\ pod.uid \in Nat /\ Present.uid \in Nat
    BY <1>6, PodTyped DEF GoesOn
  <1> HIDE DEF n, q
  <1>11. \/ /\ n.src.uid = q.src.uid
            /\ \/ n.value = q.value /\ n.src.total = q.src.total /\ n.src.restarts = q.src.restarts
               \/ n.value = q.value + 1 /\ n.src.total = q.src.total + 1 /\ n.src.restarts = q.src.restarts
               \/ n.value = 0 /\ n.src.total = q.src.total /\ n.src.restarts = q.src.restarts + 1
         \/ n.src.uid = q.src.uid + 1
    BY <1>8, <1>9 DEF GoesOn
  <1>12. \A p \in Told(rings, m) : p \in Samples /\ p.src \in PodSources /\ p.at <= instant /\ p.src.uid <= Present.uid
    BY DEF OneStory
  <1>13. \A p \in Told(rings, m) : p.at \in Nat /\ p.src.uid \in Nat
    BY <1>12, SampleTyped DEF PodSources
  <1>14. ASSUME NEW p \in Told(rings, m) PROVE Follows(p, n) /\ Follows(n, p)
    <2>1. Follows(p, q)
      BY <1>7 DEF OneStory
    <2>2. p.at <= q.at /\ q.at <= n.at /\ p.src.uid <= q.src.uid /\ ~ (n.at <= p.at)
      BY <1>1, <1>8, <1>9, <1>12, <1>13
    <2>3. Follows(p, n)
      BY <1>8, <1>9, <1>11, <1>12, <2>1, <2>2, FollowsOn
    <2>4. Follows(n, p)
      BY <2>2 DEF Follows
    <2> QED
      BY <2>3, <2>4
  <1>15. Follows(n, n)
    <2>1. n.src.total \in Nat /\ n.src.restarts \in Nat /\ n.value \in Nat
      BY <1>9, SampleTyped DEF PodSources
    <2> QED
      BY <2>1 DEF Follows
  <1>16. \A p, r \in Told(rings, m)' : Follows(p, r)
    BY <1>5, <1>14, <1>15 DEF OneStory
  <1>17. \A p \in Told(rings, m)' : p \in Samples /\ p.src \in PodSources /\ p.at <= instant' /\ p.src.uid <= Present.uid'
    <2> TAKE p \in Told(rings, m)'
    <2>1. CASE p = n
      BY <1>1, <1>2, <1>3, <1>9, <1>10, <2>1
    <2>2. CASE p \in Told(rings, m)
      BY <1>1, <1>2, <1>3, <1>10, <1>12, <1>13, <2>2
    <2> QED
      BY <1>5, <2>1, <2>2
  <1> QED
    BY <1>16, <1>17 DEF OneStory

LEMMA BecomesStep ==
    ASSUME ObserveInv, NEW pod \in Pods, Becomes(pod), GoesOn(Present, pod)
    PROVE  ObserveInv'
  <1>1. PastOK /\ StoreOK(rings, DOMAIN rings) /\ Paired(rings) /\ instant \in Nat
    BY DEF ObserveInv, Becomes, PastOK
  <1>2. instant' = instant + 1 /\ rings' = rings /\ ~ scraped'
    BY DEF Becomes
  <1>3. PastOK'
    BY <1>1, PastGrows
  <1>4. StoreOK(rings, {})'
    <2> SUFFICES ASSUME NEW id \in DOMAIN rings
                 PROVE  RingOK(rings[id], id, 1)'
      BY <1>2 DEF StoreOK
    <2> DEFINE ring == rings[id]
    <2>1. RingOK(ring, id, 0)
      BY <1>1 DEF StoreOK
    <2>2. ring' = ring
      BY <1>2
    <2> HIDE DEF ring
    <2>3. ring \in Seq(Samples) /\ Len(ring) \in Nat /\ ring # <<>>
          /\ \A i \in 1..Len(ring) : ring[i].at \in Nat /\ BelongsTo(ring[i], id) /\ ring[i].at <= instant
      BY <2>1, RingTyped DEF RingOK
    <2>4. \A i \in 1..Len(ring) : ring[i].at <= instant'
      BY <1>1, <1>2, <2>3
    <2>5. ASSUME id.metric \notin Labelled, NEW i \in 1..Len(ring)
          PROVE  ring[i].at <= instant' - (Len(ring) - i) - 1
      <3>1. ring[i].at <= instant - (Len(ring) - i) - 0
        BY <2>1, <2>5 DEF RingOK, Dated
      <3> QED
        BY <1>1, <1>2, <2>3, <3>1
    <2> QED
      BY <2>2, <2>3, <2>4, <2>5 DEF RingOK, Dated, ring
  <1>5. ASSUME NEW m \in Counter PROVE OneStory(Told(rings, m))'
    BY <1>1, StoryGoesOn DEF ObserveInv
  <1>6. Paired(rings)'
    BY <1>1, <1>2 DEF Paired, RingOf, Parallel
  <1> QED
    BY <1>2, <1>3, <1>4, <1>5, <1>6 DEF ObserveInv

LEMMA ObserveInvInit == ObserveInit => ObserveInv
  <1> SUFFICES ASSUME ObserveInit PROVE ObserveInv
    OBVIOUS
  <1>1. PICK level \in Levels : past = <<Pod(1, Zero, Zero, 0, level)>>
    BY DEF ObserveInit
  <1> DEFINE pod == Pod(1, Zero, Zero, 0, level)
  <1>2. pod \in Pods /\ pod.uid = 1 /\ instant = 0
    <2>1. Zero \in [Counter -> Nat] /\ level \in Nat
      BY ObserveAssumption DEF Zero
    <2> QED
      BY <2>1 DEF ObserveInit, Pod, Pods
  <1> HIDE DEF pod
  <1>3. past = <<pod>>
    BY <1>1 DEF pod
  <1>4. past \in Seq(Pods) /\ past # <<>> /\ Len(past) = 1 /\ past[1] = pod
    BY <1>2, <1>3
  <1>5. PastOK
    BY <1>2, <1>4 DEF PastOK
  <1>6. Recent = {0} /\ At(0) = pod /\ Present = pod
    BY <1>2, <1>4 DEF Recent, At, Present, Last
  <1>7. rings = <<>> /\ DOMAIN rings = {} /\ ~ scraped
    BY DEF ObserveInit
  <1>8. StoreOK(rings, {}) /\ Paired(rings)
    BY <1>7 DEF StoreOK, Paired, RingOf, Parallel
  <1>9. ASSUME NEW m \in Counter PROVE OneStory(Told(rings, m))
    <2> DEFINE n == ReadOf(m, 0, pod)
    <2>1. CounterSample(m, 0) = n
      BY <1>6, CounterSampleRead
    <2>2. Told(rings, m) = {n}
      BY <1>6, <1>7, <2>1 DEF Told
    <2>3. n \in Samples /\ n.src \in PodSources /\ n.at = 0 /\ n.src.uid = pod.uid
      BY <1>2, ReadingOfPod
    <2> HIDE DEF n
    <2>4. n.src.total \in Nat /\ n.src.restarts \in Nat /\ n.value \in Nat
      BY <2>3, SampleTyped DEF PodSources
    <2>5. Follows(n, n)
      BY <2>4 DEF Follows
    <2> QED
      BY <1>2, <1>6, <2>2, <2>3, <2>5 DEF OneStory
  <1> QED
    BY <1>5, <1>7, <1>8, <1>9 DEF ObserveInv

LEMMA PodLivesOn ==
    ASSUME PastOK, NEW happening \in SUBSET Counter, NEW level \in Nat
    PROVE  LET pod == Pod(Present.uid, OneMore(Present.count, happening), OneMore(Present.total, happening),
                          Present.restarts, level)
           IN pod \in Pods /\ GoesOn(Present, pod)
  <1> DEFINE count == OneMore(Present.count, happening)
             total == OneMore(Present.total, happening)
             pod == Pod(Present.uid, count, total, Present.restarts, level)
  <1>1. Present \in Pods
    BY RecentPods
  <1>2. /\ Present.uid \in Nat /\ Present.restarts \in Nat
        /\ \A m \in Counter : Present.count[m] \in Nat /\ Present.total[m] \in Nat
    BY <1>1, PodTyped
  <1>3. \A m \in Counter : /\ count[m] = IF m \in happening THEN Present.count[m] + 1 ELSE Present.count[m]
                           /\ total[m] = IF m \in happening THEN Present.total[m] + 1 ELSE Present.total[m]
    BY DEF OneMore
  <1>4. count \in [Counter -> Nat] /\ total \in [Counter -> Nat]
    BY <1>2 DEF OneMore
  <1> HIDE DEF count, total
  <1>5. /\ pod \in Pods /\ pod.uid = Present.uid /\ pod.restarts = Present.restarts
        /\ pod.count = count /\ pod.total = total
    BY <1>2, <1>4 DEF Pods, Pod
  <1> HIDE DEF pod
  <1>6. GoesOn(Present, pod)
    BY <1>3, <1>5 DEF GoesOn
  <1> QED
    BY <1>5, <1>6 DEF pod, count, total

LEMMA ObserveInvStep == ObserveInv /\ [ObserveNext]_observeVars => ObserveInv'
  <1> SUFFICES ASSUME ObserveInv, [ObserveNext]_observeVars PROVE ObserveInv'
    OBVIOUS
  <1>1. PastOK /\ Present \in Pods /\ instant \in Recent
    BY RecentPods DEF ObserveInv
  <1>2. Present.uid \in Nat /\ Present.restarts \in Nat /\ Present.level \in Nat /\ Present.total \in [Counter -> Nat]
    BY <1>1 DEF Pods
  <1>0. {"periods"} \in SUBSET Counter /\ Counter \in SUBSET Counter /\ Zero \in [Counter -> Nat]
        /\ \A m \in Counter : Zero[m] = 0
    BY DEF Counter, Zero
  <1>3. ASSUME NEW happening \in SUBSET Counter, NEW level \in Nat, LivesOn(happening, level)
        PROVE  ObserveInv'
    <2> DEFINE pod == Pod(Present.uid, OneMore(Present.count, happening), OneMore(Present.total, happening),
                          Present.restarts, level)
    <2>1. pod \in Pods /\ GoesOn(Present, pod)
      BY <1>1, PodLivesOn
    <2>2. Becomes(pod)
      BY <1>3 DEF LivesOn
    <2> HIDE DEF pod
    <2> QED
      BY <2>1, <2>2, BecomesStep
  <1>4. CASE Idle \/ Work
    BY <1>0, <1>2, <1>3, <1>4 DEF Idle, Work
  <1>5. CASE ContainerRestart
    <2> DEFINE pod == Pod(Present.uid, Zero, Present.total, Present.restarts + 1, Present.level)
    <2>0. pod \in Pods /\ pod.uid = Present.uid /\ pod.count = Zero /\ pod.total = Present.total
          /\ pod.restarts = Present.restarts + 1
      BY <1>0, <1>2 DEF Pods, Pod
    <2>2. Becomes(pod)
      BY <1>5 DEF ContainerRestart
    <2> HIDE DEF pod
    <2>1. GoesOn(Present, pod)
      BY <1>0, <2>0 DEF GoesOn
    <2> QED
      BY <2>0, <2>1, <2>2, BecomesStep
  <1>6. CASE Recreate
    <2> DEFINE pod == Pod(Present.uid + 1, Zero, Zero, 0, Present.level)
    <2>0. Becomes(pod)
      BY <1>6 DEF Recreate
    <2>1. pod \in Pods /\ GoesOn(Present, pod)
      BY <1>0, <1>2 DEF Pods, Pod, GoesOn
    <2> QED
      BY <2>0, <2>1, BecomesStep
  <1>7. CASE Shift
    <2>1. PICK level \in Levels : LivesOn({"periods"}, level)
      BY <1>7 DEF Shift
    <2>2. level \in Nat
      BY ObserveAssumption
    <2> QED
      BY <1>0, <1>3, <2>1, <2>2
  <1>8. CASE ScrapeAll \/ ScrapeSpoilt \/ ScrapePartial
    <2>1. ~ scraped /\ scraped' = TRUE /\ instant' = instant /\ past' = past
      BY <1>8 DEF ScrapeAll, ScrapeSpoilt, ScrapePartial, Cycle
    <2>2. StoreOK(rings, {}) /\ Paired(rings)
      BY <2>1 DEF ObserveInv
    <2>3. StoreOK(rings', DOMAIN rings') /\ Paired(rings') /\ \A m \in Counter : Told(rings', m) \subseteq Told(rings, m)
      BY <1>1, <1>8, <2>2, CycleKeeps
    <2>4. PastOK' /\ Present' = Present /\ Recent' = Recent
      BY <1>1, <2>1 DEF PastOK, Present, Recent
    <2>5. StoreOK(rings, DOMAIN rings)'
      BY <2>1, <2>3 DEF StoreOK, RingOK, Dated
    <2>6. ASSUME NEW m \in Counter PROVE OneStory(Told(rings, m))'
      <3>1. \A t : CounterSample(m, t)' = CounterSample(m, t)
        BY <2>1 DEF CounterSample, At
      <3>2. Told(rings, m)' \subseteq Told(rings, m)
        BY <2>3, <2>4, <3>1 DEF Told
      <3>3. OneStory(Told(rings, m))
        BY DEF ObserveInv
      <3> QED
        BY <2>1, <2>4, <3>2, <3>3 DEF OneStory
    <2>7. Paired(rings)'
      BY <2>3 DEF Paired, RingOf, Parallel
    <2> QED
      BY <2>1, <2>4, <2>5, <2>6, <2>7 DEF ObserveInv
  <1>9. CASE UNCHANGED observeVars
    <2>1. instant' = instant /\ past' = past /\ scraped' = scraped /\ rings' = rings
      BY <1>9 DEF observeVars
    <2>2. PastOK' /\ Present' = Present /\ Recent' = Recent
      BY <1>1, <2>1 DEF PastOK, Present, Recent
    <2>3. ASSUME NEW m \in Counter PROVE OneStory(Told(rings, m))'
      <3>1. \A t : CounterSample(m, t)' = CounterSample(m, t)
        BY <2>1 DEF CounterSample, At
      <3>2. Told(rings, m)' = Told(rings, m)
        BY <2>1, <2>2, <3>1 DEF Told
      <3>3. OneStory(Told(rings, m))
        BY DEF ObserveInv
      <3> QED
        BY <2>1, <2>2, <3>2, <3>3 DEF OneStory
    <2>6. StoreOK(rings, IF scraped THEN DOMAIN rings ELSE {})'
      BY <2>1 DEF ObserveInv, StoreOK, RingOK, Dated
    <2>7. Paired(rings)'
      BY <2>1 DEF ObserveInv, Paired, RingOf, Parallel
    <2> QED
      BY <2>2, <2>3, <2>6, <2>7 DEF ObserveInv
  <1> QED
    BY <1>4, <1>5, <1>6, <1>7, <1>8, <1>9 DEF ObserveNext

\* Readings are dated no later than their arrival, rings hold the readings of
\* one cgroup each, those of a family without further labels of one series, and
\* what they tell of each counter of the pod is one story.
THEOREM ObserveInvInductive == ObserveSpec => []ObserveInv
  <1> QED
    BY ObserveInvInit, ObserveInvStep, PTL DEF ObserveSpec

\* A ring holds the readings of one cgroup, of the entity it is kept for and,
\* but for a family told apart by a label that StreamID leaves out, of one series,
\* for every life of the pod and every cycle (Ingestor.ingestExposition,
\* streamSubID, Normalize).
THEOREM ReadingsAreUnmixed == ObserveSpec => []RingsAreUnmixed
  <1>1. ObserveInv => RingsAreUnmixed
    <2> SUFFICES ASSUME ObserveInv, NEW id \in DOMAIN rings
                 PROVE  /\ \A s \in Range(rings[id]) : id.cei \in Owner(s.src)
                        /\ \A s, t \in Range(rings[id]) :
                             /\ s.src.cgroup = t.src.cgroup
                             /\ id.metric \notin Labelled => s.src.series = t.src.series
      BY DEF RingsAreUnmixed
    <2> DEFINE ring == rings[id]
    <2>1. ring \in Seq(Samples) /\ \A i \in 1..Len(ring) : BelongsTo(ring[i], id)
      BY DEF ObserveInv, StoreOK, RingOK
    <2> HIDE DEF ring
    <2>2. \A s \in Range(ring) : BelongsTo(s, id)
      BY <2>1 DEF Range
    <2>3. \A s \in Range(ring) : /\ id.cei \in Owner(s.src) /\ s.src.cgroup = CgroupOf(id)
                                 /\ id.metric \notin Labelled => s.src.series = SeriesOf(id)
      BY <2>2 DEF BelongsTo
    <2> QED
      BY <2>3 DEF ring
  <1> QED
    BY <1>1, ObserveInvInductive, PTL

-----------------------------------------------------------------------------
\* Readings by their own time stamps: the window is the chosen readings, in order.
InOrder(win, samples, is) ==
    /\ win \in Seq(Samples) /\ Len(win) = Cardinality(is) /\ Len(win) \in Nat
    /\ \A k, l \in 1..Len(win) : k <= l => win[k].at <= win[l].at
    /\ \A k \in 1..Len(win) : \E i \in is : win[k] = samples[i]
    /\ \A i \in is : \E k \in 1..Len(win) : win[k] = samples[i]

LEMMA RanksTellApart ==
    ASSUME NEW samples \in Seq(Samples), NEW is, is \subseteq DOMAIN samples
    PROVE  /\ IsFiniteSet(is) /\ Cardinality(is) \in Nat
           /\ \A i \in is : Rank(samples, is, i) \in 0..(Cardinality(is) - 1)
           /\ \A i, j \in is : IsBefore(samples, j, i) => Rank(samples, is, j) < Rank(samples, is, i)
           /\ \A i, j \in is : IsBefore(samples, j, i) \/ IsBefore(samples, i, j) \/ i = j
  <1>1. DOMAIN samples = 1..Len(samples) /\ Len(samples) \in Nat
        /\ \A i \in is : i \in Nat /\ samples[i].at \in Nat
    BY RingTyped
  <1>2. IsFiniteSet(is) /\ Cardinality(is) \in Nat
    <2>1. IsFiniteSet(1..Len(samples))
      BY <1>1, FS_Interval
    <2>2. IsFiniteSet(is)
      BY <1>1, <2>1, FS_Subset
    <2> QED
      BY <2>2, FS_CardinalityType
  <1> DEFINE Before(i) == {j \in is : IsBefore(samples, j, i)}
  <1>3. \A i, j, k \in is : IsBefore(samples, i, j) /\ IsBefore(samples, j, k) => IsBefore(samples, i, k)
    BY <1>1 DEF IsBefore
  <1>4. \A i \in is : ~ IsBefore(samples, i, i)
    BY <1>1 DEF IsBefore
  <1>5. \A i, j \in is : IsBefore(samples, j, i) \/ IsBefore(samples, i, j) \/ i = j
    BY <1>1 DEF IsBefore
  <1>6. \A i : Rank(samples, is, i) = Cardinality(Before(i))
    BY DEF Rank
  <1>7. ASSUME NEW S \in SUBSET is, NEW T \in SUBSET is, S \subseteq T, S # T
        PROVE  Cardinality(S) < Cardinality(T) /\ Cardinality(S) \in Nat /\ Cardinality(T) \in Nat
    <2>1. IsFiniteSet(S) /\ IsFiniteSet(T)
      BY <1>2, FS_Subset
    <2>2. Cardinality(S) <= Cardinality(T) /\ (Cardinality(T) = Cardinality(S) => T = S)
      BY <1>7, <2>1, FS_Subset
    <2>3. Cardinality(S) \in Nat /\ Cardinality(T) \in Nat
      BY <2>1, FS_CardinalityType
    <2> QED
      BY <1>7, <2>2, <2>3
  <1>8. ASSUME NEW i \in is PROVE Rank(samples, is, i) \in 0..(Cardinality(is) - 1)
    <2>1. i \notin Before(i) /\ Before(i) \in SUBSET is /\ Before(i) # is
      BY <1>4
    <2>2. Cardinality(Before(i)) < Cardinality(is) /\ Cardinality(Before(i)) \in Nat
      BY <1>7, <2>1
    <2> QED
      BY <1>2, <1>6, <2>2
  <1>9. ASSUME NEW i \in is, NEW j \in is, IsBefore(samples, j, i)
        PROVE  Rank(samples, is, j) < Rank(samples, is, i)
    <2>1. j \in Before(i) /\ j \notin Before(j) /\ Before(j) \subseteq Before(i)
      BY <1>3, <1>4, <1>9
    <2>2. Before(i) \in SUBSET is /\ Before(j) \in SUBSET is /\ Before(i) # Before(j)
      BY <2>1
    <2> QED
      BY <1>6, <1>7, <2>1, <2>2
  <1> QED
    BY <1>2, <1>5, <1>8, <1>9

\* Where the k-th of the chosen readings is.
PlaceAt(samples, is, k) == CHOOSE i \in is : Rank(samples, is, i) = k - 1

LEMMA TimePlaces ==
    ASSUME NEW samples \in Seq(Samples), NEW is, is \subseteq DOMAIN samples,
           NEW k \in 1..Cardinality(is)
    PROVE  PlaceAt(samples, is, k) \in is /\ Rank(samples, is, PlaceAt(samples, is, k)) = k - 1
  <1> DEFINE n == Cardinality(is)
             rank == [i \in is |-> Rank(samples, is, i)]
  <1>1. /\ IsFiniteSet(is) /\ n \in Nat
        /\ \A i \in is : rank[i] \in 0..(n - 1)
        /\ \A i, j \in is : IsBefore(samples, j, i) => rank[j] < rank[i]
        /\ \A i, j \in is : IsBefore(samples, j, i) \/ IsBefore(samples, i, j) \/ i = j
    BY RanksTellApart
  <1>2. rank \in Surjection(is, 0..(n - 1))
    <2>1. rank \in [is -> 0..(n - 1)]
      BY <1>1
    <2> HIDE DEF rank
    <2>2. \A i, j \in is : rank[i] = rank[j] => i = j
      BY <1>1, <2>1
    <2>3. rank \in Injection(is, 0..(n - 1))
      BY <2>1, <2>2, Fun_IsInj
    <2>4. IsFiniteSet(0..(n - 1)) /\ Cardinality(0..(n - 1)) = n
      <3>1. \A m \in Nat : IsFiniteSet(0..(m - 1)) /\ Cardinality(0..(m - 1)) = m
        <4> TAKE m \in Nat
        <4>1. 0 \in Int /\ m - 1 \in Int /\ (IF 0 > m - 1 THEN 0 ELSE (m - 1) - 0 + 1) = m
          OBVIOUS
        <4> QED
          BY <4>1, FS_Interval
      <3> QED
        BY <1>1, <3>1
    <2> QED
      BY <2>3, <2>4, FS_Injection
  <1>3. \A m \in 0..(n - 1) : \E i \in is : rank[i] = m
    BY <1>2 DEF Surjection
  <1>4. k - 1 \in 0..(n - 1)
    BY <1>1
  <1>5. \E i \in is : Rank(samples, is, i) = k - 1
    BY <1>3, <1>4
  <1> QED
    BY <1>5 DEF PlaceAt

LEMMA TimeOrders ==
    ASSUME NEW samples \in Seq(Samples), NEW is, is \subseteq DOMAIN samples
    PROVE  InOrder(ByTime(samples, is), samples, is)
  <1> DEFINE n == Cardinality(is)
             rank == [i \in is |-> Rank(samples, is, i)]
             win == ByTime(samples, is)
             at == [k \in 1..n |-> PlaceAt(samples, is, k)]
  <1>1. /\ IsFiniteSet(is) /\ n \in Nat
        /\ \A i \in is : rank[i] \in 0..(n - 1)
        /\ \A i, j \in is : IsBefore(samples, j, i) => rank[j] < rank[i]
        /\ \A i, j \in is : IsBefore(samples, j, i) \/ IsBefore(samples, i, j) \/ i = j
    BY RanksTellApart
  <1>4. \A k \in 1..n : at[k] \in is /\ rank[at[k]] = k - 1
    BY TimePlaces
  <1>5. win = [k \in 1..n |-> samples[at[k]]]
    BY DEF ByTime, PlaceAt
  <1> HIDE DEF at, win
  <1>6. \A i \in is : samples[i] \in Samples /\ samples[i].at \in Nat
    BY RingTyped
  <1>7. win \in Seq(Samples) /\ Len(win) = n
    <2>1. \A k \in 1..n : samples[at[k]] \in Samples
      BY <1>4, <1>6
    <2>2. win \in [1..n -> Samples]
      BY <1>5, <2>1
    <2> HIDE DEF n
    <2> QED
      BY <1>1, <2>2, LenProperties DEF Seq
  <1>8. \A k, l \in 1..n : k <= l => win[k].at <= win[l].at
    <2> SUFFICES ASSUME NEW k \in 1..n, NEW l \in 1..n, k <= l PROVE win[k].at <= win[l].at
      OBVIOUS
    <2>1. /\ at[k] \in is /\ at[l] \in is /\ ~ IsBefore(samples, at[l], at[k])
      <3>1. rank[at[k]] = k - 1 /\ rank[at[l]] = l - 1 /\ at[k] \in is /\ at[l] \in is
        BY <1>4
      <3>2. ~ (rank[at[l]] < rank[at[k]])
        BY <1>1, <3>1
      <3> QED
        BY <1>1, <3>1, <3>2
    <2>2. ~ (samples[at[l]].at < samples[at[k]].at)
      BY <2>1 DEF IsBefore
    <2> QED
      BY <1>5, <1>6, <2>1, <2>2
  <1>9. \A i \in is : \E k \in 1..n : win[k] = samples[i]
    <2> SUFFICES ASSUME NEW i \in is PROVE \E k \in 1..n : win[k] = samples[i]
      OBVIOUS
    <2> DEFINE k == rank[i] + 1
    <2>1. k \in 1..n /\ k - 1 = rank[i]
      BY <1>1
    <2>2. at[k] \in is /\ rank[at[k]] = rank[i]
      BY <1>4, <2>1
    <2>3. ~ (rank[i] < rank[at[k]]) /\ ~ (rank[at[k]] < rank[i])
      BY <1>1, <2>2
    <2>4. at[k] = i
      BY <1>1, <2>2, <2>3
    <2> QED
      BY <1>5, <2>1, <2>4
  <1>10. \A k \in 1..n : \E i \in is : win[k] = samples[i]
    BY <1>4, <1>5
  <1> QED
    BY <1>1, <1>7, <1>8, <1>9, <1>10 DEF InOrder, win

\* The readings of the window, in order of their time stamps.
WindowOf(ring) == ByTime(LastN(ring), InWindow(LastN(ring), instant))

IsWindow(win, readings) ==
    /\ win \in Seq(Samples) /\ Len(win) \in Nat
    /\ \A k, l \in 1..Len(win) : k <= l => win[k].at <= win[l].at
    /\ \A k \in 1..Len(win) : win[k] \in Recently(readings)
    /\ \A s \in Recently(readings) : \E k \in 1..Len(win) : win[k] = s

\* No reading is dated later than its arrival, and a ring takes one a cycle: those
\* before its last RingWindowN are out of the window.
OnTime(ring) ==
    /\ ring \in Seq(Samples) /\ ring # <<>> /\ instant \in Nat
    /\ \A i \in 1..Len(ring) : ring[i].at <= instant - (Len(ring) - i)

Skipped(ring) == IF Len(ring) > RingWindowN THEN Len(ring) - RingWindowN ELSE 0

LEMMA LastNIs ==
    ASSUME NEW ring \in Seq(Samples), ring # <<>>
    PROVE  LET n == Len(ring) - Skipped(ring) IN
           /\ Skipped(ring) \in Nat /\ n \in Nat /\ Len(ring) \in Nat
           /\ LastN(ring) \in Seq(Samples) /\ Len(LastN(ring)) = n
           /\ \A i \in 1..n : LastN(ring)[i] = ring[i + Skipped(ring)] /\ i + Skipped(ring) \in 1..Len(ring)
  <1> DEFINE n == Len(ring)
             c == Skipped(ring)
             last == LastN(ring)
  <1>1. RingWindowN \in Nat \ {0}
    <2>1. RateWindow \in Nat /\ ScrapeInterval \in Nat \ {0}
      BY FingerprintAssumption
    <2>2. RateWindow \div ScrapeInterval \in Nat
      BY <2>1
    <2> QED
      BY <2>2 DEF RingWindowN
  <1>2. n \in Nat /\ n > 0
    OBVIOUS
  <1>3. c \in Nat /\ c < n
    BY <1>1, <1>2 DEF Skipped
  <1>4. last = SubSeq(ring, c + 1, n)
    BY <1>1, <1>2 DEF LastN, Skipped
  <1> HIDE DEF c, n, last
  <1>5. c + 1 \in 1..n /\ n \in 1..n /\ n - (c + 1) + 1 = n - c /\ c + 1 <= n /\ n - c \in Nat
    BY <1>2, <1>3
  <1>6. last \in Seq(Samples)
    BY <1>4, <1>5, SubSeqProperties DEF n
  <1>7. Len(last) = n - c
    BY <1>4, <1>5, SubSeqProperties DEF n
  <1>8. \A i \in 1..(n - c) : last[i] = ring[(c + 1) + i - 1]
    BY <1>4, <1>5, SubSeqProperties DEF n
  <1>9. \A i \in 1..(n - c) : (c + 1) + i - 1 = i + c /\ i + c \in 1..n
    BY <1>2, <1>3
  <1> QED
    BY <1>2, <1>3, <1>5, <1>6, <1>7, <1>8, <1>9 DEF n, c, last

LEMMA WindowIsWhole ==
    ASSUME NEW ring, OnTime(ring)
    PROVE  IsWindow(WindowOf(ring), Range(ring))
  <1> DEFINE last == LastN(ring)
             is == InWindow(last, instant)
             win == WindowOf(ring)
             n == Len(ring)
             c == IF n > RingWindowN THEN n - RingWindowN ELSE 0
  <1>1. RingWindowN \in Nat /\ RateWindow \in Nat /\ RateWindow < RingWindowN
    <2>1. RateWindow \in Nat /\ ScrapeInterval \in Nat \ {0}
      BY FingerprintAssumption
    <2>2. RateWindow \div ScrapeInterval \in Nat
      BY <2>1
    <2> QED
      BY <2>1, <2>2, WindowAssumption DEF RingWindowN
  <1>2. /\ ring \in Seq(Samples) /\ n \in Nat /\ n > 0 /\ instant \in Nat
        /\ \A i \in 1..n : ring[i].at \in Nat /\ ring[i] \in Samples /\ ring[i].at <= instant - (n - i)
    BY RingTyped DEF OnTime
  <1>3. c \in Nat /\ c < n /\ n - c <= RingWindowN /\ (c > 0 => n - c = RingWindowN)
    BY <1>1, <1>2
  <1>4. c = Skipped(ring)
    BY DEF Skipped
  <1>5. last \in Seq(Samples) /\ Len(last) = n - c /\ \A i \in 1..(n - c) : last[i] = ring[i + c]
    BY <1>4, LastNIs DEF OnTime
  <1> HIDE DEF c, n, last
  <1>6. is \subseteq DOMAIN last /\ DOMAIN last = 1..(n - c) /\ win = ByTime(last, is)
    BY <1>5 DEF InWindow, WindowOf, last
  <1>7. InOrder(win, last, is)
    BY <1>5, <1>6, TimeOrders
  <1> HIDE DEF win
  <1>8. \A s \in Range(ring) : \E i \in 1..n : ring[i] = s
    BY <1>2 DEF Range, n
  <1>9. \A i \in 1..n : ring[i] \in Range(ring)
    BY <1>2 DEF Range, n
  <1>10. \A i \in is : last[i] \in Recently(Range(ring))
    <2> SUFFICES ASSUME NEW i \in is PROVE last[i] \in Recently(Range(ring))
      OBVIOUS
    <2>1. i \in 1..(n - c) /\ last[i].at \in (instant - RateWindow)..instant
      BY <1>6 DEF InWindow
    <2>2. i + c \in 1..n /\ last[i] = ring[i + c]
      BY <1>2, <1>3, <1>5, <2>1
    <2>3. instant - last[i].at <= RateWindow
      BY <1>1, <1>2, <2>1, <2>2
    <2> QED
      BY <1>9, <2>2, <2>3 DEF Recently
  <1>11. \A s \in Recently(Range(ring)) : \E i \in is : last[i] = s
    <2> SUFFICES ASSUME NEW s \in Recently(Range(ring)) PROVE \E i \in is : last[i] = s
      OBVIOUS
    <2>1. s \in Range(ring) /\ instant - s.at <= RateWindow
      BY DEF Recently
    <2>2. PICK k \in 1..n : ring[k] = s
      BY <1>8, <2>1
    <2>3. s.at \in Nat /\ s.at <= instant - (n - k) /\ k \in Nat
      BY <1>2, <2>2
    <2>4. k > c
      BY <1>1, <1>2, <1>3, <2>1, <2>2, <2>3
    <2>5. k - c \in 1..(n - c) /\ (k - c) + c = k
      BY <1>2, <1>3, <2>2, <2>4
    <2>6. last[k - c] = s /\ s.at \in (instant - RateWindow)..instant
      BY <1>1, <1>2, <1>5, <2>1, <2>2, <2>3, <2>5
    <2> QED
      BY <1>6, <2>5, <2>6 DEF InWindow
  <1> HIDE DEF is
  <1> QED
    BY <1>7, <1>10, <1>11 DEF IsWindow, InOrder, win

\* The latest run: a tail of the window without a gap in it, all of it when the
\* window has none.
IsRun(run, win, c) ==
    /\ c \in 1..Len(win)
    /\ run \in Seq(Samples) /\ Len(run) = Len(win) - c + 1 /\ Len(run) \in Nat /\ Len(run) >= 1
    /\ \A i \in 1..Len(run) : run[i] = win[i + c - 1] /\ i + c - 1 \in 1..Len(win)
    /\ \A i \in 2..Len(run) : run[i].at - run[i - 1].at <= 2 * ScrapeInterval
    /\ Gaps(win) = {} => c = 1

Cut(win) == CHOOSE i \in {1} \cup Gaps(win) : \A j \in Gaps(win) : j <= i

HasRun(win) == IsRun(LatestRun(win), win, Cut(win))

LEMMA LatestRunIs ==
    ASSUME NEW win \in Seq(Samples), Len(win) \in Nat, Len(win) >= 1
    PROVE  HasRun(win)
  <1> DEFINE n == Len(win)
             S == {1} \cup Gaps(win)
             c == Cut(win)
             run == LatestRun(win)
  <1>1. Gaps(win) \subseteq 2..n /\ n \in Nat /\ n >= 1
    BY DEF Gaps
  <1>2. \A i \in 1..n : win[i] \in Samples /\ win[i].at \in Nat
    BY RingTyped
  <1>3. S \subseteq 0..n /\ S # {}
    BY <1>1
  <1> HIDE DEF S, n
  <1>4. Max(S) \in S /\ \A y \in S : y <= Max(S)
    BY <1>1, <1>3, GreatestExists
  <1>5. \E i \in S : \A j \in Gaps(win) : j <= i
    BY <1>4 DEF S
  <1>6. c \in S /\ \A j \in Gaps(win) : j <= c
    BY <1>5 DEF Cut, S
  <1>7. run = SubSeq(win, c, n)
    BY DEF LatestRun, Cut, n
  <1> HIDE DEF c, run
  <1>8. c \in 1..n /\ (Gaps(win) = {} => c = 1)
    BY <1>1, <1>6 DEF S
  <1>9. /\ run \in Seq(Samples) /\ Len(run) = n - c + 1
        /\ \A i \in 1..(n - c + 1) : run[i] = win[c + i - 1]
    BY <1>1, <1>7, <1>8, SubSeqProperties DEF n
  <1>10. \A i \in 1..Len(run) : run[i] = win[i + c - 1] /\ i + c - 1 \in 1..n
    <2> TAKE i \in 1..Len(run)
    <2>1. i + c - 1 \in 1..n /\ i + c - 1 = c + i - 1 /\ i \in 1..(n - c + 1)
      BY <1>1, <1>8, <1>9
    <2> QED
      BY <1>9, <2>1
  <1>11. \A i \in 2..Len(run) : run[i].at - run[i - 1].at <= 2 * ScrapeInterval
    <2> SUFFICES ASSUME NEW i \in 2..Len(run) PROVE run[i].at - run[i - 1].at <= 2 * ScrapeInterval
      OBVIOUS
    <2> DEFINE k == i + c - 1
    <2>1. k \in 2..n /\ k > c /\ i \in 1..Len(run) /\ i - 1 \in 1..Len(run) /\ (i - 1) + c - 1 = k - 1
      BY <1>1, <1>8, <1>9
    <2>2. run[i] = win[k] /\ run[i - 1] = win[k - 1] /\ k - 1 \in 1..n /\ k \in 1..n
      BY <1>10, <2>1
    <2>3. k \notin Gaps(win)
      BY <1>1, <1>6, <1>8, <2>1
    <2>4. ~ (win[k].at - win[k - 1].at > 2 * ScrapeInterval)
      BY <2>1, <2>3 DEF Gaps, n
    <2>5. win[k].at \in Nat /\ win[k - 1].at \in Nat /\ ScrapeInterval \in Nat
      BY <1>2, <2>2, FingerprintAssumption
    <2> HIDE DEF k
    <2> QED
      BY <2>2, <2>4, <2>5
  <1>12. Len(run) \in Nat /\ Len(run) >= 1
    BY <1>1, <1>8, <1>9
  <1>13. IsRun(run, win, c)
    BY <1>8, <1>9, <1>10, <1>11, <1>12 DEF IsRun, n
  <1> QED
    BY <1>13 DEF HasRun, run, c

-----------------------------------------------------------------------------
\* A run of one incarnation's readings. Its rises never count more than what
\* happened, and count all of it when no container restarted.
OfOne(run) ==
    /\ run \in Seq(Samples) /\ Len(run) \in Nat
    /\ \A k \in 1..Len(run) : run[k].src \in PodSources
    /\ \A k, l \in 1..Len(run) : run[k].src.uid = run[l].src.uid /\ Follows(run[k], run[l])
    /\ \A k, l \in 1..Len(run) : k <= l => run[k].at <= run[l].at

LEMMA OfOneTyped ==
    ASSUME NEW run, OfOne(run)
    PROVE  /\ Len(run) \in Nat
           /\ \A k \in 1..Len(run) : /\ run[k].at \in Nat /\ run[k].value \in Nat
                                     /\ run[k].src.total \in Nat /\ run[k].src.restarts \in Nat
  <1>1. \A s \in PodSources : s.total \in Nat /\ s.restarts \in Nat
    BY DEF PodSources
  <1> QED
    BY <1>1, RingTyped DEF OfOne

LEMMA RiseIs ==
    ASSUME NEW run, OfOne(run), NEW i \in 2..Len(run)
    PROVE  /\ Rise(run, i) \in Nat
           /\ run[i - 1].src.total + Rise(run, i) <= run[i].src.total
           /\ run[i - 1].src.restarts = run[i].src.restarts =>
                 run[i - 1].src.total + Rise(run, i) = run[i].src.total
  <1> DEFINE p == run[i - 1]
             q == run[i]
  <1>1. Len(run) \in Nat /\ i \in 1..Len(run) /\ i - 1 \in 1..Len(run) /\ i - 1 <= i
    BY OfOneTyped
  <1>2. /\ p.value \in Nat /\ p.src.total \in Nat /\ p.src.restarts \in Nat
        /\ q.value \in Nat /\ q.src.total \in Nat /\ q.src.restarts \in Nat
    BY <1>1, OfOneTyped
  <1>3. p.src.uid = q.src.uid /\ p.at <= q.at /\ Follows(p, q)
    BY <1>1 DEF OfOne
  <1>4. Rise(run, i) = IF q.value > p.value THEN q.value - p.value ELSE 0
    BY DEF Rise
  <1> HIDE DEF p, q
  <1>5. /\ p.src.total <= q.src.total /\ p.src.restarts <= q.src.restarts
        /\ p.src.restarts = q.src.restarts => q.value - p.value = q.src.total - p.src.total
        /\ p.src.restarts < q.src.restarts => q.value <= q.src.total - p.src.total
    BY <1>3 DEF Follows
  <1>6. /\ Rise(run, i) \in Nat
        /\ p.src.total + Rise(run, i) <= q.src.total
        /\ p.src.restarts = q.src.restarts => p.src.total + Rise(run, i) = q.src.total
    BY <1>2, <1>4, <1>5
  <1> QED
    BY <1>6 DEF p, q

NoRestart(run) == \A k, l \in 1..Len(run) : run[k].src.restarts = run[l].src.restarts

DeltaIs(run, d) ==
    /\ d \in Nat
    /\ run[1].src.total + d <= run[Len(run)].src.total
    /\ NoRestart(run) => run[1].src.total + d = run[Len(run)].src.total

LEMMA RisesAddUp ==
    ASSUME NEW run, OfOne(run), Len(run) >= 1
    PROVE  DeltaIs(run, WindowDelta(run))
  <1> DEFINE n == Len(run) - 1
             order == [i \in 1..n |-> i + 1]
  <1>1. Len(run) \in Nat /\ n \in Nat /\ n + 1 = Len(run)
        /\ \A k \in 1..Len(run) : run[k].src.total \in Nat
    BY OfOneTyped
  <1>2. WindowDelta(run) = Partial("rise", run, 0, order, 1..n)[1..n]
    BY RiseFold
  <1>3. \A i \in 1..n : order[i] = i + 1
    OBVIOUS
  <1> HIDE DEF n, order
  <1>4. GoesStepByStep("rise", run, 0, order, n)
    BY <1>1, PartialSteps
  <1>5. PICK h : /\ h[0] = 0
                 /\ h[n] = Partial("rise", run, 0, order, 1..n)[1..n]
                 /\ \A i \in 1..n : h[i] = Taken("rise", run, h[i - 1], order[i])
    BY <1>4 DEF GoesStepByStep
  <1>6. \A i \in 1..n : h[i] = h[i - 1] + Rise(run, i + 1)
    BY <1>3, <1>5 DEF Taken
  <1> DEFINE Up(k) == /\ h[k] \in Nat
                      /\ run[1].src.total + h[k] <= run[k + 1].src.total
                      /\ NoRestart(run) => run[1].src.total + h[k] = run[k + 1].src.total
             Good == {k \in Nat : k <= n => Up(k)}
  <1>7. 0 \in Good
    BY <1>1, <1>5
  <1>8. ASSUME NEW k \in Nat, k \in Good PROVE k + 1 \in Good
    <2> SUFFICES ASSUME k + 1 <= n PROVE Up(k + 1)
      OBVIOUS
    <2> DEFINE rise == Rise(run, k + 2)
    <2>1. Up(k)
      BY <1>1, <1>8
    <2>2. k + 1 \in 1..n /\ (k + 1) - 1 = k /\ (k + 1) + 1 = k + 2 /\ k + 2 \in 2..Len(run) /\ (k + 2) - 1 = k + 1
          /\ k + 1 \in 1..Len(run) /\ k + 2 \in 1..Len(run) /\ 1 \in 1..Len(run)
      <3> DEFINE m == Len(run)
      <3>1. m \in Nat /\ n \in Nat /\ n + 1 = m
        BY <1>1
      <3> HIDE DEF m
      <3>2. /\ k + 1 \in 1..n /\ (k + 1) - 1 = k /\ (k + 1) + 1 = k + 2 /\ k + 2 \in 2..m /\ (k + 2) - 1 = k + 1
            /\ k + 1 \in 1..m /\ k + 2 \in 1..m /\ 1 \in 1..m
        BY <3>1
      <3> QED
        BY <3>2 DEF m
    <2>3. h[k + 1] = h[k] + rise
      BY <1>6, <2>2
    <2>4. /\ rise \in Nat
          /\ run[k + 1].src.total + rise <= run[k + 2].src.total
          /\ run[k + 1].src.restarts = run[k + 2].src.restarts => run[k + 1].src.total + rise = run[k + 2].src.total
      BY <2>2, RiseIs
    <2>5. NoRestart(run) => run[k + 1].src.restarts = run[k + 2].src.restarts
      BY <2>2 DEF NoRestart
    <2>6. run[1].src.total \in Nat /\ run[k + 1].src.total \in Nat /\ run[k + 2].src.total \in Nat
      BY <1>1, <2>2
    <2> HIDE DEF rise
    <2> DEFINE x == run[1].src.total
               y == run[k + 1].src.total
               z == run[k + 2].src.total
    <2>7. /\ h[k] \in Nat /\ x + h[k] <= y /\ (NoRestart(run) => x + h[k] = y)
          /\ rise \in Nat /\ y + rise <= z /\ (NoRestart(run) => y + rise = z)
          /\ x \in Nat /\ y \in Nat /\ z \in Nat
      BY <2>1, <2>4, <2>5, <2>6
    <2> HIDE DEF x, y, z
    <2>8. h[k + 1] \in Nat /\ x + h[k + 1] <= z /\ (NoRestart(run) => x + h[k + 1] = z)
      BY <2>3, <2>7
    <2>9. z = run[(k + 1) + 1].src.total
      BY <2>2 DEF z
    <2> QED
      BY <2>8, <2>9 DEF x
  <1> HIDE DEF Up
  <1>9. Nat \subseteq Good
    <2> HIDE DEF Good
    <2> QED
      BY <1>7, <1>8, NatInductive
  <1>10. Up(n)
    BY <1>1, <1>9
  <1> QED
    BY <1>1, <1>2, <1>5, <1>10 DEF Up, DeltaIs

LEMMA RingsAreOnTime ==
    ASSUME ObserveInv, NEW id \in DOMAIN rings, id.metric \notin Labelled
    PROVE  OnTime(rings[id]) /\ \A i \in 1..Len(rings[id]) : BelongsTo(rings[id][i], id)
  <1> DEFINE ring == rings[id]
             served == IF scraped THEN DOMAIN rings ELSE {}
             slack == IF id \in served THEN 0 ELSE 1
  <1>1. RingOK(ring, id, slack) /\ instant \in Nat
    BY DEF ObserveInv, StoreOK, PastOK
  <1>2. slack \in 0..1
    OBVIOUS
  <1> HIDE DEF slack, ring
  <1>3. /\ ring \in Seq(Samples) /\ ring # <<>>
        /\ \A i \in 1..Len(ring) : BelongsTo(ring[i], id) /\ ring[i].at <= instant - (Len(ring) - i) - slack
    BY <1>1 DEF RingOK, Dated
  <1>4. \A i \in 1..Len(ring) : ring[i].at <= instant - (Len(ring) - i)
    BY <1>1, <1>2, <1>3, RingTyped
  <1> QED
    BY <1>1, <1>3, <1>4 DEF OnTime, ring

\* A ring of a counter is of one incarnation, and its readings one story.
IsOne(readings) ==
    /\ readings \subseteq Samples
    /\ \A s \in readings : s.src \in PodSources
    /\ \A s, t \in readings : s.src.uid = t.src.uid /\ Follows(s, t)

LEMMA CounterRingIs ==
    ASSUME ObserveInv, NEW id \in DOMAIN rings, id.metric \in Counter
    PROVE  /\ OnTime(rings[id])
           /\ \A s \in Range(rings[id]) : s \in Samples /\ s.src \in PodSources /\ id = CounterStream(id.metric, s.src.uid)
  <1> DEFINE ring == rings[id]
  <1>1. OnTime(ring) /\ \A i \in 1..Len(ring) : BelongsTo(ring[i], id)
    BY RingsAreOnTime, MetricsDiffer
  <1> HIDE DEF ring
  <1>2. \A s \in Range(ring) : \E i \in 1..Len(ring) : ring[i] = s
    BY <1>1 DEF OnTime, Range
  <1>3. \A i \in 1..Len(ring) : ring[i] \in Samples
    BY <1>1, RingTyped DEF OnTime
  <1>4. \A s \in Range(ring) : s \in Samples /\ BelongsTo(s, id)
    BY <1>1, <1>2, <1>3
  <1> QED
    BY <1>1, <1>4 DEF BelongsTo, ring

LEMMA StreamTells ==
    \A m, n, u, v : CounterStream(m, u).cei.uid = CounterStream(n, v).cei.uid => u = v
  <1>1. \A m, u : CounterStream(m, u).cei.uid[1] = u
    BY DEF CounterStream, Stream
  <1> QED
    BY <1>1

LEMMA CounterRings ==
    ASSUME ObserveInv, NEW id \in DOMAIN rings, id.metric \in Counter
    PROVE  IsOne(Range(rings[id]))
  <1> DEFINE readings == Range(rings[id])
             m == id.metric
  <1>1. readings \subseteq Told(rings, m)
    BY DEF Told
  <1>2. /\ \A s \in readings : s \in Samples /\ s.src \in PodSources
        /\ \A s, t \in readings : Follows(s, t)
    <2>1. OneStory(Told(rings, m))
      BY DEF ObserveInv
    <2> QED
      BY <1>1, <2>1 DEF OneStory
  <1>3. \A s, t \in readings : s.src.uid = t.src.uid
    BY CounterRingIs, StreamTells
  <1> QED
    BY <1>2, <1>3 DEF IsOne

LEMMA RunsOfOne ==
    ASSUME NEW readings, IsOne(readings), NEW win, IsWindow(win, readings)
    PROVE  OfOne(win) /\ \A run, c : IsRun(run, win, c) => OfOne(run)
  <1>1. \A k \in 1..Len(win) : win[k] \in readings
    BY DEF IsWindow, Recently
  <1>2. OfOne(win)
    BY <1>1 DEF IsWindow, IsOne, OfOne
  <1>3. ASSUME NEW run, NEW c, IsRun(run, win, c) PROVE OfOne(run)
    <2>1. /\ run \in Seq(Samples) /\ Len(run) \in Nat /\ c \in 1..Len(win)
          /\ \A k \in 1..Len(run) : run[k] = win[k + c - 1] /\ k + c - 1 \in 1..Len(win)
      BY <1>3 DEF IsRun
    <2>2. \A k, l \in 1..Len(run) : k <= l => run[k].at <= run[l].at
      <3> SUFFICES ASSUME NEW k \in 1..Len(run), NEW l \in 1..Len(run), k <= l PROVE run[k].at <= run[l].at
        OBVIOUS
      <3>1. k + c - 1 <= l + c - 1
        BY <2>1, <1>2, OfOneTyped
      <3>2. win[k + c - 1].at <= win[l + c - 1].at
        BY <1>2, <2>1, <3>1 DEF OfOne
      <3> QED
        BY <2>1, <3>2
    <2>3. \A k \in 1..Len(run) : run[k].src \in PodSources
      BY <1>2, <2>1 DEF OfOne
    <2>4. \A k, l \in 1..Len(run) : run[k].src.uid = run[l].src.uid /\ Follows(run[k], run[l])
      <3> SUFFICES ASSUME NEW k \in 1..Len(run), NEW l \in 1..Len(run)
                   PROVE  run[k].src.uid = run[l].src.uid /\ Follows(run[k], run[l])
        OBVIOUS
      <3> DEFINE i == k + c - 1
                 j == l + c - 1
      <3>1. run[k] = win[i] /\ run[l] = win[j] /\ i \in 1..Len(win) /\ j \in 1..Len(win)
        BY <2>1
      <3> HIDE DEF i, j
      <3>2. win[i].src.uid = win[j].src.uid /\ Follows(win[i], win[j])
        BY <1>2, <3>1 DEF OfOne
      <3> QED
        BY <3>1, <3>2
    <2> QED
      BY <2>1, <2>2, <2>3, <2>4 DEF OfOne
  <1> QED
    BY <1>2, <1>3

\* The last reading of a run has another shortly before it.
HasClose(run) == \E k \in 1..Len(run) : run[k].at \in (run[Len(run)].at - 2 * ScrapeInterval)..(run[Len(run)].at - 1)

LEMMA CloseAtTheEnd ==
    ASSUME NEW run, OfOne(run), Len(run) >= 1, run[1].at < run[Len(run)].at,
           \A k \in 2..Len(run) : run[k].at - run[k - 1].at <= 2 * ScrapeInterval
    PROVE  HasClose(run)
  <1> DEFINE n == Len(run)
             S == {k \in 1..n : run[k].at < run[n].at}
  <1>1. n \in Nat /\ n >= 1 /\ \A k \in 1..n : run[k].at \in Nat
    BY OfOneTyped
  <1>2. \A k, l \in 1..n : k <= l => run[k].at <= run[l].at
    BY DEF OfOne
  <1>3. 1 \in S /\ S \subseteq 0..n /\ S # {}
    BY <1>1
  <1>4. \A k \in 2..n : run[k].at - run[k - 1].at <= 2 * ScrapeInterval
    OBVIOUS
  <1> DEFINE m == Max(S)
  <1>5. m \in S /\ \A y \in S : y <= m
    BY <1>1, <1>3, GreatestExists
  <1> HIDE DEF m, n
  <1>6. m \in 1..n /\ run[m].at < run[n].at
    BY <1>5
  <1>7. m < n
    BY <1>1, <1>6
  <1>8. m + 1 \in 2..n /\ m + 1 \in 1..n /\ (m + 1) - 1 = m /\ m + 1 \notin S /\ n \in 1..n
    BY <1>1, <1>5, <1>6, <1>7
  <1>9. run[m + 1].at = run[n].at
    BY <1>1, <1>2, <1>8
  <1>10. run[m + 1].at - run[m].at <= 2 * ScrapeInterval
    BY <1>4, <1>8
  <1>11. run[m].at \in (run[n].at - 2 * ScrapeInterval)..(run[n].at - 1)
    <2>1. run[m].at \in Nat /\ run[n].at \in Nat /\ ScrapeInterval \in Nat
      BY <1>1, <1>6, <1>8, FingerprintAssumption
    <2> QED
      BY <1>6, <1>9, <1>10, <2>1
  <1> QED
    BY <1>6, <1>11 DEF HasClose, n

-----------------------------------------------------------------------------
\* What a rate says of the readings of its window.
TrueRate(rate, w) ==
    /\ rate.delta \in Nat /\ rate.elapsed \in Nat /\ rate.samples \in Nat
    /\ rate.samples < 2 => rate.delta = 0 /\ rate.elapsed = 0
    /\ rate.samples >= 2 =>
          \E a, b \in w : a.at <= b.at /\ rate.delta <= Happened(a, b) /\ b.at - a.at = rate.elapsed

\* And what its silence says.
TrueSilence(rate, w) ==
    (\E a, b \in w : a.at < b.at) =>
      /\ (rate.gapBroken => rate.elapsed > 0) =>
            \E a \in w, z \in Newest(w) : a.at \in (z.at - 2 * ScrapeInterval)..(z.at - 1)
      /\ ~ rate.gapBroken /\ (\A a, b \in w : a.src.restarts = b.src.restarts) =>
            \A a, b \in w : Happened(a, b) <= rate.delta

RateOver(rate, win) ==
    /\ rate.samples = Len(win)
    /\ Len(win) < 2 => rate.delta = 0 /\ rate.elapsed = 0 /\ ~ rate.gapBroken
    /\ Len(win) >= 2 => /\ rate.delta = WindowDelta(LatestRun(win)) /\ rate.elapsed = Elapsed(LatestRun(win))
                       /\ (rate.gapBroken <=> Gaps(win) # {})

LEMMA RateIs ==
    ASSUME NEW ring, Len(WindowOf(ring)) \in Nat
    PROVE  RateOver(EvalRate(LastN(ring), instant), WindowOf(ring))
  <1> DEFINE win == WindowOf(ring)
             rate == EvalRate(LastN(ring), instant)
             broken == Gaps(win) # {}
             delta == WindowDelta(LatestRun(win))
             elapsed == Elapsed(LatestRun(win))
  <1>1. rate = IF Len(win) < 2 THEN [samples |-> Len(win), delta |-> 0, elapsed |-> 0, gapBroken |-> FALSE]
               ELSE [samples |-> Len(win), delta |-> delta, elapsed |-> elapsed, gapBroken |-> broken]
    BY DEF EvalRate, WindowOf
  <1>2. broken \in BOOLEAN /\ Len(win) \in Nat
    OBVIOUS
  <1> HIDE DEF win, rate, broken, delta, elapsed
  <1>3. CASE Len(win) < 2
    <2>1. rate = [samples |-> Len(win), delta |-> 0, elapsed |-> 0, gapBroken |-> FALSE]
      BY <1>1, <1>3
    <2> QED
      BY <1>2, <1>3, <2>1 DEF RateOver, win, rate
  <1>4. CASE ~ (Len(win) < 2)
    <2>1. rate = [samples |-> Len(win), delta |-> delta, elapsed |-> elapsed, gapBroken |-> broken]
      BY <1>1, <1>4
    <2>2. rate.samples = Len(win) /\ rate.delta = delta /\ rate.elapsed = elapsed /\ rate.gapBroken = broken
      BY <2>1
    <2> QED
      BY <1>2, <1>4, <2>2 DEF RateOver, win, rate, broken, delta, elapsed
  <1> QED
    BY <1>3, <1>4

LEMMA RateIsTrue ==
    ASSUME NEW ring, OnTime(ring), IsOne(Range(ring))
    PROVE  /\ TrueRate(EvalRate(LastN(ring), instant), Recently(Range(ring)))
           /\ TrueSilence(EvalRate(LastN(ring), instant), Recently(Range(ring)))
  <1> DEFINE win == WindowOf(ring)
             run == LatestRun(win)
             rate == EvalRate(LastN(ring), instant)
             w == Recently(Range(ring))
             n == Len(win)
             r == Len(run)
  <1>1. IsWindow(win, Range(ring))
    BY WindowIsWhole
  <1>2. OfOne(win) /\ \A x, c : IsRun(x, win, c) => OfOne(x)
    BY <1>1, RunsOfOne
  <1>3. n \in Nat /\ \A k \in 1..n : win[k].at \in Nat /\ win[k].src.total \in Nat
    BY <1>2, OfOneTyped
  <1>4. /\ rate.samples = n
        /\ n < 2 => rate.delta = 0 /\ rate.elapsed = 0 /\ ~ rate.gapBroken
        /\ n >= 2 => /\ rate.delta = WindowDelta(run) /\ rate.elapsed = Elapsed(run)
                     /\ (rate.gapBroken <=> Gaps(win) # {})
    BY <1>3, RateIs DEF RateOver
  <1>5. /\ \A k \in 1..n : win[k] \in w
        /\ \A s \in w : \E k \in 1..n : win[k] = s
        /\ \A k, l \in 1..n : k <= l => win[k].at <= win[l].at
        /\ win \in Seq(Samples)
    BY <1>1 DEF IsWindow
  <1> HIDE DEF win, rate, w
  <1>6. CASE n < 2
    <2>1. TrueRate(rate, w)
      BY <1>3, <1>4, <1>6 DEF TrueRate
    <2>2. ~ (\E a, b \in w : a.at < b.at)
      <3> SUFFICES ASSUME NEW a \in w, NEW b \in w, a.at < b.at PROVE FALSE
        OBVIOUS
      <3>1. PICK k \in 1..n : win[k] = a
        BY <1>5
      <3>2. PICK l \in 1..n : win[l] = b
        BY <1>5
      <3>3. k = l
        BY <1>3, <1>6, <3>1, <3>2
      <3>4. a.at \in Nat
        BY <1>3, <3>1
      <3> QED
        BY <3>1, <3>2, <3>3, <3>4
    <2> QED
      BY <2>1, <2>2 DEF TrueSilence, rate, w
  <1>7. CASE n >= 2
    <2> DEFINE c == Cut(win)
    <2>1. HasRun(win)
      BY <1>3, <1>5, <1>7, LatestRunIs
    <2>2. IsRun(run, win, c)
      BY <2>1 DEF HasRun
    <2> HIDE DEF run, c
    <2>3. /\ c \in 1..n /\ r = n - c + 1 /\ r \in Nat /\ r >= 1
          /\ \A k \in 1..r : run[k] = win[k + c - 1] /\ k + c - 1 \in 1..n
          /\ \A k \in 2..r : run[k].at - run[k - 1].at <= 2 * ScrapeInterval
          /\ Gaps(win) = {} => c = 1
      BY <2>2 DEF IsRun
    <2>4. OfOne(run)
      BY <1>2, <2>2
    <2>5. /\ \A k \in 1..r : run[k] \in w /\ run[k].at \in Nat /\ run[k].src.total \in Nat
          /\ 1 \in 1..r /\ r \in 1..r
          /\ run[r] = win[n] /\ run[1].at <= run[r].at
      <3>1. r + c - 1 = n /\ 1 \in 1..r /\ r \in 1..r /\ 1 <= r
        BY <1>3, <2>3
      <3>2. run[1].at <= run[r].at
        BY <2>4, <3>1 DEF OfOne
      <3>3. \A k \in 1..r : run[k] \in w
        BY <1>5, <2>3
      <3>4. \A k \in 1..r : run[k].at \in Nat /\ run[k].src.total \in Nat
        BY <2>4, OfOneTyped
      <3> QED
        BY <2>3, <3>1, <3>2, <3>3, <3>4
    <2>6. DeltaIs(run, rate.delta)
      BY <1>4, <1>7, <2>3, <2>4, RisesAddUp
    <2>7. rate.elapsed = run[r].at - run[1].at /\ rate.elapsed \in Nat
      <3>1. Last(run) = run[r] /\ Head(run) = run[1]
        <4>1. run \in Seq(Samples)
          BY <2>4 DEF OfOne
        <4> QED
          BY <4>1 DEF Last
      <3>2. r < 2 => run[r].at - run[1].at = 0
        <4>1. r \in Nat /\ r >= 1
          BY <2>3
        <4>2. run[1].at \in Nat
          BY <2>5
        <4> HIDE DEF r
        <4>3. r < 2 => r = 1
          BY <4>1
        <4> QED
          BY <4>2, <4>3
      <3>3. rate.elapsed = run[r].at - run[1].at
        BY <1>4, <1>7, <2>3, <2>5, <3>1, <3>2 DEF Elapsed
      <3> QED
        BY <2>5, <3>3
    <2>8. rate.delta \in Nat /\ rate.delta <= Happened(run[1], run[r])
      <3>1. rate.delta \in Nat /\ run[1].src.total + rate.delta <= run[r].src.total
        BY <2>6 DEF DeltaIs
      <3>2. run[1].src.total \in Nat /\ run[r].src.total \in Nat
        BY <2>5
      <3> QED
        BY <3>1, <3>2 DEF Happened
    <2>9. TrueRate(rate, w)
      <3>1. \E a, b \in w : a.at <= b.at /\ rate.delta <= Happened(a, b) /\ b.at - a.at = rate.elapsed
        BY <2>5, <2>7, <2>8
      <3> QED
        BY <1>3, <1>4, <1>7, <2>7, <2>8, <3>1 DEF TrueRate
    <2>10. ASSUME \E a, b \in w : a.at < b.at, rate.gapBroken => rate.elapsed > 0
           PROVE  \E a \in w, z \in Newest(w) : a.at \in (z.at - 2 * ScrapeInterval)..(z.at - 1)
      <3>1. run[1].at < run[r].at
        <4>1. CASE rate.gapBroken
          BY <2>5, <2>7, <2>10, <4>1
        <4>2. CASE ~ rate.gapBroken
          <5>1. run[1] = win[1] /\ r = n /\ 1 \in 1..n /\ n \in 1..n
            BY <1>3, <1>4, <1>7, <2>3, <2>5, <4>2
          <5>2. PICK a \in w, b \in w : a.at < b.at
            BY <2>10
          <5>3. PICK k \in 1..n : win[k] = a
            BY <1>5
          <5>4. PICK l \in 1..n : win[l] = b
            BY <1>5
          <5>5. 1 <= k /\ l <= n
            BY <1>3
          <5>6. win[1].at <= a.at /\ b.at <= win[n].at
            BY <1>5, <5>1, <5>3, <5>4, <5>5
          <5>7. win[1].at \in Nat /\ win[n].at \in Nat /\ a.at \in Nat /\ b.at \in Nat
            BY <1>3, <5>1, <5>3, <5>4
          <5> QED
            BY <2>5, <5>1, <5>2, <5>6, <5>7
        <4> QED
          BY <4>1, <4>2
      <3>2. HasClose(run)
        BY <2>3, <2>4, <3>1, CloseAtTheEnd
      <3>3. PICK k \in 1..r : run[k].at \in (run[r].at - 2 * ScrapeInterval)..(run[r].at - 1)
        BY <3>2 DEF HasClose
      <3>4. run[r] \in Newest(w)
        <4> SUFFICES ASSUME NEW t \in w PROVE t.at <= win[n].at
          BY <2>5 DEF Newest
        <4>1. PICK l \in 1..n : win[l] = t
          BY <1>5
        <4>2. l <= n /\ n \in 1..n
          BY <1>3, <1>7
        <4> QED
          BY <1>5, <4>1, <4>2
      <3> QED
        BY <2>5, <3>3, <3>4
    <2>11. ASSUME ~ rate.gapBroken, \A a, b \in w : a.src.restarts = b.src.restarts, NEW a \in w, NEW b \in w
           PROVE  Happened(a, b) <= rate.delta
      <3>1. run[1] = win[1] /\ run[r] = win[n] /\ 1 \in 1..n /\ n \in 1..n
        BY <1>3, <1>4, <1>7, <2>3, <2>5, <2>11
      <3>2. NoRestart(run)
        BY <2>5, <2>11 DEF NoRestart
      <3>3. run[1].src.total + rate.delta = run[r].src.total
        BY <2>6, <3>2 DEF DeltaIs
      <3>4. PICK k \in 1..n : win[k] = a
        BY <1>5
      <3>5. PICK l \in 1..n : win[l] = b
        BY <1>5
      <3>6. win[1].src.total <= a.src.total
        <4>1. 1 <= k
          BY <1>3
        <4>2. win[1].at <= win[k].at /\ win[1].src.uid = win[k].src.uid /\ Follows(win[1], win[k])
          BY <1>2, <3>1, <4>1 DEF OfOne
        <4> QED
          BY <3>4, <4>2 DEF Follows
      <3>7. b.src.total <= win[n].src.total
        <4>1. l <= n
          BY <1>3
        <4>2. win[l].at <= win[n].at /\ win[l].src.uid = win[n].src.uid /\ Follows(win[l], win[n])
          BY <1>2, <3>1, <4>1 DEF OfOne
        <4> QED
          BY <3>5, <4>2 DEF Follows
      <3>8. /\ win[1].src.total \in Nat /\ win[n].src.total \in Nat
            /\ a.src.total \in Nat /\ b.src.total \in Nat /\ rate.delta \in Nat
        BY <1>3, <2>8, <3>1, <3>4, <3>5
      <3> QED
        BY <3>1, <3>3, <3>6, <3>7, <3>8 DEF Happened
    <2>12. TrueSilence(rate, w)
      BY <2>10, <2>11 DEF TrueSilence
    <2> QED
      BY <2>9, <2>12 DEF rate, w
  <1> QED
    BY <1>3, <1>6, <1>7

-----------------------------------------------------------------------------
\* Quantities, and the ladder: what is called crossed is beyond its bar.
LEMMA TimesKeepsOrder ==
    \A a, b \in Int, c \in Nat : a <= b => a * c <= b * c
  <1> SUFFICES ASSUME NEW a \in Int, NEW b \in Int, NEW c \in Nat, a <= b PROVE a * c <= b * c
    OBVIOUS
  <1>1. PICK d \in Nat : b = a + d
    <2>1. b - a \in Nat /\ b = a + (b - a)
      OBVIOUS
    <2> QED
      BY <2>1
  <1>2. b * c = a * c + d * c /\ d * c \in Nat /\ a * c \in Int
    BY <1>1
  <1> QED
    BY <1>2

LEMMA TimesRegroups ==
    \A a, b, c \in Nat : (a * b) * c = (a * c) * b /\ a * (b * c) = (a * b) * c /\ a * b \in Nat
  OBVIOUS

LEMMA MoreIsAtLeast ==
    ASSUME NEW d \in Nat, NEW h \in Int, d <= h, NEW e \in Nat, NEW v \in Nat \X (Nat \ {0}),
           AtLeast(<<d, e>>, v)
    PROVE  AtLeast(<<h, e>>, v)
  <1>1. v[1] \in Nat /\ v[2] \in Nat
    OBVIOUS
  <1>2. d * v[2] >= v[1] * e
    BY DEF AtLeast
  <1>3. d * v[2] <= h * v[2]
    BY <1>1, TimesKeepsOrder
  <1>4. d * v[2] \in Int /\ h * v[2] \in Int /\ v[1] * e \in Int
    BY <1>1
  <1>5. h * v[2] >= v[1] * e
    BY <1>2, <1>3, <1>4
  <1> QED
    BY <1>5 DEF AtLeast

LEMMA CrossingIsBeyond ==
    ASSUME NEW n \in Nat, NEW d \in Nat, NEW bar, bar.value \in Nat \X (Nat \ {0}),
           IsCrossed(EvalThreshold(<<n, d>>, bar))
    PROVE  Beyond(<<n, d>>, bar)
  <1> DEFINE q == <<n, d>>
             v1 == bar.value[1]
             v2 == bar.value[2]
             x == n * v2
             y == v1 * d
             deep == WellAboveLine(bar)
  <1>1. v1 \in Nat /\ v2 \in Nat /\ WellAbove \in Nat /\ WellAbove >= 100
    BY FingerprintAssumption
  <1>2. x \in Nat /\ y \in Nat
    BY <1>1, TimesRegroups
  <1>3. AtLeast(q, bar.value) <=> x >= y
    BY DEF AtLeast
  <1>4. AtLeast(bar.value, q) <=> y >= x
    BY DEF AtLeast
  <1>5. CASE bar.dir = "below"
    <2>1. AtLeast(deep, q) \/ ~ AtLeast(q, bar.value)
      BY <1>5 DEF IsCrossed, EvalThreshold
    <2>2. deep = <<v1 * 100, v2 * WellAbove>>
      BY <1>5 DEF WellAboveLine, PerPercent
    <2>3. AtLeast(deep, q) <=> (v1 * 100) * d >= n * (v2 * WellAbove)
      BY <2>2 DEF AtLeast
    <2>4. (v1 * 100) * d = y * 100 /\ n * (v2 * WellAbove) = x * WellAbove
      BY <1>1, TimesRegroups
    <2> HIDE DEF x, y, v1, v2, deep, q
    <2>5. x * 100 <= x * WellAbove
      <3>1. 100 * x <= WellAbove * x
        BY <1>1, <1>2, TimesKeepsOrder
      <3> QED
        BY <1>1, <1>2, <3>1
    <2>6. x * WellAbove \in Int
      BY <1>1, <1>2
    <2>7. AtLeast(deep, q) => y >= x
      BY <1>2, <2>3, <2>4, <2>5, <2>6
    <2>8. AtLeast(bar.value, q)
      BY <1>2, <1>3, <1>4, <2>1, <2>7
    <2> QED
      BY <1>5, <2>8 DEF Beyond, q
  <1>6. CASE bar.dir # "below"
    <2>1. AtLeast(q, deep) \/ AtLeast(q, bar.value)
      BY <1>6 DEF IsCrossed, EvalThreshold
    <2>2. CASE bar.factor \in 1..99
      <3>1. deep = <<v1 * 100, v2 * bar.factor>>
        BY <1>6, <2>2 DEF WellAboveLine, PerPercent
      <3> DEFINE f == bar.factor
      <3>2. f \in Nat /\ f <= 100
        BY <2>2
      <3>3. AtLeast(q, deep) <=> n * (v2 * f) >= (v1 * 100) * d
        BY <3>1 DEF AtLeast
      <3>4. (v1 * 100) * d = y * 100 /\ n * (v2 * f) = x * f
        BY <1>1, <3>2, TimesRegroups
      <3> HIDE DEF x, y, v1, v2, deep, q, f
      <3>5. x * f <= x * 100
        <4>1. f * x <= 100 * x
          BY <1>2, <3>2, TimesKeepsOrder
        <4> QED
          BY <1>2, <3>2, <4>1
      <3>6. x * f \in Int
        BY <1>2, <3>2
      <3>7. AtLeast(q, deep) => x >= y
        BY <1>2, <3>3, <3>4, <3>5, <3>6
      <3>8. AtLeast(q, bar.value)
        BY <1>3, <2>1, <3>7
      <3> QED
        BY <1>6, <3>8 DEF Beyond, q
    <2>3. CASE bar.factor \notin 1..99
      <3>1. deep = <<v1 * WellAbove, v2 * 100>>
        BY <1>6, <2>3 DEF WellAboveLine, Percent
      <3>3. AtLeast(q, deep) <=> n * (v2 * 100) >= (v1 * WellAbove) * d
        BY <3>1 DEF AtLeast
      <3>4. (v1 * WellAbove) * d = y * WellAbove /\ n * (v2 * 100) = x * 100
        BY <1>1, TimesRegroups
      <3> HIDE DEF x, y, v1, v2, deep, q
      <3>5. y * 100 <= y * WellAbove
        <4>1. 100 * y <= WellAbove * y
          BY <1>1, <1>2, TimesKeepsOrder
        <4> QED
          BY <1>1, <1>2, <4>1
      <3>6. y * WellAbove \in Int
        BY <1>1, <1>2
      <3>7. AtLeast(q, deep) => x >= y
        BY <1>2, <3>3, <3>4, <3>5, <3>6
      <3>8. AtLeast(q, bar.value)
        BY <1>3, <2>1, <3>7
      <3> QED
        BY <1>6, <3>8 DEF Beyond, q
    <2> QED
      BY <2>2, <2>3
  <1> QED
    BY <1>5, <1>6

\* The latest reading is a newest one, and no older than any.
LEMMA LatestIsNewest ==
    ASSUME NEW ring, OnTime(ring)
    PROVE  Latest(ring) \in Samples /\ Latest(ring) \in Newest(Range(ring))
  <1> DEFINE n == Len(ring)
             newest == {i \in DOMAIN ring : \A j \in DOMAIN ring : ring[j].at <= ring[i].at}
             ats == {ring[i].at : i \in 1..n}
  <1>1. /\ DOMAIN ring = 1..n /\ n \in Nat /\ n >= 1 /\ instant \in Nat
        /\ \A i \in 1..n : ring[i] \in Samples /\ ring[i].at \in Nat /\ ring[i].at <= instant - (n - i)
    BY RingTyped DEF OnTime
  <1>2. \A i \in 1..n : ring[i].at \in 0..instant
    BY <1>1
  <1>3. ats \subseteq 0..instant /\ ats # {}
    BY <1>1, <1>2
  <1>4. Max(ats) \in ats /\ \A y \in ats : y <= Max(ats)
    BY <1>1, <1>3, GreatestExists
  <1>5. newest # {} /\ newest \subseteq Nat
    <2>1. PICK i \in 1..n : ring[i].at = Max(ats)
      BY <1>4
    <2>2. i \in newest
      BY <1>1, <1>4, <2>1
    <2>3. newest \subseteq DOMAIN ring
      OBVIOUS
    <2> HIDE DEF newest
    <2> QED
      BY <1>1, <2>2, <2>3
  <1>6. \E i \in newest : \A j \in newest : i <= j
    <2> HIDE DEF newest
    <2>1. Min(newest) \in newest /\ \A j \in newest : Min(newest) <= j
      BY <1>5, LeastExists
    <2> QED
      BY <2>1
  <1> DEFINE k == CHOOSE i \in newest : \A j \in newest : i <= j
  <1>7. k \in newest
    BY <1>6
  <1>8. Latest(ring) = ring[k]
    BY DEF Latest
  <1> HIDE DEF k
  <1>9. ring[k] \in Range(ring) /\ \A s \in Range(ring) : s.at <= ring[k].at
    BY <1>7 DEF Range
  <1> QED
    BY <1>1, <1>7, <1>8, <1>9 DEF Newest

-----------------------------------------------------------------------------
\* Counters that are read together have windows, and runs, that go in step.
LEMMA WindowsInStep ==
    ASSUME NEW a, OnTime(a), NEW b, OnTime(b), Parallel(a, b)
    PROVE  Parallel(WindowOf(a), WindowOf(b))
  <1> DEFINE p == LastN(a)
             q == LastN(b)
             n == Len(a) - Skipped(a)
             is == InWindow(p, instant)
             m == Cardinality(is)
             place == [k \in 1..m |-> PlaceAt(p, is, k)]
  <1>1. /\ p \in Seq(Samples) /\ Len(p) = n /\ \A i \in 1..n : p[i] = a[i + Skipped(a)] /\ i + Skipped(a) \in 1..Len(a)
        /\ q \in Seq(Samples) /\ Len(q) = n /\ \A i \in 1..n : q[i] = b[i + Skipped(a)]
    <2>1. Len(a) = Len(b) /\ Skipped(b) = Skipped(a)
      BY DEF Parallel, Skipped
    <2> QED
      BY <2>1, LastNIs DEF OnTime
  <1>2. \A i \in 1..n : p[i].at = q[i].at /\ p[i].src.restarts = q[i].src.restarts
    BY <1>1 DEF Parallel
  <1>3. DOMAIN p = 1..n /\ DOMAIN q = 1..n
    BY <1>1
  <1> HIDE DEF p, q, n
  <1>4. is \subseteq 1..n /\ InWindow(q, instant) = is
    BY <1>2, <1>3 DEF InWindow
  <1> HIDE DEF is
  <1>5. \A i \in is : Rank(q, is, i) = Rank(p, is, i)
    <2>1. \A i, j \in is : IsBefore(q, j, i) = IsBefore(p, j, i)
      BY <1>2, <1>4 DEF IsBefore
    <2>2. \A i \in is : {j \in is : IsBefore(q, j, i)} = {j \in is : IsBefore(p, j, i)}
      BY <2>1
    <2> QED
      BY <2>2 DEF Rank
  <1>6. \A k : PlaceAt(q, is, k) = PlaceAt(p, is, k)
    BY <1>5 DEF PlaceAt
  <1>7. \A k \in 1..m : PlaceAt(p, is, k) \in is
    BY <1>1, <1>3, <1>4, TimePlaces
  <1>8. m \in Nat
    BY <1>1, <1>3, <1>4, RanksTellApart
  <1> HIDE DEF m
  <1>9. WindowOf(a) = [k \in 1..m |-> p[PlaceAt(p, is, k)]]
    BY DEF WindowOf, ByTime, PlaceAt, p, is, m
  <1>10. WindowOf(b) = [k \in 1..m |-> q[PlaceAt(q, is, k)]]
    <2>1. WindowOf(b) = ByTime(q, is)
      BY <1>4 DEF WindowOf, q
    <2> QED
      BY <2>1 DEF ByTime, PlaceAt, m
  <1> DEFINE x == WindowOf(a)
             y == WindowOf(b)
  <1>11. Len(x) = m /\ Len(y) = m
    BY <1>8, <1>9, <1>10
  <1>12. ASSUME NEW k \in 1..m PROVE x[k].at = y[k].at /\ x[k].src.restarts = y[k].src.restarts
    <2>1. x[k] = p[PlaceAt(p, is, k)] /\ y[k] = q[PlaceAt(p, is, k)]
      BY <1>6, <1>9, <1>10
    <2>2. PlaceAt(p, is, k) \in 1..n
      BY <1>4, <1>7
    <2> QED
      BY <1>2, <2>1, <2>2
  <1> HIDE DEF x, y
  <1> QED
    BY <1>11, <1>12 DEF Parallel, x, y

LEMMA RunsInStep ==
    ASSUME NEW x \in Seq(Samples), NEW y \in Seq(Samples), Parallel(x, y), Len(x) >= 1
    PROVE  Parallel(LatestRun(x), LatestRun(y))
  <1>1. Len(x) \in Nat /\ Len(y) = Len(x) /\ \A i \in 1..Len(x) : x[i].at = y[i].at /\ x[i].src.restarts = y[i].src.restarts
    BY DEF Parallel
  <1>2. Gaps(x) = Gaps(y)
    <2>1. \A i \in 2..Len(x) : x[i].at = y[i].at /\ x[i - 1].at = y[i - 1].at
      BY <1>1
    <2> QED
      BY <1>1, <2>1 DEF Gaps
  <1>3. Cut(x) = Cut(y)
    BY <1>2 DEF Cut
  <1> DEFINE c == Cut(x)
             p == LatestRun(x)
             q == LatestRun(y)
  <1>4. IsRun(p, x, c) /\ IsRun(q, y, c)
    BY <1>1, <1>3, LatestRunIs DEF HasRun
  <1> HIDE DEF c, p, q
  <1>5. /\ Len(p) = Len(x) - c + 1 /\ Len(q) = Len(x) - c + 1
        /\ \A i \in 1..Len(p) : p[i] = x[i + c - 1] /\ i + c - 1 \in 1..Len(x)
        /\ \A i \in 1..Len(q) : q[i] = y[i + c - 1]
    BY <1>1, <1>4 DEF IsRun
  <1>6. \A i \in 1..Len(p) : p[i].at = q[i].at /\ p[i].src.restarts = q[i].src.restarts
    BY <1>1, <1>5
  <1> QED
    BY <1>5, <1>6 DEF Parallel, p, q

\* A counter's share of a ratio is what its latest run counted.
RunCounts(run, v, w) ==
    /\ Len(run) \in Nat /\ Len(run) >= 1
    /\ \A k \in 1..Len(run) : run[k] \in w /\ run[k].src.total \in Nat
    /\ run[1].at <= run[Len(run)].at
    /\ DeltaIs(run, v)

LEMMA LatestRunCounts ==
    ASSUME NEW ring, OnTime(ring), IsOne(Range(ring)), NEW v \in WindowValue(ring, "counter", instant)
    PROVE  RunCounts(LatestRun(WindowOf(ring)), v.value, Recently(Range(ring))) /\ Len(WindowOf(ring)) >= 1
  <1> DEFINE win == WindowOf(ring)
             run == LatestRun(win)
             rate == EvalRate(LastN(ring), instant)
             w == Recently(Range(ring))
             newest == Latest(ring)
             c == Cut(win)
  <1>1. IsWindow(win, Range(ring))
    BY WindowIsWhole
  <1>2. \A x, d : IsRun(x, win, d) => OfOne(x)
    BY <1>1, RunsOfOne
  <1>3. Len(win) \in Nat /\ win \in Seq(Samples) /\ \A k \in 1..Len(win) : win[k] \in w
    BY <1>1 DEF IsWindow
  <1>4. rate.samples = Len(win) /\ (Len(win) >= 2 => rate.delta = WindowDelta(run))
    BY <1>3, RateIs DEF RateOver
  <1>5. ~ (rate.samples < 2) /\ v.value = rate.delta
    <2>1. v \in IF rate.samples < 2 THEN {} ELSE {[value |-> rate.delta, at |-> newest.at]}
      BY DEF WindowValue
    <2> HIDE DEF rate, newest
    <2> QED
      BY <2>1
  <1> HIDE DEF win, rate, w
  <1>6. Len(win) >= 1 /\ v.value = WindowDelta(run)
    BY <1>3, <1>4, <1>5
  <1>7. IsRun(run, win, c)
    BY <1>3, <1>6, LatestRunIs DEF HasRun
  <1> HIDE DEF run, c
  <1>8. /\ Len(run) \in Nat /\ Len(run) >= 1
        /\ \A k \in 1..Len(run) : run[k] = win[k + c - 1] /\ k + c - 1 \in 1..Len(win)
    BY <1>7 DEF IsRun
  <1>9. OfOne(run)
    BY <1>2, <1>7
  <1>10. DeltaIs(run, v.value)
    BY <1>6, <1>8, <1>9, RisesAddUp
  <1>11. \A k \in 1..Len(run) : run[k] \in w /\ run[k].src.total \in Nat
    BY <1>3, <1>8, <1>9, OfOneTyped
  <1>12. run[1].at <= run[Len(run)].at
    <2>1. 1 \in 1..Len(run) /\ Len(run) \in 1..Len(run) /\ 1 <= Len(run)
      BY <1>8
    <2> QED
      BY <1>9, <2>1 DEF OfOne
  <1> QED
    BY <1>6, <1>8, <1>10, <1>11, <1>12 DEF RunCounts, run, win, w

LEMMA TogetherInStep ==
    ASSUME ObserveInv, NEW id \in DOMAIN rings, NEW div \in DOMAIN rings,
           id.metric \in Counter, div.metric \in Counter, id.cei.uid = div.cei.uid
    PROVE  Parallel(rings[id], rings[div])
  <1>1. ASSUME NEW j \in DOMAIN rings, j.metric \in Counter PROVE \E u : j = CounterStream(j.metric, u)
    <2> DEFINE ring == rings[j]
    <2>1. OnTime(ring) /\ \A s \in Range(ring) : j = CounterStream(j.metric, s.src.uid)
      BY <1>1, CounterRingIs
    <2>2. Range(ring) # {}
      <3> HIDE DEF ring
      <3>1. ring \in Seq(Samples) /\ ring # <<>>
        BY <2>1 DEF OnTime
      <3>2. 1 \in DOMAIN ring
        BY <3>1
      <3> QED
        BY <3>2 DEF Range
    <2> QED
      BY <2>1, <2>2
  <1>2. PICK u : id = CounterStream(id.metric, u)
    BY <1>1
  <1>3. PICK v : div = CounterStream(div.metric, v)
    BY <1>1
  <1>4. u = v
    BY <1>2, <1>3, StreamTells
  <1>5. RingOf(rings, id) = rings[id] /\ RingOf(rings, div) = rings[div]
    BY DEF RingOf
  <1>6. Parallel(RingOf(rings, CounterStream("counter", u)), RingOf(rings, CounterStream("periods", u)))
    BY DEF ObserveInv, Paired
  <1>7. \A a, b : Parallel(a, a) /\ (Parallel(a, b) => Parallel(b, a))
    BY DEF Parallel
  <1>8. /\ id.metric = "counter" \/ id.metric = "periods"
        /\ div.metric = "counter" \/ div.metric = "periods"
    BY MetricsDiffer
  <1> QED
    BY <1>2, <1>3, <1>4, <1>5, <1>6, <1>7, <1>8

LEMMA RatioOfCounters ==
    ASSUME ObserveInv, NEW id \in DOMAIN rings, NEW div \in DOMAIN rings,
           id.metric \in Counter, div.metric \in Counter, id.cei.uid = div.cei.uid,
           NEW num \in WindowValue(rings[id], "counter", instant),
           NEW den \in WindowValue(rings[div], "counter", instant), den.value # 0,
           NEW bar, bar.value \in Nat \X (Nat \ {0}), AtLeast(<<num.value, den.value>>, bar.value)
    PROVE  RatioWasCounted(Recently(Range(rings[id])), Recently(Range(rings[div])), bar)
  <1> DEFINE a == rings[id]
             b == rings[div]
             p == LatestRun(WindowOf(a))
             q == LatestRun(WindowOf(b))
             w == Recently(Range(a))
             o == Recently(Range(b))
             n == Len(p)
             s == p[1]
             z == p[n]
             c == q[1]
             d == q[n]
  <1>1. OnTime(a) /\ IsOne(Range(a)) /\ OnTime(b) /\ IsOne(Range(b)) /\ Parallel(a, b)
    BY CounterRingIs, CounterRings, TogetherInStep
  <1>2. RunCounts(p, num.value, w) /\ Len(WindowOf(a)) >= 1 /\ RunCounts(q, den.value, o)
    BY <1>1, LatestRunCounts
  <1>3. Parallel(p, q)
    <2>1. Parallel(WindowOf(a), WindowOf(b))
      BY <1>1, WindowsInStep
    <2>2. WindowOf(a) \in Seq(Samples) /\ WindowOf(b) \in Seq(Samples)
      BY <1>1, WindowIsWhole DEF IsWindow
    <2> QED
      BY <1>2, <2>1, <2>2, RunsInStep
  <1> HIDE DEF p, q, w, o, a, b
  <1>4. /\ n \in Nat /\ n >= 1 /\ Len(q) = n /\ 1 \in 1..n /\ n \in 1..n
        /\ \A k \in 1..n : p[k].at = q[k].at /\ p[k].src.restarts = q[k].src.restarts
        /\ \A k \in 1..n : p[k] \in w /\ p[k].src.total \in Nat /\ q[k] \in o /\ q[k].src.total \in Nat
        /\ p[1].at <= p[n].at
    BY <1>2, <1>3 DEF RunCounts, Parallel
  <1>5. DeltaIs(p, num.value) /\ DeltaIs(q, den.value) /\ num.value \in Nat /\ den.value \in Nat
    BY <1>2 DEF RunCounts, DeltaIs
  <1>6. /\ s \in w /\ z \in w /\ c \in o /\ d \in o /\ s.at <= z.at /\ s.at = c.at /\ z.at = d.at
        /\ s.src.total \in Nat /\ z.src.total \in Nat /\ c.src.total \in Nat /\ d.src.total \in Nat
    BY <1>4
  <1>7. num.value <= Happened(s, z) /\ Happened(s, z) \in Int
    <2>1. s.src.total + num.value <= z.src.total
      BY <1>5 DEF DeltaIs
    <2> QED
      BY <1>5, <1>6, <2>1 DEF Happened
  <1>8. ASSUME bar.value[1] > 0 PROVE Happened(s, z) > 0
    <2>1. bar.value[1] \in Nat /\ bar.value[2] \in Nat
      OBVIOUS
    <2>2. num.value * bar.value[2] >= bar.value[1] * den.value
      BY DEF AtLeast
    <2>3. bar.value[1] * den.value > 0
      <3>1. bar.value[1] <= bar.value[1] * den.value
        <4>1. 1 * bar.value[1] <= den.value * bar.value[1]
          BY <1>5, <2>1, TimesKeepsOrder
        <4> QED
          BY <1>5, <2>1, <4>1
      <3> QED
        BY <1>5, <1>8, <2>1, <3>1
    <2>4. num.value # 0
      <3>1. 0 * bar.value[2] = 0
        BY <2>1
      <3>2. bar.value[1] * den.value \in Int
        BY <1>5, <2>1
      <3> QED
        BY <2>2, <2>3, <3>1, <3>2
    <2> QED
      BY <1>5, <1>7, <2>4
  <1>9. ASSUME \A x, y \in w : x.src.restarts = y.src.restarts
        PROVE  Happened(c, d) > 0 /\ AtLeast(<<Happened(s, z), Happened(c, d)>>, bar.value)
    <2>1. NoRestart(q)
      BY <1>4, <1>9 DEF NoRestart
    <2>2. Happened(c, d) = den.value
      BY <1>4, <1>5, <1>6, <2>1 DEF DeltaIs, Happened
    <2>3. AtLeast(<<Happened(s, z), den.value>>, bar.value)
      BY <1>5, <1>7, MoreIsAtLeast
    <2> QED
      BY <1>5, <2>2, <2>3
  <1> HIDE DEF s, z, c, d
  <1>10. RatioWasCounted(w, o, bar)
    BY <1>6, <1>8, <1>9 DEF RatioWasCounted
  <1> QED
    BY <1>10 DEF w, o, a, b

-----------------------------------------------------------------------------
\* The single stream of a binding is all the readings there are of it.
LEMMA OneStreamIsAll ==
    ASSUME NEW uid, NEW metric, NEW id, StreamsFor(rings, uid, metric) = {id}
    PROVE  id \in DOMAIN rings /\ id.metric = metric /\ Readings(uid, metric) = Range(rings[id])
  <1>1. {i \in DOMAIN rings : i.cei.uid = uid /\ i.metric = metric} = {id}
    BY DEF StreamsFor
  <1>2. Readings(uid, metric) = UNION {Range(rings[i]) : i \in {id}}
    BY <1>1 DEF Readings
  <1> QED
    BY <1>1, <1>2

LEMMA TheStreamIsAll ==
    ASSUME NEW b, NEW id \in TheStream(b, rings)
    PROVE  id \in DOMAIN rings /\ id.metric = b.metric /\ Readings(b.uid, b.metric) = Range(rings[id])
  <1>1. StreamsFor(rings, b.uid, b.metric) = {id}
    BY DEF TheStream
  <1> QED
    BY <1>1, OneStreamIsAll

LEMMA CounterRates ==
    ASSUME ObserveInv, NEW id \in DOMAIN rings, NEW metric \in DOMAIN Types, Types[metric] = "counter", id.metric = metric,
           metric \notin Labelled
    PROVE  /\ TrueRate(EvalRate(LastN(rings[id]), instant), Recently(Range(rings[id])))
           /\ TrueSilence(EvalRate(LastN(rings[id]), instant), Recently(Range(rings[id])))
  <1>1. id.metric \in Counter
    BY BindingAssumption
  <1>2. IsOne(Range(rings[id])) /\ OnTime(rings[id])
    BY <1>1, CounterRings, RingsAreOnTime
  <1> QED
    BY <1>2, RateIsTrue

LEMMA CounterTotals ==
    ASSUME ObserveInv, NEW id \in DOMAIN rings, NEW metric \in DOMAIN Types, Types[metric] = "counter", id.metric = metric,
           metric \notin Labelled
    PROVE  \A a, b \in Recently(Range(rings[id])) : Happened(a, b) \in Int
  <1>1. IsOne(Range(rings[id]))
    BY BindingAssumption, CounterRings
  <1>2. \A s \in Range(rings[id]) : s.src.total \in Nat
    BY <1>1 DEF IsOne, PodSources
  <1> QED
    BY <1>2 DEF Recently, Happened

LEMMA GuardsAreHonest ==
    ASSUME ObserveInv, NEW b \in Bindings, Single(b), b.kind = "rate-of-change", Types[b.metric] = "counter",
           NEW id \in TheStream(b, rings), NEW r \in EvalRateGuard(b, rings[id], instant), ~ r.inconclusive
    PROVE  GuardIsHonest(r)
  <1> DEFINE rate == EvalRate(LastN(rings[id]), instant)
             w == Recently(Range(rings[id]))
             bar == b.bar.value
             all == AtLeast(Whole(rate.delta), bar)
             unclear == IsInconclusive(rate)
  <1>0. b.metric \notin Labelled /\ b.divisor \notin Labelled
    BY DEF Single
  <1>1. id \in DOMAIN rings /\ id.metric = b.metric /\ Readings(b.uid, b.metric) = Range(rings[id])
    BY TheStreamIsAll
  <1>2. bar \in Nat \X (Nat \ {0}) /\ bar[1] > 0 /\ b.metric \in DOMAIN Types
    BY BindingAssumption
  <1>3. TrueRate(rate, w) /\ TrueSilence(rate, w)
    BY <1>0, <1>1, <1>2, CounterRates
  <1>4. \A x, y \in w : Happened(x, y) \in Int
    BY <1>0, <1>1, <1>2, CounterTotals
  <1>5. /\ r.binding = b /\ r.delta = rate.delta /\ r.gapBroken = rate.gapBroken
        /\ r.breached = (all /\ ~ unclear) /\ r.inconclusive = unclear
    BY DEF EvalRateGuard
  <1>6. Recently(Readings(r.binding.uid, r.binding.metric)) = w /\ r.binding.bar.value = bar
    BY <1>1, <1>5
  <1> HIDE DEF rate, w, bar
  <1>7. unclear <=> rate.gapBroken /\ rate.elapsed <= 0
    BY DEF IsInconclusive
  <1>8. all <=> rate.delta * bar[2] >= bar[1]
    <2>1. bar[1] \in Nat /\ bar[2] \in Nat /\ rate.delta \in Nat
      BY <1>2, <1>3 DEF TrueRate
    <2> QED
      BY <2>1 DEF AtLeast, Whole
  <1> HIDE DEF all, unclear
  <1>9. ~ unclear /\ (r.breached => all) /\ (all => r.breached)
    BY <1>5
  <1>10. rate.delta \in Nat /\ rate.elapsed \in Nat
    BY <1>3 DEF TrueRate
  <1>11. ASSUME r.breached PROVE \E x, y \in w : x.at <= y.at /\ AtLeast(Whole(Happened(x, y)), bar)
    <2>1. rate.delta # 0
      <3>1. rate.delta * bar[2] >= bar[1] /\ bar[1] > 0 /\ bar[1] \in Nat /\ bar[2] \in Nat
        BY <1>2, <1>8, <1>9, <1>11
      <3>2. 0 * bar[2] = 0
        BY <3>1
      <3> QED
        BY <3>1, <3>2
    <2>2. PICK x \in w, y \in w : x.at <= y.at /\ rate.delta <= Happened(x, y)
      BY <1>3, <2>1 DEF TrueRate
    <2>3. AtLeast(<<rate.delta, 1>>, bar)
      BY <1>9, <1>11 DEF all, Whole
    <2>4. AtLeast(<<Happened(x, y), 1>>, bar)
      BY <1>2, <1>4, <1>10, <2>2, <2>3, MoreIsAtLeast
    <2> QED
      BY <2>2, <2>4 DEF Whole
  <1>12. ASSUME ~ r.breached, \E x, y \in w : x.at < y.at
         PROVE  /\ \E x \in w, z \in Newest(w) : x.at \in (z.at - 2 * ScrapeInterval)..(z.at - 1)
                /\ ~ r.gapBroken /\ (\A x, y \in w : x.src.restarts = y.src.restarts) =>
                      \A x, y \in w : ~ AtLeast(Whole(Happened(x, y)), bar)
    <2>1. rate.gapBroken => rate.elapsed > 0
      BY <1>7, <1>9, <1>10
    <2>2. \E x \in w, z \in Newest(w) : x.at \in (z.at - 2 * ScrapeInterval)..(z.at - 1)
      BY <1>3, <1>12, <2>1 DEF TrueSilence
    <2>3. ASSUME ~ r.gapBroken, \A x, y \in w : x.src.restarts = y.src.restarts, NEW x \in w, NEW y \in w,
                 AtLeast(Whole(Happened(x, y)), bar)
          PROVE  FALSE
      <3>1. Happened(x, y) <= rate.delta
        BY <1>3, <1>5, <1>12, <2>3 DEF TrueSilence
      <3> DEFINE h == Happened(x, y)
      <3>2. h \in Int /\ h <= rate.delta
        BY <1>4, <3>1
      <3>3. h * bar[2] >= bar[1]
        <4>1. bar[1] \in Nat
          BY <1>2
        <4> QED
          BY <2>3, <4>1 DEF AtLeast, Whole
      <3> HIDE DEF h
      <3>4. bar[1] \in Nat /\ bar[2] \in Nat
        BY <1>2
      <3>5. h * bar[2] <= rate.delta * bar[2]
        BY <1>10, <3>2, <3>4, TimesKeepsOrder
      <3>6. h * bar[2] \in Int /\ rate.delta * bar[2] \in Int
        BY <1>10, <3>2, <3>4
      <3>7. rate.delta * bar[2] >= bar[1]
        BY <3>3, <3>4, <3>5, <3>6
      <3> QED
        BY <1>8, <1>9, <1>12, <3>7
    <2> QED
      BY <2>2, <2>3
  <1> QED
    BY <1>6, <1>11, <1>12 DEF GuardIsHonest

\* What a ratio divides is as true, and as fresh, as its stream.
LEMMA WindowValueIsTrue ==
    ASSUME ObserveInv, NEW id \in DOMAIN rings, NEW metric \in DOMAIN Types, id.metric = metric, metric \notin Labelled,
           NEW v \in WindowValue(rings[id], Types[metric], instant)
    PROVE  /\ v.value \in Nat
           /\ \E s \in Newest(Range(rings[id])) : v.at = s.at /\ (Types[metric] # "counter" => v.value = s.value)
           /\ Types[metric] = "counter" =>
                 \E a, z \in Recently(Range(rings[id])) : a.at <= z.at /\ v.value <= Happened(a, z)
  <1> DEFINE ring == rings[id]
             rate == EvalRate(LastN(ring), instant)
             w == Recently(Range(ring))
             newest == Latest(ring)
  <1>1. newest \in Samples /\ newest \in Newest(Range(ring))
    BY RingsAreOnTime, LatestIsNewest
  <1>2. newest.value \in Nat
    BY <1>1, SampleTyped
  <1>3. Types[metric] = "counter" => TrueRate(rate, w)
    BY CounterRates
  <1>4. CASE Types[metric] = "counter"
    <2>1. rate.samples >= 2 /\ v.value = rate.delta /\ v.at = newest.at
      <3>1. v \in IF rate.samples < 2 THEN {} ELSE {[value |-> rate.delta, at |-> newest.at]}
        BY <1>4 DEF WindowValue
      <3>2. rate.samples \in Nat
        BY <1>3, <1>4 DEF TrueRate
      <3> HIDE DEF rate, newest
      <3> QED
        BY <3>1, <3>2
    <2> HIDE DEF rate, w, newest
    <2>2. /\ rate.delta \in Nat
          /\ \E a, z \in w : a.at <= z.at /\ rate.delta <= Happened(a, z)
      BY <1>3, <1>4, <2>1 DEF TrueRate
    <2> QED
      BY <1>1, <1>4, <2>1, <2>2 DEF w
  <1>5. CASE Types[metric] # "counter"
    <2>1. v.value = newest.value /\ v.at = newest.at
      <3>1. v \in {[value |-> newest.value, at |-> newest.at]}
        BY <1>5 DEF WindowValue
      <3> HIDE DEF newest
      <3> QED
        BY <3>1
    <2> HIDE DEF newest
    <2> QED
      BY <1>1, <1>2, <1>5, <2>1
  <1> QED
    BY <1>4, <1>5

LEMMA FreshWhenNotStale ==
    ASSUME NEW readings, readings \subseteq Samples, NEW s \in Newest(readings), instant \in Nat,
           NEW at \in Nat, at <= s.at, ~ IsStale(at, instant)
    PROVE  IsFresh(readings)
  <1>1. s \in readings /\ s.at \in Nat
    BY SampleTyped DEF Newest
  <1>2. instant - s.at <= Watermark
    BY <1>1, FingerprintAssumption DEF IsStale
  <1> QED
    BY <1>1, <1>2 DEF IsFresh

LEMMA RingReadings ==
    ASSUME ObserveInv, NEW id \in DOMAIN rings, id.metric \notin Labelled
    PROVE  Range(rings[id]) \subseteq Samples /\ instant \in Nat
  <1> DEFINE ring == rings[id]
  <1>1. OnTime(ring)
    BY RingsAreOnTime
  <1> HIDE DEF ring
  <1>2. \A i \in 1..Len(ring) : ring[i] \in Samples
    BY <1>1, RingTyped DEF OnTime
  <1> QED
    BY <1>1, <1>2 DEF OnTime, Range, ring

LEMMA ThresholdIs ==
    ASSUME NEW b, NEW q, NEW slope, NEW at, NEW time, NEW t \in ThresholdOf(b, q, slope, at, time)
    PROVE  t.binding = b /\ t.state = EvalThreshold(q, b.bar) /\ t.stale = IsStale(at, time)
  <1> DEFINE state == EvalThreshold(q, b.bar)
             stale == IsStale(at, time)
  <1>1. t = [binding |-> b, state |-> state, value |-> q, slope |-> slope, stale |-> stale]
    BY DEF ThresholdOf
  <1> HIDE DEF state, stale
  <1>2. t.binding = b /\ t.state = state /\ t.stale = stale
    BY <1>1
  <1> QED
    BY <1>2 DEF state, stale

LEMMA BindingOfThreshold ==
    ASSUME NEW b, NEW id, NEW t \in EvalThresholdVar(b, rings[id], rings, Types, instant)
    PROVE  t.binding = b
  <1>1. ASSUME NEW q, NEW slope, NEW at, t \in ThresholdOf(b, q, slope, at, instant) PROVE t.binding = b
    BY <1>1, ThresholdIs
  <1>2. CASE IsRatio(b)
    <2>1. t \in EvalRatio(b, rings[id], rings, Types, instant)
      BY <1>2 DEF EvalThresholdVar
    <2>2. PICK div \in StreamsFor(rings, b.uid, b.divisor) :
            \E den \in WindowValue(rings[div], Types[b.divisor], instant) :
            \E num \in WindowValue(rings[id], Types[b.metric], instant) :
               t \in ThresholdOf(b, <<num.value, den.value>>, Level, Older(num.at, den.at), instant)
      BY <2>1 DEF EvalRatio
    <2>3. PICK den \in WindowValue(rings[div], Types[b.divisor], instant) :
            \E num \in WindowValue(rings[id], Types[b.metric], instant) :
               t \in ThresholdOf(b, <<num.value, den.value>>, Level, Older(num.at, den.at), instant)
      BY <2>2
    <2>4. PICK num \in WindowValue(rings[id], Types[b.metric], instant) :
            t \in ThresholdOf(b, <<num.value, den.value>>, Level, Older(num.at, den.at), instant)
      BY <2>3
    <2> QED
      BY <1>1, <2>4
  <1>3. CASE ~ IsRatio(b)
    <2>1. \E q, slope, at : t \in ThresholdOf(b, q, slope, at, instant)
      BY <1>3 DEF EvalThresholdVar
    <2> QED
      BY <1>1, <2>1
  <1> QED
    BY <1>2, <1>3

LEMMA BarInCores ==
    ASSUME NEW d \in Nat, NEW e \in Nat, NEW bar, bar.value \in Nat \X (Nat \ {0})
    PROVE  /\ InCores(bar) \in Nat \X (Nat \ {0})
           /\ AtLeast(<<IF bar.unit = "millicores" THEN 1000 * d ELSE d, e>>, bar.value) => AtLeast(<<d, e>>, InCores(bar))
  <1> DEFINE v1 == bar.value[1]
             v2 == bar.value[2]
  <1>1. v1 \in Nat /\ v2 \in Nat \ {0} /\ bar.value = <<v1, v2>>
    OBVIOUS
  <1> HIDE DEF v1, v2
  <1>2. 1000 * v2 \in Nat \ {0} /\ (1000 * d) * v2 = d * (1000 * v2)
    BY <1>1
  <1>3. CASE bar.unit = "millicores"
    <2>1. InCores(bar) = <<v1, 1000 * v2>>
      BY <1>3 DEF InCores, v1, v2
    <2>2. AtLeast(<<1000 * d, e>>, bar.value) <=> (1000 * d) * v2 >= v1 * e
      BY DEF AtLeast, v1, v2
    <2>3. AtLeast(<<d, e>>, <<v1, 1000 * v2>>) <=> d * (1000 * v2) >= v1 * e
      BY DEF AtLeast
    <2> QED
      BY <1>1, <1>2, <1>3, <2>1, <2>2, <2>3
  <1>4. CASE bar.unit # "millicores"
    BY <1>4 DEF InCores
  <1> QED
    BY <1>3, <1>4

LEMMA PlainCrossings ==
    ASSUME ObserveInv, NEW b \in Bindings, Single(b), ~ IsRatio(b), NEW id \in TheStream(b, rings),
           NEW t \in EvalThresholdVar(b, rings[id], rings, Types, instant), ~ t.stale, IsCrossed(t.state)
    PROVE  CrossingIsHonest(t.binding)
  <1> DEFINE ring == rings[id]
             own == Range(ring)
             rate == EvalRate(LastN(ring), instant)
             newest == Latest(ring)
             bar == b.bar
             w == Recently(own)
  <1>0. b.metric \notin Labelled /\ b.divisor \notin Labelled
    BY DEF Single
  <1>1. id \in DOMAIN rings /\ id.metric = b.metric /\ Readings(b.uid, b.metric) = own
    BY TheStreamIsAll
  <1>2. bar.value \in Nat \X (Nat \ {0}) /\ b.metric \in DOMAIN Types
    BY BindingAssumption
  <1>3. newest \in Samples /\ newest \in Newest(own) /\ newest.at \in Nat /\ newest.value \in Nat
    BY <1>0, <1>1, RingsAreOnTime, LatestIsNewest, SampleTyped
  <1>4. own \subseteq Samples /\ instant \in Nat
    BY <1>0, <1>1, RingReadings
  <1>5. Types[b.metric] = "counter" => TrueRate(rate, w) /\ \A x, y \in w : Happened(x, y) \in Int
    BY <1>0, <1>1, <1>2, CounterRates, CounterTotals
  <1> DEFINE slope == EvalGaugeSlope(LastN(ring), instant)
             read == IF bar.unit = "millicores" THEN 1000 * rate.delta ELSE rate.delta
  <1>6. /\ Types[b.metric] = "counter" =>
              ~ (rate.elapsed <= 0) /\ t \in ThresholdOf(b, <<read, rate.elapsed>>, Level, newest.at, instant)
        /\ Types[b.metric] # "counter" =>
              t \in ThresholdOf(b, <<newest.value, 1>>, slope, newest.at, instant)
    BY DEF EvalThresholdVar, PerSecond, Whole
  <1>11. Types[b.metric] = "counter" => rate.delta \in Nat /\ read \in Nat
    BY <1>5 DEF TrueRate
  <1> HIDE DEF ring, own, rate, newest, w, slope, read
  <1>7. /\ t.binding = b /\ t.stale = IsStale(newest.at, instant)
        /\ Types[b.metric] = "counter" => ~ (rate.elapsed <= 0) /\ t.state = EvalThreshold(<<read, rate.elapsed>>, bar)
        /\ Types[b.metric] # "counter" => t.state = EvalThreshold(<<newest.value, 1>>, bar)
    BY <1>6, ThresholdIs
  <1>8. IsFresh(own)
    BY <1>3, <1>4, <1>7, FreshWhenNotStale
  <1>9. ASSUME Types[b.metric] # "counter" PROVE \E s \in Newest(own) : Beyond(Whole(s.value), bar)
    <2>1. Beyond(<<newest.value, 1>>, bar)
      BY <1>2, <1>3, <1>7, <1>9, CrossingIsBeyond
    <2> QED
      BY <1>3, <2>1 DEF Whole
  <1>10. ASSUME Types[b.metric] = "counter", bar.dir # "below"
         PROVE  \E s, z \in w : s.at < z.at /\ AtLeast(<<Happened(s, z), z.at - s.at>>, InCores(bar))
    <2>1. rate.delta \in Nat /\ rate.elapsed \in Nat /\ rate.elapsed > 0 /\ read \in Nat
      BY <1>5, <1>7, <1>10, <1>11 DEF TrueRate
    <2>2. Beyond(<<read, rate.elapsed>>, bar)
      BY <1>2, <1>7, <1>10, <2>1, CrossingIsBeyond
    <2>3. AtLeast(<<read, rate.elapsed>>, bar.value)
      BY <1>10, <2>2 DEF Beyond
    <2>4. InCores(bar) \in Nat \X (Nat \ {0}) /\ AtLeast(<<rate.delta, rate.elapsed>>, InCores(bar))
      BY <1>2, <2>1, <2>3, BarInCores DEF read
    <2>5. rate.samples >= 2
      BY <1>5, <1>10, <2>1 DEF TrueRate
    <2>6. PICK s \in w, z \in w : s.at <= z.at /\ rate.delta <= Happened(s, z) /\ z.at - s.at = rate.elapsed
      BY <1>5, <1>10, <2>5 DEF TrueRate
    <2>7. AtLeast(<<Happened(s, z), rate.elapsed>>, InCores(bar))
      BY <1>5, <1>10, <2>1, <2>4, <2>6, MoreIsAtLeast
    <2>8. s.at \in Nat /\ z.at \in Nat
      BY <1>4, SampleTyped DEF w, Recently
    <2>9. s.at < z.at
      BY <2>1, <2>6, <2>8
    <2> QED
      BY <2>6, <2>7, <2>9
  <1> QED
    BY <1>1, <1>7, <1>8, <1>9, <1>10 DEF CrossingIsHonest, w

LEMMA RatioCrossings ==
    ASSUME ObserveInv, NEW b \in Bindings, Single(b), IsRatio(b), NEW id \in TheStream(b, rings),
           NEW t \in EvalThresholdVar(b, rings[id], rings, Types, instant), ~ t.stale, IsCrossed(t.state)
    PROVE  CrossingIsHonest(t.binding)
  <1> DEFINE own == Range(rings[id])
             bar == b.bar
             w == Recently(own)
             divs == StreamsFor(rings, b.uid, b.divisor)
  <1>0. b.metric \notin Labelled /\ b.divisor \notin Labelled
    BY DEF Single
  <1>1. id \in DOMAIN rings /\ id.metric = b.metric /\ Readings(b.uid, b.metric) = own
    BY TheStreamIsAll
  <1>2. bar.value \in Nat \X (Nat \ {0}) /\ b.metric \in DOMAIN Types /\ b.divisor \in DOMAIN Types
    BY BindingAssumption
  <1>3. t \in EvalRatio(b, rings[id], rings, Types, instant)
    BY DEF EvalThresholdVar
  <1>4. PICK div \in divs :
          /\ divs = {div}
          /\ \E den \in WindowValue(rings[div], Types[b.divisor], instant) :
             \E num \in WindowValue(rings[id], Types[b.metric], instant) :
                /\ den.value # 0
                /\ t \in ThresholdOf(b, <<num.value, den.value>>, Level, Older(num.at, den.at), instant)
    BY <1>3 DEF EvalRatio
  <1>5. PICK den \in WindowValue(rings[div], Types[b.divisor], instant) :
          \E num \in WindowValue(rings[id], Types[b.metric], instant) :
             /\ den.value # 0
             /\ t \in ThresholdOf(b, <<num.value, den.value>>, Level, Older(num.at, den.at), instant)
    BY <1>4
  <1>6. PICK num \in WindowValue(rings[id], Types[b.metric], instant) :
          /\ den.value # 0
          /\ t \in ThresholdOf(b, <<num.value, den.value>>, Level, Older(num.at, den.at), instant)
    BY <1>5
  <1> DEFINE other == Range(rings[div])
  <1>7. div \in DOMAIN rings /\ div.metric = b.divisor /\ Readings(b.uid, b.divisor) = other
    BY <1>4, OneStreamIsAll
  <1>8. /\ num.value \in Nat
        /\ \E s \in Newest(own) : num.at = s.at /\ (Types[b.metric] # "counter" => num.value = s.value)
        /\ Types[b.metric] = "counter" => \E a, z \in w : a.at <= z.at /\ num.value <= Happened(a, z)
    BY <1>0, <1>1, <1>2, WindowValueIsTrue
  <1>9. /\ den.value \in Nat
        /\ \E s \in Newest(other) : den.at = s.at /\ (Types[b.divisor] # "counter" => den.value = s.value)
    BY <1>0, <1>2, <1>7, WindowValueIsTrue
  <1>10. own \subseteq Samples /\ other \subseteq Samples /\ instant \in Nat
    BY <1>0, <1>1, <1>7, RingReadings
  <1>11. Types[b.metric] = "counter" => \A x, y \in w : Happened(x, y) \in Int
    BY <1>0, <1>1, <1>2, CounterTotals
  <1>22. ASSUME Types[b.metric] = "counter", Types[b.divisor] = "counter", AtLeast(<<num.value, den.value>>, bar.value)
         PROVE  RatioWasCounted(w, Recently(other), bar)
    <2>1. id.metric \in Counter /\ div.metric \in Counter
      BY <1>0, <1>1, <1>2, <1>7, <1>22, BindingAssumption
    <2>2. id.cei.uid = div.cei.uid
      BY <1>4 DEF TheStream, StreamsFor
    <2>3. num \in WindowValue(rings[id], "counter", instant) /\ den \in WindowValue(rings[div], "counter", instant)
      BY <1>22
    <2> QED
      BY <1>1, <1>2, <1>6, <1>7, <1>22, <2>1, <2>2, <2>3, RatioOfCounters
  <1> HIDE DEF own, other, w, divs
  <1>12. t.binding = b /\ t.stale = IsStale(Older(num.at, den.at), instant) /\ t.state = EvalThreshold(<<num.value, den.value>>, bar)
    BY <1>6, ThresholdIs
  <1>13. PICK s \in Newest(own) : num.at = s.at
    BY <1>8
  <1>14. PICK d \in Newest(other) : den.at = d.at /\ (Types[b.divisor] # "counter" => den.value = d.value)
    BY <1>9
  <1>15. s.at \in Nat /\ d.at \in Nat
    BY <1>10, SampleTyped DEF Newest
  <1> DEFINE oldest == Older(num.at, den.at)
  <1>16. oldest \in Nat /\ oldest <= s.at /\ oldest <= d.at
    BY <1>13, <1>14, <1>15 DEF Older
  <1> HIDE DEF oldest
  <1>17. IsFresh(own) /\ IsFresh(other)
    BY <1>10, <1>12, <1>16, FreshWhenNotStale DEF oldest
  <1>18. Beyond(<<num.value, den.value>>, bar)
    BY <1>2, <1>8, <1>9, <1>12, CrossingIsBeyond
  <1>19. ASSUME Types[b.metric] = "counter", Types[b.divisor] # "counter", bar.dir # "below"
         PROVE  \E a, z \in w, e \in Newest(other) : a.at <= z.at /\ AtLeast(<<Happened(a, z), e.value>>, bar.value)
    <2>1. PICK a \in w, z \in w : a.at <= z.at /\ num.value <= Happened(a, z)
      BY <1>8, <1>19
    <2>2. AtLeast(<<num.value, den.value>>, bar.value)
      BY <1>18, <1>19 DEF Beyond
    <2>3. AtLeast(<<Happened(a, z), den.value>>, bar.value)
      BY <1>2, <1>8, <1>9, <1>11, <1>19, <2>1, <2>2, MoreIsAtLeast
    <2> QED
      BY <1>14, <1>19, <2>1, <2>3
  <1>23. Types[b.metric] = "counter" /\ Types[b.divisor] = "counter" /\ bar.dir # "below" =>
            RatioWasCounted(w, Recently(other), bar)
    BY <1>18, <1>22 DEF Beyond
  <1>20. /\ IsFresh(Readings(b.uid, b.metric)) /\ IsFresh(Readings(b.uid, b.divisor))
         /\ w = Recently(Readings(b.uid, b.metric)) /\ other = Readings(b.uid, b.divisor)
    BY <1>1, <1>7, <1>17 DEF w
  <1>21. CrossingIsHonest(b)
    <2>1. IsFresh(Readings(b.uid, b.metric)) /\ (IsRatio(b) => IsFresh(Readings(b.uid, b.divisor)))
      BY <1>20
    <2>2. ASSUME Types[b.metric] = "counter", Types[b.divisor] # "counter", b.bar.dir # "below"
          PROVE  \E x, y \in Recently(Readings(b.uid, b.metric)), e \in Newest(Readings(b.uid, b.divisor)) :
                    x.at <= y.at /\ AtLeast(<<Happened(x, y), e.value>>, b.bar.value)
      BY <1>19, <1>20, <2>2
    <2>3. Types[b.metric] = "counter" /\ Types[b.divisor] = "counter" /\ b.bar.dir # "below" =>
             RatioWasCounted(Recently(Readings(b.uid, b.metric)), Recently(Readings(b.uid, b.divisor)), b.bar)
      BY <1>20, <1>23
    <2> QED
      BY <2>1, <2>2, <2>3 DEF CrossingIsHonest
  <1> QED
    BY <1>12, <1>21

\* What a fingerprint says is loud, or a guard says with confidence is quiet, is so, through
\* disorder, gaps, restarts and missing divisors, of families whose series keep rings of
\* their own (evalRateGuard, evalThresholdVar, Loud).
THEOREM FingerprintsTellTheTruth == ObserveSpec => []FingerprintTellsTheTruth
  <1>1. ObserveInv => FingerprintTellsTheTruth
    <2> SUFFICES ASSUME ObserveInv PROVE FingerprintTellsTheTruth
      OBVIOUS
    <2>1. ASSUME NEW r \in RatesNow, Single(r.binding), Types[r.binding.metric] = "counter", ~ r.stale, ~ r.inconclusive
          PROVE  GuardIsHonest(r)
      <3>1. PICK b \in Bindings : b.kind = "rate-of-change" /\ \E id \in TheStream(b, rings) : r \in EvalRateGuard(b, rings[id], instant)
        BY <2>1 DEF RatesNow, Rates
      <3>2. PICK id \in TheStream(b, rings) : r \in EvalRateGuard(b, rings[id], instant)
        BY <3>1
      <3>3. r.binding = b
        BY <3>2 DEF EvalRateGuard
      <3> QED
        BY <2>1, <3>1, <3>2, <3>3, GuardsAreHonest
    <2>2. ASSUME NEW t \in Loud({}, ThresholdsNow), Single(t.binding) PROVE CrossingIsHonest(t.binding)
      <3>1. t \in ThresholdsNow /\ ~ t.stale /\ IsCrossed(t.state)
        BY <2>2 DEF Loud
      <3>2. PICK b \in Bindings : \E id \in TheStream(b, rings) : t \in EvalThresholdVar(b, rings[id], rings, Types, instant)
        BY <3>1 DEF ThresholdsNow, Thresholds
      <3>3. PICK id \in TheStream(b, rings) : t \in EvalThresholdVar(b, rings[id], rings, Types, instant)
        BY <3>2
      <3>6. t.binding = b
        BY <3>3, BindingOfThreshold
      <3>4. CASE ~ IsRatio(b)
        BY <2>2, <3>1, <3>3, <3>4, <3>6, PlainCrossings
      <3>5. CASE IsRatio(b)
        BY <2>2, <3>1, <3>3, <3>5, <3>6, RatioCrossings
      <3> QED
        BY <3>4, <3>5
    <2> QED
      BY <2>1, <2>2 DEF FingerprintTellsTheTruth
  <1> QED
    BY <1>1, ObserveInvInductive, PTL
=============================================================================
