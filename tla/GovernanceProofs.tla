--------------------------- MODULE GovernanceProofs ---------------------------
(***************************************************************************)
(* Proofs about releases, for any bases, overlays, proposals, ledgers,     *)
(* measurements and cluster. First the life of a release: its rollout, the *)
(* tree it came from and its review; then what the loader makes of files,  *)
(* and last that the class of a change bounds what it does to a cluster.   *)
(***************************************************************************)
EXTENDS Governance, FiniteSetTheorems, SequenceTheorems, WellFoundedInduction, TLAPS

\* A set of naturals that is not empty has a least member, and a greatest one when
\* it is bounded.
Below == {ss \in Nat \X Nat : ss[1] < ss[2]}

LEMMA SmallestExists ==
    ASSUME NEW S, S \subseteq Nat, S # {}
    PROVE  \E x \in S : \A y \in S : x =< y
  <1>1. IsWellFoundedOn(Below, Nat)
    BY NatLessThanWellFounded DEF OpToRel, Below
  <1>2. PICK x \in S : \A y \in S : <<y, x>> \notin Below
    BY <1>1, WFMin
  <1>3. \A i, j \in Nat : (<<i, j>> \in Below <=> i < j) /\ (j =< i \/ i < j)
    BY DEF Below
  <1> QED
    BY <1>2, <1>3

LEMMA LargestExists ==
    ASSUME NEW S, NEW n \in Nat, S \subseteq 0..n, S # {}
    PROVE  \E x \in S : \A y \in S : x >= y
  <1> DEFINE T == {n - x : x \in S}
  <1>1. T \subseteq Nat /\ T # {}
    <2>1. \A x \in S : x \in 0..n /\ n - x \in Nat
      OBVIOUS
    <2> QED
      BY <2>1
  <1>2. PICK t \in T : \A y \in T : t =< y
    BY <1>1, SmallestExists
  <1>3. PICK x \in S : t = n - x
    BY <1>2
  <1>4. \A y \in S : x >= y
    BY <1>2, <1>3
  <1> QED
    BY <1>3, <1>4

-----------------------------------------------------------------------------
(* The overlays of a tree, in the order of their names.                      *)

LEMMA NthIsOne ==
    ASSUME NEW n \in Nat, NEW S, S \subseteq 1..n
    PROVE  /\ Cardinality(S) \in 0..n
           /\ \A k \in 1..Cardinality(S) : Nth(S, k) \in S
  <1>1. IsFiniteSet(1..n) /\ Cardinality(1..n) = n
    <2>1. IsFiniteSet(1..n) /\ Cardinality(1..n) = IF 1 > n THEN 0 ELSE n - 1 + 1
      BY FS_Interval, 1 \in Int, n \in Int
    <2> QED
      BY <2>1
  <1>2. \A T \in SUBSET S : IsFiniteSet(T) /\ Cardinality(T) \in Nat
    BY <1>1, FS_Subset, FS_CardinalityType
  <1>3. IsFiniteSet(S) /\ Cardinality(S) \in 0..n
    <2>1. S \in SUBSET S /\ S \in SUBSET (1..n)
      OBVIOUS
    <2>2. Cardinality(S) =< n
      BY <1>1, <2>1, FS_Subset
    <2> QED
      BY <1>2, <2>1, <2>2
  <1>4. \A j \in S : j \in Nat /\ 1 =< j /\ j =< n
    OBVIOUS
  <1>5. ASSUME NEW k \in 1..Cardinality(S) PROVE Nth(S, k) \in S
    <2> DEFINE UpTo(m) == {j \in S : j =< m}
               T == {m \in 0..n : Cardinality(UpTo(m)) >= k}
    <2>1. \A m : UpTo(m) \in SUBSET S /\ IsFiniteSet(UpTo(m)) /\ Cardinality(UpTo(m)) \in Nat
      BY <1>2
    <2>2. UpTo(n) = S /\ UpTo(0) = {}
      <3>1. \A j \in S : ~(j =< 0)
        BY <1>4
      <3> QED
        BY <1>4, <3>1
    <2>3. k \in Nat /\ 1 =< k /\ k =< Cardinality(S)
      BY <1>3
    <2>4. n \in T /\ T \subseteq Nat /\ 0 \notin T
      <3>1. Cardinality(UpTo(0)) = 0
        BY <2>2, FS_EmptySet
      <3>2. Cardinality(UpTo(n)) >= k
        BY <1>3, <2>2, <2>3
      <3> HIDE DEF UpTo
      <3> QED
        BY <2>3, <3>1, <3>2
    <2>5. PICK m \in T : \A y \in T : m =< y
      <3> HIDE DEF T
      <3> QED
        BY <2>4, SmallestExists
    <2> HIDE DEF UpTo
    <2>6. m \in 1..n /\ m - 1 \in 0..n /\ Cardinality(UpTo(m)) >= k
      <3>1. m \in 0..n /\ m # 0 /\ Cardinality(UpTo(m)) >= k
        BY <2>4, <2>5
      <3> QED
        BY <3>1
    <2>7. m - 1 \notin T
      <3> HIDE DEF T
      <3> QED
        BY <2>5, <2>6
    <2>8. Cardinality(UpTo(m - 1)) < k
      BY <2>1, <2>3, <2>6, <2>7
    <2>9. \A j \in S : j =< m <=> j =< m - 1 \/ j = m
      BY <1>4, <2>6
    <2>10. m \in S
      <3> SUFFICES ASSUME m \notin S PROVE FALSE
        OBVIOUS
      <3>1. UpTo(m) = UpTo(m - 1)
        BY <2>9 DEF UpTo
      <3> QED
        BY <2>1, <2>3, <2>6, <2>8, <3>1
    <2>11. UpTo(m) = UpTo(m - 1) \cup {m} /\ m \notin UpTo(m - 1)
      <3>1. m \notin UpTo(m - 1)
        BY <2>6 DEF UpTo
      <3>2. ASSUME NEW j PROVE j \in UpTo(m) <=> j \in UpTo(m - 1) \cup {m}
        <4>1. j \in UpTo(m) <=> j \in S /\ j =< m
          BY DEF UpTo
        <4>2. j \in UpTo(m - 1) <=> j \in S /\ j =< m - 1
          BY DEF UpTo
        <4> QED
          BY <2>9, <2>10, <4>1, <4>2
      <3> QED
        BY <3>1, <3>2
    <2>12. Cardinality(UpTo(m)) = Cardinality(UpTo(m - 1)) + 1
      BY <2>1, <2>11, FS_AddElement
    <2>13. Cardinality(UpTo(m)) = k
      BY <2>1, <2>3, <2>6, <2>8, <2>12
    <2>14. \E i \in S : Cardinality({j \in S : j =< i}) = k
      BY <2>10, <2>13 DEF UpTo
    <2> QED
      BY <2>14 DEF Nth
  <1> QED
    BY <1>3, <1>5

\* What is merged depends on the files that are there under the names, and on no other.
LEMMA InOrderIsOf ==
    ASSUME NEW f, NEW g, NEW names, Slots \in Nat, names \subseteq 1..Slots,
           \A i \in names : f[i] = g[i]
    PROVE  InOrder(f, names) = InOrder(g, names)
  <1> DEFINE S == {i \in names : f[i] # Absent}
  <1>1. S = {i \in names : g[i] # Absent}
    OBVIOUS
  <1>2. \A k \in 1..Cardinality(S) : Nth(S, k) \in names
    BY NthIsOne
  <1>3. \A k \in 1..Cardinality(S) : f[Nth(S, k)] = g[Nth(S, k)]
    BY <1>2
  <1> HIDE DEF S
  <1>4. [k \in 1..Cardinality(S) |-> f[Nth(S, k)]] = [k \in 1..Cardinality(S) |-> g[Nth(S, k)]]
    BY <1>3
  <1> QED
    BY <1>1, <1>4 DEF InOrder, S

LEMMA PinIsKnown ==
    ASSUME NEW b \in DOMAIN Bases, NEW names, Slots \in Nat, names \subseteq 1..Slots,
           NEW f \in [1..Slots -> DOMAIN Docs \cup {Absent}]
    PROVE  ContentHash(b, InOrder(f, names)) \in Pins
  <1> DEFINE S == {i \in names : f[i] # Absent}
             s == [k \in 1..Cardinality(S) |-> f[Nth(S, k)]]
  <1>1. Cardinality(S) \in 0..Slots /\ \A k \in 1..Cardinality(S) : Nth(S, k) \in S
    BY NthIsOne
  <1>2. \A i \in S : f[i] \in DOMAIN Docs
    OBVIOUS
  <1>3. s \in [1..Cardinality(S) -> DOMAIN Docs]
    BY <1>1, <1>2
  <1>4. InOrder(f, names) = s
    BY DEF InOrder
  <1> HIDE DEF S, s
  <1>5. s \in UNION {[1..n -> DOMAIN Docs] : n \in 0..Slots}
    BY <1>1, <1>3
  <1> QED
    BY <1>4, <1>5 DEF Pins

-----------------------------------------------------------------------------
(* The rollout.                                                              *)

Stages == {"reference", "canary", "fleet"}
Measurements == {rep.signals : rep \in StageReports}
StageNames == Stages \cup {rep.stage : rep \in StageReports}
Reports == [stage : StageNames, action : {"advanced", "completed", "rolled-back"}, measured : Measurements]

\* How far a rollout is: every report before the last advanced it by a stage, and the
\* last one advanced it, completed it or sent it back.
Progress(r) ==
    LET n == Len(r.history)
        Action(i) == r.history[i].action
    IN  \/ /\ ~r.back /\ r.open /\ \A i \in 1..n : Action(i) = "advanced"
           /\ <<r.stage, n>> \in {<<"reference", 0>>, <<"canary", 1>>, <<"fleet", 2>>}
        \/ /\ ~r.back /\ ~r.open /\ n = 3 /\ Action(3) = "completed"
           /\ \A i \in 1..2 : Action(i) = "advanced"
        \/ /\ r.back /\ ~r.open /\ n \in 1..3 /\ Action(n) = "rolled-back"
           /\ \A i \in 1..(n - 1) : Action(i) = "advanced"

RolloutInv ==
    rollout # Nil =>
        /\ rollout \in [release : STRING, prior : STRING, stage : Stages, active : STRING, back : BOOLEAN,
                        open : BOOLEAN, history : Seq(Reports)]
        /\ Progress(rollout)
        /\ rollout.active = IF rollout.back THEN rollout.prior ELSE rollout.release
        /\ \A i \in DOMAIN rollout.history :
               rollout.history[i].action # "rolled-back" => EvaluateStage(rollout.history[i].measured)

LEMMA StartKeepsRollout ==
    ASSUME NEW plan \in Plans, StartRollout(plan)
    PROVE  RolloutInv'
  <1> DEFINE release == plan.release
             prior == plan.prior
  <1>1. rollout' = NewRollout(release, prior) /\ plan \in [release : STRING, prior : STRING]
    BY GovernanceAssumption DEF StartRollout, GovernanceAssumption
  <1>2. /\ rollout'.history = <<>> /\ rollout'.active = release /\ rollout'.release = release
        /\ rollout'.prior = prior /\ ~rollout'.back /\ rollout'.open /\ rollout'.stage = "reference"
    BY <1>1 DEF NewRollout
  <1>3. rollout' \in [release : STRING, prior : STRING, stage : Stages, active : STRING, back : BOOLEAN,
                      open : BOOLEAN, history : Seq(Reports)]
    BY <1>1 DEF NewRollout, Stages
  <1> QED
    BY <1>2, <1>3 DEF RolloutInv, Progress

LEMMA ReportKeepsRollout ==
    ASSUME RolloutInv, NEW rep \in StageReports, Report(rep)
    PROVE  RolloutInv'
  <1> DEFINE signals == rep.signals
             stage == rep.stage
             r == rollout
             h == rollout.history
             n == Len(h)
             Entry(at, action) == [stage |-> at, action |-> action, measured |-> signals]
  <1>1. /\ r \in [release : STRING, prior : STRING, stage : Stages, active : STRING, back : BOOLEAN,
                  open : BOOLEAN, history : Seq(Reports)]
        /\ r.open /\ ~r.back /\ r.active = r.release
        /\ \A i \in 1..n : h[i].action = "advanced"
        /\ <<r.stage, n>> \in {<<"reference", 0>>, <<"canary", 1>>, <<"fleet", 2>>}
        /\ \A i \in DOMAIN h : h[i].action # "rolled-back" => EvaluateStage(h[i].measured)
        /\ rollout' = StepRollout(rollout, rep)
    BY DEF Report, RolloutInv, Progress
  <1>2. h \in Seq(Reports) /\ n \in 0..2 /\ DOMAIN h = 1..n /\ r.stage \in Stages
    BY <1>1
  <1>7. r.stage \in StageNames /\ stage \in StageNames
    BY <1>2 DEF StageNames
  <1>8. signals \in Measurements
    BY DEF Measurements
  <1>3. ASSUME NEW at \in StageNames, NEW action \in {"advanced", "completed", "rolled-back"}
        PROVE  LET g == Append(h, Entry(at, action))
               IN  /\ g \in Seq(Reports) /\ Len(g) = n + 1 /\ DOMAIN g = 1..(n + 1)
                   /\ g[n + 1].action = action /\ g[n + 1].measured = signals
                   /\ \A i \in 1..n : g[i] = h[i]
    <2>1. Entry(at, action) \in Reports
      BY <1>8 DEF Reports
    <2>2. Entry(at, action).action = action /\ Entry(at, action).measured = signals
      OBVIOUS
    <2> HIDE DEF Entry, h
    <2> QED
      BY <1>2, <2>1, <2>2
  <1>4. CASE ~EvaluateStage(signals)
    <2> DEFINE g == Append(h, Entry(stage, "rolled-back"))
    <2>1. rollout' = [r EXCEPT !.back = TRUE, !.active = r.prior, !.open = FALSE, !.history = g]
      BY <1>1, <1>4 DEF StepRollout
    <2>2. /\ g \in Seq(Reports) /\ Len(g) = n + 1 /\ DOMAIN g = 1..(n + 1)
          /\ g[n + 1].action = "rolled-back" /\ \A i \in 1..n : g[i] = h[i]
      BY <1>3, <1>7, <1>8
    <2> HIDE DEF g
    <2>3. /\ rollout' \in [release : STRING, prior : STRING, stage : Stages, active : STRING, back : BOOLEAN,
                           open : BOOLEAN, history : Seq(Reports)]
          /\ rollout'.back /\ ~rollout'.open /\ rollout'.active = r.prior /\ rollout'.prior = r.prior
          /\ rollout'.history = g
      BY <1>1, <2>1, <2>2
    <2>4. Progress(rollout')
      BY <1>1, <1>2, <2>2, <2>3 DEF Progress
    <2>5. \A i \in DOMAIN g : g[i].action # "rolled-back" => EvaluateStage(g[i].measured)
      BY <1>1, <1>2, <2>2
    <2> QED
      BY <2>3, <2>4, <2>5 DEF RolloutInv
  <1>5. CASE EvaluateStage(signals) /\ r.stage \notin DOMAIN NextStage
    <2> DEFINE g == Append(h, Entry(r.stage, "completed"))
    <2>1. rollout' = [r EXCEPT !.open = FALSE, !.history = g]
      BY <1>1, <1>5 DEF StepRollout
    <2>2. /\ g \in Seq(Reports) /\ Len(g) = n + 1 /\ DOMAIN g = 1..(n + 1)
          /\ g[n + 1].action = "completed" /\ g[n + 1].measured = signals /\ \A i \in 1..n : g[i] = h[i]
      BY <1>3, <1>7, <1>8
    <2> HIDE DEF g
    <2>3. n = 2
      BY <1>1, <1>5 DEF NextStage
    <2>4. /\ rollout' \in [release : STRING, prior : STRING, stage : Stages, active : STRING, back : BOOLEAN,
                           open : BOOLEAN, history : Seq(Reports)]
          /\ ~rollout'.back /\ ~rollout'.open /\ rollout'.active = r.active /\ rollout'.release = r.release
          /\ rollout'.history = g
      BY <1>1, <2>1, <2>2
    <2>5. Progress(rollout')
      BY <1>1, <1>2, <2>2, <2>3, <2>4 DEF Progress
    <2>6. \A i \in DOMAIN g : g[i].action # "rolled-back" => EvaluateStage(g[i].measured)
      BY <1>1, <1>2, <1>5, <2>2
    <2> QED
      BY <1>1, <2>4, <2>5, <2>6 DEF RolloutInv
  <1>6. CASE EvaluateStage(signals) /\ r.stage \in DOMAIN NextStage
    <2> DEFINE g == Append(h, Entry(r.stage, "advanced"))
    <2>1. rollout' = [r EXCEPT !.stage = NextStage[r.stage], !.history = g]
      BY <1>1, <1>6 DEF StepRollout
    <2>2. /\ g \in Seq(Reports) /\ Len(g) = n + 1 /\ DOMAIN g = 1..(n + 1)
          /\ g[n + 1].action = "advanced" /\ g[n + 1].measured = signals /\ \A i \in 1..n : g[i] = h[i]
      BY <1>3, <1>7, <1>8
    <2> HIDE DEF g
    <2>3. <<NextStage[r.stage], n + 1>> \in {<<"canary", 1>>, <<"fleet", 2>>} /\ NextStage[r.stage] \in Stages
      <3>1. /\ DOMAIN NextStage = {"reference", "canary"}
            /\ NextStage["reference"] = "canary" /\ NextStage["canary"] = "fleet"
        BY DEF NextStage
      <3>2. \/ r.stage = "reference" /\ n = 0
            \/ r.stage = "canary" /\ n = 1
            \/ r.stage = "fleet" /\ n = 2
        BY <1>1
      <3>3. r.stage # "fleet"
        BY <1>6, <3>1
      <3> DEFINE m == n
      <3> HIDE DEF m
      <3>4. \/ r.stage = "reference" /\ m = 0
            \/ r.stage = "canary" /\ m = 1
        BY <3>2, <3>3 DEF m
      <3>5. <<NextStage[r.stage], m + 1>> \in {<<"canary", 1>>, <<"fleet", 2>>}
        BY <3>1, <3>4
      <3> QED
        BY <3>1, <3>4, <3>5 DEF Stages, m
    <2>4. /\ rollout' \in [release : STRING, prior : STRING, stage : Stages, active : STRING, back : BOOLEAN,
                           open : BOOLEAN, history : Seq(Reports)]
          /\ ~rollout'.back /\ rollout'.open /\ rollout'.active = r.active /\ rollout'.release = r.release
          /\ rollout'.history = g /\ rollout'.stage = NextStage[r.stage]
      BY <1>1, <2>1, <2>2, <2>3
    <2>5. Progress(rollout')
      BY <1>1, <1>2, <2>2, <2>3, <2>4 DEF Progress
    <2>6. \A i \in DOMAIN g : g[i].action # "rolled-back" => EvaluateStage(g[i].measured)
      BY <1>1, <1>2, <1>6, <2>2
    <2> QED
      BY <1>1, <2>4, <2>5, <2>6 DEF RolloutInv
  <1> QED
    BY <1>4, <1>5, <1>6

\* Whatever is reported, in whichever order, a rollout is where its reports took it.
THEOREM RolloutsAreConsistent == Spec => []RolloutInv
  <1>1. Init => RolloutInv
    BY DEF Init, RolloutInv
  <1>2. RolloutInv /\ [Next]_vars => RolloutInv'
    <2> SUFFICES ASSUME RolloutInv, [Next]_vars PROVE RolloutInv'
      OBVIOUS
    <2>1. CASE UNCHANGED rollout
      BY <2>1 DEF RolloutInv, Progress
    <2>2. CASE \E plan \in Plans : StartRollout(plan)
      BY <2>2, StartKeepsRollout
    <2>3. CASE \E rep \in StageReports : Report(rep)
      BY <2>3, ReportKeepsRollout
    <2>4. UNCHANGED rollout \/ (\E plan \in Plans : StartRollout(plan))
          \/ (\E rep \in StageReports : Report(rep)) \/ rollout' = Nil
      BY DEF Next, vars, EditOverlay, ReplaceBase, Edit, Cut, Verify
    <2>5. CASE rollout' = Nil
      BY <2>5 DEF RolloutInv
    <2> QED
      BY <2>1, <2>2, <2>3, <2>4, <2>5
  <1> QED
    BY <1>1, <1>2, PTL DEF Spec

\* No rollout advances or completes on a regression or on nothing at all, none completes
\* in fewer than three stages, and one that is sent back shows the prior release again.
THEOREM RolloutsAreHonest == Spec => []RolloutIsHonest
  <1> DEFINE Within(x) == IF x.kind = "ratio-vs-baseline" /\ x.baseline > 0
                          THEN x.candidate =< x.limit * x.baseline ELSE x.candidate =< x.limit
  <1>1. ASSUME NEW signals \in Measurements, EvaluateStage(signals)
        PROVE  signals # {} /\ \A x \in signals : Within(x)
    <2> SUFFICES ASSUME NEW x \in signals PROVE Within(x)
      BY <1>1 DEF EvaluateStage
    <2>1. Healthy(x)
      BY <1>1 DEF EvaluateStage
    <2>2. x.baseline \in Int /\ x.limit \in Int /\ x.candidate \in Int
      BY GovernanceAssumption DEF GovernanceAssumption, Measurements
    <2>3. x.limit * x.baseline = x.baseline * x.limit /\ (x.baseline =< 0 <=> ~(x.baseline > 0))
      <3> DEFINE a == x.baseline
                 b == x.limit
      <3>1. a \in Int /\ b \in Int
        BY <2>2
      <3> HIDE DEF a, b
      <3>2. a * b = b * a /\ (a =< 0 <=> ~(a > 0))
        BY <3>1
      <3> QED
        BY <3>2 DEF a, b
    <2>4. CASE x.kind = "ratio-vs-baseline" /\ x.baseline > 0
      BY <2>1, <2>3, <2>4 DEF Healthy
    <2>5. CASE x.kind = "ratio-vs-baseline" /\ ~(x.baseline > 0)
      BY <2>1, <2>3, <2>5 DEF Healthy
    <2>6. CASE x.kind # "ratio-vs-baseline"
      BY <2>1, <2>6 DEF Healthy
    <2> QED
      BY <2>4, <2>5, <2>6
  <1>2. RolloutInv => RolloutIsHonest
    <2> SUFFICES ASSUME RolloutInv, rollout # Nil PROVE RolloutIsHonest
      BY DEF RolloutIsHonest
    <2> DEFINE h == rollout.history
    <2>1. /\ h \in Seq(Reports) /\ Progress(rollout)
          /\ rollout.active = IF rollout.back THEN rollout.prior ELSE rollout.release
          /\ \A i \in DOMAIN h : h[i].action # "rolled-back" => EvaluateStage(h[i].measured)
      BY DEF RolloutInv
    <2>2. \A i \in DOMAIN h : h[i].measured \in Measurements
      <3>1. \A r \in Reports : r.measured \in Measurements
        BY DEF Reports
      <3>2. \A i \in DOMAIN h : h[i] \in Reports
        BY <2>1
      <3> QED
        BY <3>1, <3>2
    <2>3. \A i \in DOMAIN h : h[i].action # "rolled-back" =>
              h[i].measured # {} /\ \A x \in h[i].measured : Within(x)
      BY <1>1, <2>1, <2>2
    <2> DEFINE n == Len(h)
    <2>4. DOMAIN h = 1..n /\ n \in Nat /\ Last(h) = h[n] /\ (n > 0 <=> h # <<>>)
      <3>1. DOMAIN h = 1..n /\ n \in Nat /\ Last(h) = h[n]
        BY <2>1 DEF Last
      <3>2. n = 0 <=> h = <<>>
        BY <2>1, EmptySeq
      <3> QED
        BY <3>1, <3>2
    <2>5. /\ (\E i \in DOMAIN h : h[i].action = "completed") => n = 3 /\ ~rollout.open
          /\ rollout.back <=> h # <<>> /\ h[n].action = "rolled-back"
          /\ \A i \in 1..(n - 1) : h[i].action = "advanced"
      <3> HIDE DEF h
      <3>1. Progress(rollout) /\ DOMAIN h = 1..n /\ n \in Nat
        BY <2>1, <2>4
      <3>2. CASE ~rollout.back /\ \A i \in 1..n : h[i].action = "advanced"
        BY <2>4, <3>2
      <3>3. CASE /\ ~rollout.back /\ ~rollout.open /\ n = 3 /\ h[3].action = "completed"
                 /\ \A i \in 1..2 : h[i].action = "advanced"
        BY <2>4, <3>3
      <3>4. CASE /\ rollout.back /\ ~rollout.open /\ n \in 1..3 /\ h[n].action = "rolled-back"
                 /\ \A i \in 1..(n - 1) : h[i].action = "advanced"
        BY <2>4, <3>4
      <3> QED
        BY <3>1, <3>2, <3>3, <3>4 DEF Progress, h
    <2>6. rollout.active = IF h # <<>> /\ Last(h).action = "rolled-back"
                           THEN rollout.prior ELSE rollout.release
      BY <2>1, <2>4, <2>5
    <2> QED
      BY <2>3, <2>5, <2>6 DEF RolloutIsHonest
  <1> QED
    BY <1>2, RolloutsAreConsistent, PTL

-----------------------------------------------------------------------------
(* The tree, its releases and the review of one.                             *)

TreeInv ==
    tree \in [Dirs -> [base : DOMAIN Bases, files : [1..Slots -> DOMAIN Docs \cup {Absent}]]]

ReleasesInv ==
    \A name \in DOMAIN releases :
        LET m == releases[name]
        IN  m.pin \in Pins /\ m.dir \in Dirs /\ m.overlays \subseteq 1..Slots

Loads(pin) == pin \in Pins /\ LoadedAs[pin].ok

\* What was verified is what the pins stand for, whatever became of the tree since.
ReviewInv ==
    review # Nil =>
        /\ review.proposal \in Proposals /\ review.proposal.class # UnknownClass
        /\ review.ledger \in Ledgers \cup {Nil}
        /\ Loads(review.to)
        /\ review.from = <<>> \/ Loads(review.from)
        /\ review.derived = Classify(GraphOf(review.from), GraphOf(review.to))
        /\ review.verdict = VerdictOf(review.proposal, review.derived, review.ledger)

LEMMA PinsAreNotEmpty == \A pin \in Pins : pin # <<>>
  <1> DEFINE Orders == UNION {[1..n -> DOMAIN Docs] : n \in 0..Slots}
  <1>1. ASSUME NEW b \in DOMAIN Bases, NEW s \in Orders PROVE ContentHash(b, s) # <<>>
    <2>1. PICK n \in 0..Slots : s \in [1..n -> DOMAIN Docs]
      OBVIOUS
    <2>2. s \in Seq(DOMAIN Docs \cup {b}) /\ <<b>> \in Seq(DOMAIN Docs \cup {b})
      BY <2>1
    <2>3. Len(<<b>> \o s) = 1 + Len(s) /\ Len(s) \in Nat
      BY <2>2
    <2> QED
      BY <2>3 DEF ContentHash
  <1> HIDE DEF Orders
  <1> QED
    BY <1>1 DEF Pins, Orders

LEMMA TreeKept == TreeInv /\ [Next]_vars => TreeInv'
  <1> SUFFICES ASSUME TreeInv, [Next]_vars PROVE TreeInv'
    OBVIOUS
  <1>1. CASE UNCHANGED tree
    BY <1>1 DEF TreeInv
  <1>2. ASSUME NEW dir \in Dirs, NEW i \in 1..Slots, NEW d \in DOMAIN Docs \cup {Absent},
               EditOverlay(dir, i, d)
        PROVE  TreeInv'
    <2>1. tree' = [tree EXCEPT ![dir].files[i] = d]
      BY <1>2 DEF EditOverlay, Edit
    <2> DEFINE files == [tree[dir].files EXCEPT ![i] = d]
               one == [tree[dir] EXCEPT !.files = files]
    <2>2. files \in [1..Slots -> DOMAIN Docs \cup {Absent}]
      BY DEF TreeInv
    <2>3. tree' = [tree EXCEPT ![dir] = one]
      BY <2>1
    <2> HIDE DEF files
    <2>4. one \in [base : DOMAIN Bases, files : [1..Slots -> DOMAIN Docs \cup {Absent}]]
      BY <2>2 DEF TreeInv
    <2> HIDE DEF one
    <2> QED
      BY <2>3, <2>4 DEF TreeInv
  <1>3. ASSUME NEW dir \in Dirs, NEW b \in DOMAIN Bases, ReplaceBase(dir, b) PROVE TreeInv'
    <2>1. tree' = [tree EXCEPT ![dir].base = b]
      BY <1>3 DEF ReplaceBase, Edit
    <2> QED
      BY <2>1 DEF TreeInv
  <1>4. \/ UNCHANGED tree
        \/ \E dir \in Dirs, i \in 1..Slots, d \in DOMAIN Docs \cup {Absent} : EditOverlay(dir, i, d)
        \/ \E dir \in Dirs, b \in DOMAIN Bases : ReplaceBase(dir, b)
    BY DEF Next, vars, Cut, Verify, StartRollout, Report
  <1> QED
    BY <1>1, <1>2, <1>3, <1>4

LEMMA TreePinIsKnown ==
    ASSUME TreeInv, NEW dir \in Dirs, Slots \in Nat
    PROVE  TreePin(tree[dir]) \in Pins
  <1>1. /\ tree[dir].base \in DOMAIN Bases
        /\ tree[dir].files \in [1..Slots -> DOMAIN Docs \cup {Absent}]
    BY DEF TreeInv
  <1> QED
    BY <1>1, PinIsKnown DEF TreePin

LEMMA ReleasesKept == TreeInv /\ ReleasesInv /\ [Next]_vars => ReleasesInv'
  <1> SUFFICES ASSUME TreeInv, ReleasesInv, [Next]_vars PROVE ReleasesInv'
    OBVIOUS
  <1>1. CASE UNCHANGED releases
    BY <1>1 DEF ReleasesInv
  <1>2. ASSUME NEW name \in Names, NEW dir \in Dirs, Cut(name, dir) PROVE ReleasesInv'
    <2> DEFINE pin == TreePin(tree[dir])
               overlays == {i \in 1..Slots : tree[dir].files[i] # Absent}
               m == [pin |-> pin, dir |-> dir, overlays |-> overlays]
    <2>1. releases' = [n \in DOMAIN releases \cup {name} |-> IF n = name THEN m ELSE releases[n]]
      BY <1>2 DEF Cut
    <2>2. pin \in Pins
      BY TreePinIsKnown, GovernanceAssumption DEF GovernanceAssumption
    <2>3. overlays \subseteq 1..Slots
      OBVIOUS
    <2> HIDE DEF pin, overlays
    <2>4. m.pin \in Pins /\ m.dir \in Dirs /\ m.overlays \subseteq 1..Slots
      BY <2>2, <2>3
    <2> HIDE DEF m
    <2>5. \A x \in DOMAIN releases' : releases'[x] = m \/ (x \in DOMAIN releases /\ releases'[x] = releases[x])
      BY <2>1
    <2> QED
      BY <2>4, <2>5 DEF ReleasesInv
  <1>3. UNCHANGED releases \/ \E name \in Names, dir \in Dirs : Cut(name, dir)
    BY DEF Next, vars, EditOverlay, ReplaceBase, Edit, Verify, StartRollout, Report
  <1> QED
    BY <1>1, <1>2, <1>3

\* What resolves is what was pinned.
LEMMA ResolvedAsPinned ==
    ASSUME ReleasesInv, NEW name, ResolveRelease(tree, releases, name).ok, name # FirstRelease
    PROVE  /\ name \in DOMAIN releases /\ Loads(releases[name].pin)
           /\ ResolveRelease(tree, releases, name) = LoadedAs[releases[name].pin]
  <1>1. ~NotLoaded.ok
    BY DEF NotLoaded
  <1>2. name \in DOMAIN releases
    BY <1>1 DEF ResolveRelease
  <1>3. ResolveRelease(tree, releases, name) = LoadReleasePinned(tree, releases[name])
    BY <1>2 DEF ResolveRelease
  <1>4. LoadReleasePinned(tree, releases[name]) \in {NotLoaded, LoadedAs[releases[name].pin]}
    BY DEF LoadReleasePinned
  <1>5. LoadReleasePinned(tree, releases[name]) = LoadedAs[releases[name].pin]
    BY <1>1, <1>3, <1>4
  <1> QED
    BY <1>2, <1>3, <1>5 DEF ReleasesInv, Loads

LEMMA ReviewKept == ReleasesInv /\ ReviewInv /\ [Next]_vars => ReviewInv'
  <1> SUFFICES ASSUME ReleasesInv, ReviewInv, [Next]_vars PROVE ReviewInv'
    OBVIOUS
  <1>1. CASE UNCHANGED review
    BY <1>1 DEF ReviewInv
  <1>2. CASE review' = Nil
    BY <1>2 DEF ReviewInv
  <1>3. ASSUME NEW p \in Proposals, NEW ledger \in Ledgers \cup {Nil}, Verify(p, ledger)
        PROVE  ReviewInv'
    <2> DEFINE from == ResolveRelease(tree, releases, p.from)
               to == ResolveRelease(tree, releases, p.release)
               derived == Classify(from.graph, to.graph)
               pin == IF p.from = FirstRelease THEN <<>> ELSE releases[p.from].pin
    <2>1. /\ p.release # FirstRelease /\ from.ok /\ to.ok /\ p.class # UnknownClass
          /\ review' = [proposal |-> p, ledger |-> ledger, derived |-> derived, from |-> pin,
                        to |-> releases[p.release].pin, verdict |-> VerdictOf(p, derived, ledger)]
      BY <1>3 DEF Verify
    <2>2. Loads(releases[p.release].pin) /\ to = LoadedAs[releases[p.release].pin]
      BY <2>1, ResolvedAsPinned
    <2>3. to.graph = GraphOf(releases[p.release].pin)
      BY <2>2, PinsAreNotEmpty DEF GraphOf, Loads
    <2>4. (pin = <<>> \/ Loads(pin)) /\ from.graph = GraphOf(pin)
      <3>1. CASE p.from = FirstRelease
        <4>1. from = Loaded(NoGraph) /\ pin = <<>>
          BY <3>1 DEF ResolveRelease
        <4> QED
          BY <4>1 DEF Loaded, GraphOf
      <3>2. CASE p.from # FirstRelease
        <4>1. Loads(pin) /\ from = LoadedAs[pin]
          BY <2>1, <3>2, ResolvedAsPinned
        <4> QED
          BY <4>1, PinsAreNotEmpty DEF GraphOf, Loads
      <3> QED
        BY <3>1, <3>2
    <2> HIDE DEF from, to, pin
    <2>5. /\ review'.proposal = p /\ review'.ledger = ledger /\ review'.from = pin
          /\ review'.to = releases[p.release].pin
          /\ review'.derived = Classify(GraphOf(pin), GraphOf(releases[p.release].pin))
          /\ review'.verdict = VerdictOf(p, review'.derived, ledger)
      BY <2>1, <2>3, <2>4
    <2> QED
      BY <2>1, <2>2, <2>4, <2>5 DEF ReviewInv
  <1>4. \/ UNCHANGED review \/ review' = Nil
        \/ \E p \in Proposals, ledger \in Ledgers \cup {Nil} : Verify(p, ledger)
    BY DEF Next, vars, EditOverlay, ReplaceBase, Edit, Cut, StartRollout, Report
  <1> QED
    BY <1>1, <1>2, <1>3, <1>4

\* The tree, the manifests and the last review stay what they are said to be: the pins
\* are of known contents, and a review is of what its two pins stand for.
THEOREM ReleasesAreConsistent == Spec => [](TreeInv /\ ReleasesInv /\ ReviewInv)
  <1>1. Init => TreeInv /\ ReleasesInv /\ ReviewInv
    <2> SUFFICES ASSUME Init PROVE TreeInv /\ ReleasesInv /\ ReviewInv
      OBVIOUS
    <2>1. TreeInv
      BY GovernanceAssumption DEF Init, TreeInv, GovernanceAssumption
    <2>2. ReleasesInv /\ ReviewInv
      BY DEF Init, ReleasesInv, ReviewInv
    <2> QED
      BY <2>1, <2>2
  <1>2. TreeInv /\ ReleasesInv /\ ReviewInv /\ [Next]_vars => (TreeInv /\ ReleasesInv /\ ReviewInv)'
    BY TreeKept, ReleasesKept, ReviewKept
  <1> QED
    BY <1>1, <1>2, PTL DEF Spec

\* A manifest loads as the content it was cut from or not at all, and no file that is added
\* beside its own keeps it from loading: for any bases, overlays and number of them.
THEOREM ReleasesStayLoadable == Spec => ReleasesOutliveTheTree
  <1> DEFINE Kept(name) ==
          LET m == releases[name]
              now == LoadReleasePinned(tree, m)
              next == LoadReleasePinned(tree', m)
          IN  /\ next.ok => next = LoadedAs[m.pin]
              /\ /\ now.ok
                 /\ tree'[m.dir].base = tree[m.dir].base
                 /\ \A i \in m.overlays : tree'[m.dir].files[i] = tree[m.dir].files[i]
                 => next.ok
  <1>1. ASSUME ReleasesInv, NEW name \in DOMAIN releases PROVE Kept(name)
    <2> DEFINE m == releases[name]
               d == tree[m.dir]
               e == tree'[m.dir]
    <2>1. ~NotLoaded.ok
      BY DEF NotLoaded
    <2>2. \A t : LoadReleasePinned(t, m) \in {NotLoaded, LoadedAs[m.pin]}
      BY DEF LoadReleasePinned
    <2>3. ASSUME LoadReleasePinned(tree, m).ok, e.base = d.base,
                 \A i \in m.overlays : e.files[i] = d.files[i]
          PROVE  LoadReleasePinned(tree', m).ok
      <3>1. Slots \in Nat /\ m.overlays \subseteq 1..Slots
        BY <1>1, GovernanceAssumption DEF ReleasesInv, GovernanceAssumption
      <3> DEFINE overlays == m.overlays
                 f == d.files
                 g == e.files
      <3> HIDE DEF overlays, f, g
      <3>2. InOrder(g, overlays) = InOrder(f, overlays)
        BY <2>3, <3>1, InOrderIsOf DEF overlays, f, g
      <3>3. /\ ~\E i \in m.overlays : d.files[i] = Absent
            /\ ContentHash(d.base, InOrder(d.files, m.overlays)) = m.pin
            /\ LoadedAs[m.pin].ok
        BY <2>1, <2>3 DEF LoadReleasePinned
      <3>4. ContentHash(e.base, InOrder(e.files, m.overlays)) = m.pin
        BY <2>3, <3>2, <3>3 DEF overlays, f, g
      <3>5. ~\E i \in m.overlays : e.files[i] = Absent
        BY <2>3, <3>3
      <3>6. LoadReleasePinned(tree', m) = LoadedAs[m.pin]
        BY <3>4, <3>5 DEF LoadReleasePinned
      <3> QED
        BY <3>3, <3>6
    <2> QED
      BY <2>1, <2>2, <2>3
  <1>2. ReleasesInv => \A name \in DOMAIN releases : Kept(name)
    BY <1>1
  <1> QED
    BY <1>2, ReleasesAreConsistent, PTL DEF ReleasesOutliveTheTree

-----------------------------------------------------------------------------
(* What a load leaves behind, however many overlays it merged.               *)

\* Rules are kept under their ids and are about signals there are; a phenomenon has one
\* check a signal.
WellFormed(g) ==
    /\ \A r \in DOMAIN g.rules : g.rules[r].id = r /\ g.rules[r].signal \in DOMAIN g.signals
    /\ \A id \in DOMAIN g.phenomena :
           \A c, d \in g.phenomena[id].checks : c.signal = d.signal => c = d

\* Overlays add to a base and take nothing of it away.
GrownFrom(file, g) ==
    /\ DOMAIN g = {"signals", "phenomena", "groups", "gates", "tools", "simple", "rules"}
    /\ g.signals = Parse(file).signals
    /\ DOMAIN g.phenomena = IdsOf(file, {"CorrelationGroup"})
    /\ \A id \in DOMAIN g.phenomena :
           /\ {"members", "checks"} \subseteq DOMAIN g.phenomena[id]
           /\ g.phenomena[id].members = MembersOf(file, id)
    /\ WellFormed(g)

LEMMA NoDuplicatesMeansOne ==
    ASSUME NEW checks \in Seq(AuthoredCheck), NoDuplicates(checks)
    PROVE  \A i, j \in DOMAIN checks : checks[i].signal = checks[j].signal => i = j
  <1> DEFINE n == Len(checks)
             T == SignalsOf(checks)
             f == [i \in 1..n |-> checks[i].signal]
  <1>1. n \in Nat /\ DOMAIN checks = 1..n
    OBVIOUS
  <1>2. IsFiniteSet(1..n) /\ Cardinality(1..n) = n
    <2>1. IsFiniteSet(1..n) /\ Cardinality(1..n) = IF 1 > n THEN 0 ELSE n - 1 + 1
      BY <1>1, FS_Interval, 1 \in Int, n \in Int
    <2> QED
      BY <1>1, <2>1
  <1>3. f \in Surjection(1..n, T)
    BY <1>1 DEF Surjection, SignalsOf
  <1>4. Cardinality(T) = Cardinality(1..n)
    BY <1>2 DEF NoDuplicates
  <1>5. f \in Injection(1..n, T)
    <2> HIDE DEF f, T, n
    <2> QED
      BY <1>2, <1>3, <1>4, FS_Surjection
  <1>6. \A i, j \in 1..n : f[i] = f[j] => i = j
    <2> HIDE DEF f, T, n
    <2> QED
      BY <1>5 DEF Injection, IsInjective
  <1> QED
    BY <1>1, <1>6

LEMMA ParseIsGrown == ASSUME NEW file PROVE GrownFrom(file, Parse(file))
  <1>1. DOMAIN Parse(file) = {"signals", "phenomena", "groups", "gates", "tools", "simple", "rules"}
    BY DEF Parse
  <1>2. /\ DOMAIN Parse(file).phenomena = IdsOf(file, {"CorrelationGroup"})
        /\ \A id \in IdsOf(file, {"CorrelationGroup"}) :
              /\ {"members", "checks"} \subseteq DOMAIN Parse(file).phenomena[id]
              /\ Parse(file).phenomena[id].members = MembersOf(file, id)
              /\ Parse(file).phenomena[id].checks = {}
    BY DEF Parse
  <1>3. DOMAIN Parse(file).rules = {}
    BY DEF Parse
  <1> QED
    BY <1>1, <1>2, <1>3 DEF GrownFrom, WellFormed

LEMMA ApplyGrows ==
    ASSUME NEW file, NEW g, GrownFrom(file, g), NEW doc, Applies(g, doc),
           \A id \in DOMAIN doc.checks : doc.checks[id] \in Seq(AuthoredCheck)
    PROVE  GrownFrom(file, Apply(g, doc))
  <1> DEFINE h == Apply(g, doc)
             ps == DOMAIN g.phenomena
             Checks(id) == IF id \in DOMAIN doc.checks THEN doc.checks[id] ELSE <<>>
             New(id) == {Checks(id)[i] : i \in DOMAIN Checks(id)}
             new == {doc.rules[i] : i \in DOMAIN doc.rules}
             ids == {r.id : r \in new}
             Of(id) == CHOOSE r \in new : r.id = id
  <1>1. /\ DOMAIN h = DOMAIN g /\ h.signals = g.signals
        /\ DOMAIN h.phenomena = ps
        /\ h.rules = [id \in DOMAIN g.rules \cup ids |-> IF id \in ids THEN Of(id) ELSE g.rules[id]]
    BY DEF GrownFrom, Apply
  <1>2. ASSUME NEW id \in ps
        PROVE  /\ DOMAIN h.phenomena[id] = DOMAIN g.phenomena[id]
               /\ h.phenomena[id].members = g.phenomena[id].members
               /\ h.phenomena[id].checks = g.phenomena[id].checks \cup New(id)
    BY DEF GrownFrom, Apply
  <1> HIDE DEF h
  <1>3. \A id \in ids : Of(id) \in new /\ Of(id).id = id
    OBVIOUS
  <1>4. \A r \in new : r.signal \in DOMAIN g.signals
    <2>1. \A i \in DOMAIN doc.rules : doc.rules[i].signal \in DOMAIN g.signals
      BY DEF Applies, RulesFit, RuleFits
    <2> QED
      BY <2>1
  <1>5. \A r \in DOMAIN h.rules : h.rules[r].id = r /\ h.rules[r].signal \in DOMAIN h.signals
    <2> HIDE DEF Of, new, ids
    <2>1. \A r \in DOMAIN g.rules : g.rules[r].id = r /\ g.rules[r].signal \in DOMAIN g.signals
      BY DEF GrownFrom, WellFormed
    <2> QED
      BY <1>1, <1>3, <1>4, <2>1
  <1>6. ASSUME NEW id \in ps, NEW c \in h.phenomena[id].checks, NEW d \in h.phenomena[id].checks,
               c.signal = d.signal
        PROVE  c = d
    <2> DEFINE old == g.phenomena[id].checks
    <2>1. c \in old \cup New(id) /\ d \in old \cup New(id)
      BY <1>2, <1>6
    <2>2. CASE c \in old /\ d \in old
      BY <1>6, <2>2 DEF GrownFrom, WellFormed
    <2>3. \A x \in New(id) : id \in DOMAIN doc.checks /\ x.signal \in SignalsOf(doc.checks[id])
      BY DEF SignalsOf
    <2>4. \A x \in New(id), y \in old : x.signal # y.signal
      BY <2>3 DEF Applies, ChecksFit
    <2>5. CASE c \in New(id) /\ d \in New(id)
      <3> DEFINE checks == doc.checks[id]
      <3>1. id \in DOMAIN doc.checks /\ New(id) = {checks[i] : i \in DOMAIN checks}
        BY <2>3, <2>5
      <3>2. checks \in Seq(AuthoredCheck) /\ NoDuplicates(checks)
        BY <3>1 DEF Applies, ChecksFit
      <3>3. PICK i \in DOMAIN checks : c = checks[i]
        BY <2>5, <3>1
      <3>4. PICK j \in DOMAIN checks : d = checks[j]
        BY <2>5, <3>1
      <3> HIDE DEF checks
      <3>5. i = j
        BY <1>6, <3>2, <3>3, <3>4, NoDuplicatesMeansOne
      <3> QED
        BY <3>3, <3>4, <3>5
    <2> HIDE DEF New, old
    <2> QED
      BY <1>6, <2>1, <2>2, <2>4, <2>5
  <1>7. WellFormed(h)
    <2> HIDE DEF ps, ids, Of, New
    <2>1. \A id \in DOMAIN h.phenomena :
              \A c, d \in h.phenomena[id].checks : c.signal = d.signal => c = d
      BY <1>1, <1>6
    <2> QED
      BY <1>5, <2>1 DEF WellFormed
  <1>8. \A id \in ps : {"members", "checks"} \subseteq DOMAIN g.phenomena[id]
                        /\ g.phenomena[id].members = MembersOf(file, id)
    BY DEF GrownFrom
  <1>9. /\ DOMAIN g = {"signals", "phenomena", "groups", "gates", "tools", "simple", "rules"}
        /\ g.signals = Parse(file).signals /\ ps = IdsOf(file, {"CorrelationGroup"})
    BY DEF GrownFrom
  <1> HIDE DEF ps, ids, Of, New
  <1> QED
    BY <1>1, <1>2, <1>7, <1>8, <1>9 DEF GrownFrom, h

\* The fold over the overlays is what it reads as: each step is taken on the one before.
LEMMA MergedIs ==
    ASSUME NEW file, NEW docs, Len(docs) \in Nat
    PROVE  /\ Merged(file, docs)[0] = Loaded(Parse(file))
           /\ \A n \in 1..Len(docs) : Merged(file, docs)[n] = Merge(Merged(file, docs)[n - 1], docs[n])
  <1> DEFINE base == Loaded(Parse(file))
             Is(f, m) == f = [n \in 0..m |-> IF n = 0 THEN base ELSE Merge(f[n - 1], docs[n])]
             Bad == {m \in Nat : ~\E f : Is(f, m)}
  <1> HIDE DEF base
  <1>1. Bad = {}
    <2> SUFFICES ASSUME Bad # {} PROVE FALSE
      OBVIOUS
    <2>1. PICK m \in Bad : \A y \in Bad : m =< y
      <3>1. Bad \subseteq Nat
        OBVIOUS
      <3> HIDE DEF Bad
      <3> QED
        BY <3>1, SmallestExists
    <2>2. m \in Nat /\ ~\E f : Is(f, m)
      BY <2>1
    <2>3. CASE m = 0
      <3> DEFINE f == [n \in 0..0 |-> base]
      <3>1. Is(f, 0)
        OBVIOUS
      <3> QED
        BY <2>2, <2>3, <3>1
    <2>4. CASE m # 0
      <3>1. m - 1 \in Nat /\ m - 1 \notin Bad
        <4>1. m - 1 \in Nat /\ ~(m =< m - 1)
          BY <2>2, <2>4
        <4> HIDE DEF Bad
        <4> QED
          BY <2>1, <4>1
      <3>2. PICK f : Is(f, m - 1)
        BY <3>1
      <3> DEFINE g == [n \in 0..m |-> IF n = m THEN Merge(f[m - 1], docs[m]) ELSE f[n]]
      <3>3. ASSUME NEW n \in 0..m
            PROVE  g[n] = IF n = 0 THEN base ELSE Merge(g[n - 1], docs[n])
        <4>1. CASE n = m
          <5>1. m - 1 \in 0..m /\ m - 1 # m
            BY <2>2, <3>1
          <5> QED
            BY <2>4, <4>1, <5>1
        <4>2. CASE n # m
          <5>1. n \in 0..(m - 1) /\ g[n] = f[n]
            BY <2>2, <4>2
          <5>2. f[n] = IF n = 0 THEN base ELSE Merge(f[n - 1], docs[n])
            BY <3>2, <5>1
          <5>3. n # 0 => n - 1 \in 0..m /\ n - 1 # m
            BY <2>2, <5>1
          <5>4. n # 0 => g[n - 1] = f[n - 1]
            BY <5>3
          <5> HIDE DEF g
          <5> QED
            BY <5>1, <5>2, <5>4
        <4> QED
          BY <4>1, <4>2
      <3>4. g = [n \in 0..m |-> g[n]]
        OBVIOUS
      <3> HIDE DEF g
      <3>5. Is(g, m)
        BY <3>3, <3>4
      <3> QED
        BY <2>2, <3>5
    <2> QED
      BY <2>3, <2>4
  <1>2. \E f : Is(f, Len(docs))
    BY <1>1
  <1> DEFINE M == Merged(file, docs)
  <1>3. M = CHOOSE f : Is(f, Len(docs))
    BY DEF Merged, base
  <1> HIDE DEF M
  <1>4. Is(M, Len(docs))
    BY <1>2, <1>3
  <1>5. M[0] = base /\ \A n \in 1..Len(docs) : M[n] = Merge(M[n - 1], docs[n])
    <2> DEFINE k == Len(docs)
    <2>1. k \in Nat
      OBVIOUS
    <2> HIDE DEF k
    <2>2. Is(M, k)
      BY <1>4 DEF k
    <2>3. \A n \in 0..k : M[n] = IF n = 0 THEN base ELSE Merge(M[n - 1], docs[n])
      BY <2>2
    <2>4. M[0] = base
      BY <2>1, <2>3
    <2>5. \A n \in 1..k : n \in 0..k /\ n # 0
      BY <2>1
    <2> QED
      BY <2>3, <2>4, <2>5 DEF k
  <1> QED
    BY <1>5 DEF M, base

LEMMA LoadIsGrown ==
    ASSUME NEW file, NEW docs, Len(docs) \in Nat,
           \A n \in 1..Len(docs) : \A id \in DOMAIN docs[n].checks :
               docs[n].checks[id] \in Seq(AuthoredCheck),
           LoadWithOverlayPaths(file, docs).ok
    PROVE  GrownFrom(file, LoadWithOverlayPaths(file, docs).graph)
  <1> DEFINE M == Merged(file, docs)
             Bad == {n \in 0..Len(docs) : M[n].ok /\ ~GrownFrom(file, M[n].graph)}
  <1>1. ~NotLoaded.ok /\ \A g : Loaded(g).ok /\ Loaded(g).graph = g
    BY DEF NotLoaded, Loaded
  <1>2. M[0] = Loaded(Parse(file)) /\ \A n \in 1..Len(docs) : M[n] = Merge(M[n - 1], docs[n])
    BY MergedIs
  <1> HIDE DEF M
  <1>3. Bad = {}
    <2> SUFFICES ASSUME Bad # {} PROVE FALSE
      OBVIOUS
    <2>1. PICK n \in Bad : \A y \in Bad : n =< y
      <3>1. Bad \subseteq Nat
        OBVIOUS
      <3> HIDE DEF Bad
      <3> QED
        BY <3>1, SmallestExists
    <2>2. n \in 0..Len(docs) /\ M[n].ok /\ ~GrownFrom(file, M[n].graph)
      BY <2>1
    <2>3. n # 0
      BY <1>1, <1>2, <2>2, ParseIsGrown
    <2>4. n \in 1..Len(docs) /\ n - 1 \in 0..Len(docs) /\ ~(n =< n - 1)
      BY <2>2, <2>3
    <2>5. n - 1 \notin Bad
      <3> HIDE DEF Bad
      <3> QED
        BY <2>1, <2>4
    <2>6. M[n] = Merge(M[n - 1], docs[n])
      BY <1>2, <2>4
    <2>7. /\ M[n - 1].ok /\ Applies(M[n - 1].graph, docs[n])
          /\ M[n] = Loaded(Apply(M[n - 1].graph, docs[n]))
      BY <1>1, <2>2, <2>6 DEF Merge
    <2>8. GrownFrom(file, M[n - 1].graph)
      BY <2>4, <2>5, <2>7
    <2>9. GrownFrom(file, Apply(M[n - 1].graph, docs[n]))
      BY <2>4, <2>7, <2>8, ApplyGrows
    <2> QED
      BY <1>1, <2>2, <2>7, <2>9
  <1>4. M[Len(docs)].ok => GrownFrom(file, M[Len(docs)].graph)
    <2>1. Len(docs) \in 0..Len(docs)
      OBVIOUS
    <2> QED
      BY <1>3, <2>1
  <1>5. \/ LoadWithOverlayPaths(file, docs) = NotLoaded
        \/ LoadWithOverlayPaths(file, docs) = Loaded(Parse(file))
        \/ LoadWithOverlayPaths(file, docs) = M[Len(docs)]
    BY DEF LoadWithOverlayPaths, M
  <1> QED
    BY <1>1, <1>4, <1>5, ParseIsGrown

LEMMA PinsAreLoads ==
    ASSUME NEW pin, Loads(pin)
    PROVE  pin[1] \in DOMAIN Bases /\ GrownFrom(Bases[pin[1]], LoadedAs[pin].graph)
  <1> DEFINE Orders == UNION {[1..n -> DOMAIN Docs] : n \in 0..Slots}
  <1>1. PICK b \in DOMAIN Bases, s \in Orders : pin = ContentHash(b, s)
    <2> HIDE DEF Orders
    <2> QED
      BY DEF Loads, Pins, Orders
  <1>2. PICK n \in 0..Slots : s \in [1..n -> DOMAIN Docs]
    OBVIOUS
  <1>3. Slots \in Nat /\ n \in Nat
    BY <1>2, GovernanceAssumption DEF GovernanceAssumption
  <1>4. /\ <<b>> \in Seq(DOMAIN Docs \cup {b}) /\ s \in Seq(DOMAIN Docs \cup {b})
        /\ Len(s) = n /\ pin = <<b>> \o s
    BY <1>1, <1>2, <1>3 DEF ContentHash
  <1>5. /\ pin \in Seq(DOMAIN Docs \cup {b}) /\ Len(pin) = 1 + n /\ pin[1] = b
        /\ \A k \in 1..n : pin[k + 1] = s[k]
    BY <1>3, <1>4
  <1> DEFINE docs == DocsIn(pin)
  <1>6. docs = [k \in 1..n |-> Docs[s[k]]]
    <2>1. Len(pin) - 1 = n
      BY <1>3, <1>5
    <2> QED
      BY <1>5, <2>1 DEF DocsIn
  <1>7. Len(docs) = n
    BY <1>3, <1>6
  <1>8. \A k \in 1..Len(docs) : \A id \in DOMAIN docs[k].checks : docs[k].checks[id] \in Seq(AuthoredCheck)
    <2>1. \A k \in 1..n : docs[k] = Docs[s[k]] /\ s[k] \in DOMAIN Docs
      BY <1>2, <1>6
    <2> HIDE DEF docs
    <2> QED
      BY <1>7, <2>1, GovernanceAssumption DEF GovernanceAssumption
  <1>9. LoadedAs[pin] = LoadWithOverlayPaths(Bases[pin[1]], docs)
    BY DEF Loads, LoadedAs
  <1> HIDE DEF docs
  <1> QED
    BY <1>1, <1>3, <1>5, <1>7, <1>8, <1>9, LoadIsGrown DEF Loads

-----------------------------------------------------------------------------
(* The class of a change.                                                    *)

LEMMA ChangedClasses ==
    ASSUME NEW from, NEW to, NEW kind, NEW reach, NEW it \in Changed(from, to, kind, reach)
    PROVE  \E id \in DOMAIN from \cap DOMAIN to, fld \in DOMAIN reach :
               from[id][fld] # to[id][fld] /\ it = Item(id, kind, "changed", reach[fld])
  <1> DEFINE Of(id) == {Item(id, kind, "changed", reach[fld]) : fld \in {x \in DOMAIN reach : from[id][x] # to[id][x]}}
  <1>1. PICK id \in DOMAIN from \cap DOMAIN to : it \in Of(id)
    BY DEF Changed
  <1> QED
    BY <1>1

LEMMA ClassesAreFour == \A from, to : \A it \in Items(from, to) : it.class \in 0..3
  <1> SUFFICES ASSUME NEW from, NEW to, NEW it \in Items(from, to) PROVE it.class \in 0..3
    OBVIOUS
  <1> USE DEF None, AdditiveLow, BehaviouralMedium, NormativeHigh
  <1>1. \A element, kind, op, class : Item(element, kind, op, class).class = class
    BY DEF Item
  <1>2. ASSUME NEW a, NEW b, NEW kind, NEW class \in 0..3, NEW x \in Added(a, b, kind, class) \cup Removed(a, b, kind, class)
        PROVE  x.class \in 0..3
    <2>1. \E id, op : x = Item(id, kind, op, class)
      BY DEF Added, Removed
    <2> QED
      BY <1>1, <2>1
  <1>3. ASSUME NEW a, NEW b, NEW kind, NEW reach, \A fld \in DOMAIN reach : reach[fld] \in 0..3,
               NEW x \in Changed(a, b, kind, reach)
        PROVE  x.class \in 0..3
    BY <1>1, <1>3, ChangedClasses
  <1>4. /\ \A fld \in DOMAIN SignalReach : SignalReach[fld] \in 0..3
        /\ \A fld \in DOMAIN PhenomenonReach : PhenomenonReach[fld] \in 0..3
        /\ \A fld \in DOMAIN RuleReach : RuleReach[fld] \in 0..3
    BY DEF SignalReach, PhenomenonReach, RuleReach
  <1>5. CASE it \in SignalItems(from.signals, to.signals)
    BY <1>2, <1>3, <1>4, <1>5 DEF SignalItems
  <1>6. CASE it \in PhenomenonItems(from.phenomena, to.phenomena)
    BY <1>2, <1>3, <1>4, <1>6 DEF PhenomenonItems
  <1>7. CASE it \in RuleItems(from.rules, to.rules)
    <2> DEFINE Gone == {Item(id, "ThresholdRule", "removed",
                             IF from.rules[id].default # NoDefault THEN NormativeHigh ELSE BehaviouralMedium) :
                           id \in DOMAIN from.rules \ DOMAIN to.rules}
    <2>1. \A x \in Gone : x.class \in 0..3
      BY <1>1
    <2>2. it \in Added(from.rules, to.rules, "ThresholdRule", BehaviouralMedium) \cup Gone
                 \cup Changed(from.rules, to.rules, "ThresholdRule", RuleReach)
      BY <1>7 DEF RuleItems
    <2> HIDE DEF Gone
    <2> QED
      BY <1>2, <1>3, <1>4, <2>1, <2>2
  <1>8. CASE it \in CheckItems(from.phenomena, to.phenomena)
    <2>1. \E id, op : it = Item(id, "DetectionCheck", op, BehaviouralMedium)
      BY <1>8 DEF CheckItems
    <2> QED
      BY <1>1, <2>1
  <1>9. CASE it \in GroupItems(from.groups, to.groups)
    <2> DEFINE f == from.groups
               g == to.groups
               Edits(id) ==
                 {Item(id, "EquivalenceGroup", "changed", NormativeHigh) : x \in f[id].patterns \ g[id].patterns}
                 \cup {Item(id, "EquivalenceGroup", "changed", AdditiveLow) : x \in g[id].patterns \ f[id].patterns}
                 \cup {Item(id, "EquivalenceGroup", "changed", NormativeHigh) :
                          x \in {f[id].canonical} \ {g[id].canonical}}
    <2>1. \A id : \A x \in Edits(id) : x.class \in 0..3
      BY <1>1
    <2>2. \/ it \in Added(f, g, "EquivalenceGroup", AdditiveLow)
          \/ it \in Removed(f, g, "EquivalenceGroup", NormativeHigh)
          \/ \E id \in DOMAIN f \cap DOMAIN g : it \in Edits(id)
      BY <1>9 DEF GroupItems
    <2> HIDE DEF Edits, f, g
    <2> QED
      BY <1>2, <2>1, <2>2
  <1>10. CASE it \in SimpleItems(from.simple, to.simple)
    <2>1. \E element, kind, op, class : class \in 0..3 /\ it = Item(element, kind, op, class)
      BY <1>10 DEF SimpleItems
    <2> QED
      BY <1>1, <2>1
  <1> QED
    BY <1>5, <1>6, <1>7, <1>8, <1>9, <1>10 DEF Items

\* The class is one of the four and no item of the change is above it.
LEMMA ClassIsWidest ==
    ASSUME NEW from, NEW to
    PROVE  /\ Classify(from, to) \in 0..3
           /\ \A it \in Items(from, to) : it.class =< Classify(from, to)
  <1> DEFINE S == {None} \cup {it.class : it \in Items(from, to)}
  <1>1. S \subseteq 0..3 /\ S # {}
    BY ClassesAreFour DEF None
  <1>2. Classify(from, to) = Max(S)
    BY DEF Classify
  <1>3. \A it \in Items(from, to) : it.class \in S
    OBVIOUS
  <1> HIDE DEF S
  <1>4. Max(S) \in S /\ \A y \in S : Max(S) >= y
    <2>1. \E x \in S : \A y \in S : x >= y
      BY <1>1, LargestExists
    <2> QED
      BY <2>1 DEF Max
  <1>5. \A y \in S : y \in Int
    BY <1>1
  <1> QED
    BY <1>1, <1>2, <1>3, <1>4, <1>5

\* What a bar is made of, and where and on what a rule binds.
SameBar(r, s) ==
    /\ r.default = s.default /\ r.factor = s.factor /\ r.kind = s.kind /\ r.path = s.path
    /\ r.signal = s.signal /\ r.eligible = s.eligible /\ r.dir = s.dir /\ r.divisor = s.divisor
    /\ r.window = s.window

SameBinding(r, s) == SameBar(r, s) /\ r.scope = s.scope /\ r.metric = s.metric

LEMMA ChangedShows ==
    ASSUME NEW from, NEW to, NEW kind, NEW reach, NEW id \in DOMAIN from \cap DOMAIN to,
           NEW fld \in DOMAIN reach, from[id][fld] # to[id][fld]
    PROVE  Item(id, kind, "changed", reach[fld]) \in Changed(from, to, kind, reach)
  <1> DEFINE Of(x) == {Item(x, kind, "changed", reach[f]) : f \in {y \in DOMAIN reach : from[x][y] # to[x][y]}}
  <1>1. Item(id, kind, "changed", reach[fld]) \in Of(id)
    OBVIOUS
  <1>2. Changed(from, to, kind, reach) = UNION {Of(x) : x \in DOMAIN from \cap DOMAIN to}
    BY DEF Changed
  <1> HIDE DEF Of
  <1> QED
    BY <1>1, <1>2

\* Below the normative class no rule that stays has another bar.
LEMMA BarsStay ==
    ASSUME NEW f, NEW g, Classify(f, g) < NormativeHigh,
           NEW id \in DOMAIN f.rules \cap DOMAIN g.rules
    PROVE  SameBar(f.rules[id], g.rules[id])
  <1>1. ASSUME NEW fld \in DOMAIN RuleReach, RuleReach[fld] = NormativeHigh
        PROVE  f.rules[id][fld] = g.rules[id][fld]
    <2> SUFFICES ASSUME f.rules[id][fld] # g.rules[id][fld] PROVE FALSE
      OBVIOUS
    <2> DEFINE it == Item(id, "ThresholdRule", "changed", RuleReach[fld])
    <2>1. it \in Changed(f.rules, g.rules, "ThresholdRule", RuleReach)
      BY ChangedShows
    <2>2. it \in Items(f, g) /\ it.class = NormativeHigh
      BY <1>1, <2>1 DEF Items, RuleItems, Item
    <2> HIDE DEF it
    <2>3. NormativeHigh =< Classify(f, g) /\ Classify(f, g) \in 0..3
      BY <2>2, ClassIsWidest
    <2> QED
      BY <2>3 DEF NormativeHigh
  <1>2. \A fld \in {"default", "factor", "kind", "path", "signal", "eligible", "dir", "divisor", "window"} :
            fld \in DOMAIN RuleReach /\ RuleReach[fld] = NormativeHigh
    BY DEF RuleReach
  <1> QED
    BY <1>1, <1>2 DEF SameBar

\* Below the behavioural class the rules bind the same, no signal goes, and phenomena
\* have the members and the checks they had.
LEMMA BindingsStay ==
    ASSUME NEW f, NEW g, Classify(f, g) < BehaviouralMedium
    PROVE  /\ DOMAIN f.rules = DOMAIN g.rules
           /\ \A id \in DOMAIN f.rules : SameBinding(f.rules[id], g.rules[id])
  <1>1. \A it \in Items(f, g) : ~(it.class >= BehaviouralMedium)
    <2>1. \A it \in Items(f, g) : it.class \in 0..3 /\ it.class =< Classify(f, g) /\ Classify(f, g) \in 0..3
      BY ClassIsWidest, ClassesAreFour
    <2> QED
      BY <2>1 DEF BehaviouralMedium
  <1>2. DOMAIN g.rules \subseteq DOMAIN f.rules
    <2> SUFFICES ASSUME NEW id \in DOMAIN g.rules \ DOMAIN f.rules PROVE FALSE
      OBVIOUS
    <2> DEFINE it == Item(id, "ThresholdRule", "added", BehaviouralMedium)
    <2>1. it \in Items(f, g) /\ it.class = BehaviouralMedium
      BY DEF Items, RuleItems, Added, Item
    <2> QED
      BY <1>1, <2>1 DEF BehaviouralMedium
  <1>3. DOMAIN f.rules \subseteq DOMAIN g.rules
    <2> SUFFICES ASSUME NEW id \in DOMAIN f.rules \ DOMAIN g.rules PROVE FALSE
      OBVIOUS
    <2> DEFINE class == IF f.rules[id].default # NoDefault THEN NormativeHigh ELSE BehaviouralMedium
               it == Item(id, "ThresholdRule", "removed", class)
    <2>1. it \in Items(f, g)
      BY DEF Items, RuleItems
    <2>2. it.class >= BehaviouralMedium
      BY DEF Item, NormativeHigh, BehaviouralMedium
    <2> QED
      BY <1>1, <2>1, <2>2
  <1>4. ASSUME NEW id \in DOMAIN f.rules PROVE SameBinding(f.rules[id], g.rules[id])
    <2>1. Classify(f, g) < NormativeHigh
      BY ClassIsWidest DEF BehaviouralMedium, NormativeHigh
    <2>2. SameBar(f.rules[id], g.rules[id])
      BY <1>2, <1>3, <2>1, BarsStay
    <2>3. ASSUME NEW fld \in {"scope", "metric"} PROVE f.rules[id][fld] = g.rules[id][fld]
      <3> SUFFICES ASSUME f.rules[id][fld] # g.rules[id][fld] PROVE FALSE
        OBVIOUS
      <3> DEFINE it == Item(id, "ThresholdRule", "changed", RuleReach[fld])
      <3>1. fld \in DOMAIN RuleReach /\ RuleReach[fld] = BehaviouralMedium
        BY DEF RuleReach
      <3>2. it \in Changed(f.rules, g.rules, "ThresholdRule", RuleReach)
        BY <1>2, <1>3, <3>1, ChangedShows
      <3>3. it \in Items(f, g) /\ it.class = BehaviouralMedium
        BY <3>1, <3>2 DEF Items, RuleItems, Item
      <3> QED
        BY <1>1, <3>3 DEF BehaviouralMedium
    <2> QED
      BY <2>2, <2>3 DEF SameBinding
  <1> QED
    BY <1>2, <1>3, <1>4

LEMMA OntologyStays ==
    ASSUME NEW f, NEW g, Classify(f, g) < BehaviouralMedium, WellFormed(f), WellFormed(g)
    PROVE  /\ DOMAIN f.signals \subseteq DOMAIN g.signals
           /\ DOMAIN f.phenomena = DOMAIN g.phenomena
           /\ \A id \in DOMAIN f.phenomena :
                 /\ f.phenomena[id].members = g.phenomena[id].members
                 /\ f.phenomena[id].checks = g.phenomena[id].checks
  <1>1. \A it \in Items(f, g) : it.class # BehaviouralMedium
    <2>1. \A it \in Items(f, g) : it.class \in 0..3 /\ it.class =< Classify(f, g) /\ Classify(f, g) \in 0..3
      BY ClassIsWidest, ClassesAreFour
    <2> QED
      BY <2>1 DEF BehaviouralMedium
  <1> DEFINE Two(id, kind, op) == Item(id, kind, op, BehaviouralMedium)
  <1>2. \A id, kind, op : Two(id, kind, op) \notin Items(f, g)
    BY <1>1 DEF Item
  <1>3. DOMAIN f.signals \subseteq DOMAIN g.signals
    <2>1. \A id \in DOMAIN f.signals \ DOMAIN g.signals : Two(id, "Signal", "removed") \in Items(f, g)
      BY DEF Items, SignalItems, Removed
    <2> QED
      BY <1>2, <2>1
  <1>4. DOMAIN f.phenomena = DOMAIN g.phenomena
    <2>1. \A id \in DOMAIN f.phenomena \ DOMAIN g.phenomena : Two(id, "Phenomenon", "removed") \in Items(f, g)
      BY DEF Items, PhenomenonItems, Removed
    <2>2. \A id \in DOMAIN g.phenomena \ DOMAIN f.phenomena : Two(id, "Phenomenon", "added") \in Items(f, g)
      BY DEF Items, PhenomenonItems, Added
    <2> QED
      BY <1>2, <2>1, <2>2
  <1>5. ASSUME NEW id \in DOMAIN f.phenomena
        PROVE  f.phenomena[id].members = g.phenomena[id].members
    <2>1. "members" \in DOMAIN PhenomenonReach /\ PhenomenonReach["members"] = BehaviouralMedium
      BY DEF PhenomenonReach
    <2> SUFFICES ASSUME f.phenomena[id]["members"] # g.phenomena[id]["members"] PROVE FALSE
      OBVIOUS
    <2>2. Two(id, "Phenomenon", "changed") \in Changed(f.phenomena, g.phenomena, "Phenomenon", PhenomenonReach)
      BY <1>4, <2>1, ChangedShows
    <2> QED
      BY <1>2, <2>2 DEF Items, PhenomenonItems
  <1>6. ASSUME NEW id \in DOMAIN f.phenomena
        PROVE  f.phenomena[id].checks = g.phenomena[id].checks
    <2> DEFINE a == f.phenomena[id].checks
               b == g.phenomena[id].checks
               OpOf(c) == IF \E x \in b : x.signal = c.signal THEN "changed" ELSE "removed"
    <2>1. \A c \in a \ b : Two(id, "DetectionCheck", OpOf(c)) \in CheckItems(f.phenomena, g.phenomena)
      BY <1>4 DEF CheckItems
    <2>2. \A c \in b : (\A y \in a : y.signal # c.signal)
              => Two(id, "DetectionCheck", "added") \in CheckItems(f.phenomena, g.phenomena)
      BY <1>4 DEF CheckItems
    <2> HIDE DEF OpOf
    <2>3. CheckItems(f.phenomena, g.phenomena) \subseteq Items(f, g)
      BY DEF Items
    <2>4. a \subseteq b
      BY <1>2, <2>1, <2>3
    <2>5. \A c \in b : \E y \in a : y.signal = c.signal
      BY <1>2, <2>2, <2>3
    <2>6. \A c, y \in b : c.signal = y.signal => c = y
      BY <1>4 DEF WellFormed
    <2> HIDE DEF a, b
    <2>7. b \subseteq a
      BY <2>4, <2>5, <2>6
    <2>8. a = b
      BY <2>4, <2>7
    <2> QED
      BY <2>8 DEF a, b
  <1> QED
    BY <1>3, <1>4, <1>5, <1>6

-----------------------------------------------------------------------------
(* What a cluster shows under two releases.                                  *)

\* The same signals from the same sources are obtainable to the same extent.
LEMMA AvailabilityStays ==
    ASSUME NEW f, NEW g, SameTelemetry(f, g), NEW facts,
           NEW id \in DOMAIN f.signals \cap DOMAIN g.signals
    PROVE  GateSignals(f, facts)[id] = GateSignals(g, facts)[id]
  <1> DEFINE Gated(tools, caps, gates, present, active) ==
          [state |-> Worst({ToolVerdict([tools |-> tools], present)} \cup
                           {CapabilityMet(c, present, facts) : c \in caps}),
           gates |-> gates \cap active]
  <1>1. \A s, present : ToolVerdict(s, present) = ToolVerdict([tools |-> s.tools], present)
    BY DEF ToolVerdict
  <1>2. ASSUME NEW h, NEW s \in DOMAIN h.signals
        PROVE  GateSignals(h, facts)[s] = Gated(h.signals[s].tools, h.signals[s].caps, h.signals[s].gates,
                                                DetectTools(h, facts), ActiveGates(h, facts))
    BY <1>1 DEF GateSignals
  <1>3. DetectTools(f, facts) = DetectTools(g, facts) /\ ActiveGates(f, facts) = ActiveGates(g, facts)
    <2>1. f.tools = g.tools /\ f.gates = g.gates
      BY DEF SameTelemetry
    <2> QED
      BY <2>1 DEF DetectTools, ActiveGates
  <1>4. /\ f.signals[id].tools = g.signals[id].tools /\ f.signals[id].caps = g.signals[id].caps
        /\ f.signals[id].gates = g.signals[id].gates
    BY DEF SameTelemetry
  <1> HIDE DEF Gated
  <1>5. /\ id \in DOMAIN f.signals /\ id \in DOMAIN g.signals
    OBVIOUS
  <1> QED
    BY <1>2, <1>3, <1>4, <1>5

LEMMA ObtainableKnown == \A g, facts : DOMAIN GateSignals(g, facts) = DOMAIN g.signals
  BY DEF GateSignals

\* Two rules of one bar make the same bars.
LEMMA BarsOfRules ==
    ASSUME NEW r, NEW s, SameBar(r, s)
    PROVE  /\ DefaultBar(r) = DefaultBar(s)
           /\ \A declared, unit : ConfigBar(r, declared, unit) = ConfigBar(s, declared, unit)
           /\ \A c : ContainerBar(r, c) = ContainerBar(s, c)
  <1>1. r.kind = s.kind /\ r.dir = s.dir /\ r.window = s.window /\ r.default = s.default /\ r.factor = s.factor
        /\ r.path = s.path
    BY DEF SameBar
  <1>2. \A source, value, unit : BarOf(r, source, value, unit) = BarOf(s, source, value, unit)
    BY <1>1 DEF BarOf
  <1>3. DefaultBar(r) = DefaultBar(s)
    BY <1>1, <1>2 DEF DefaultBar
  <1>4. \A declared, unit : ConfigBar(r, declared, unit) = ConfigBar(s, declared, unit)
    BY <1>1, <1>2 DEF ConfigBar
  <1>5. ASSUME NEW c PROVE ContainerBar(r, c) = ContainerBar(s, c)
    <2> DEFINE read == ReadContainerPath(s.path, c)
    <2>1. \A h : ContainerBar(h, c) =
                 CASE h.kind = "config-relative" ->
                         ConfigBar(h, ReadContainerPath(h.path, c)[1], ReadContainerPath(h.path, c)[2])
                   [] h.kind \in {"absolute", "rate-of-change"} -> DefaultBar(h)
                   [] OTHER -> NoBar
      BY DEF ContainerBar
    <2>2. ConfigBar(r, read[1], read[2]) = ConfigBar(s, read[1], read[2])
      BY <1>4
    <2> HIDE DEF read
    <2>3. ReadContainerPath(r.path, c) = read /\ ReadContainerPath(s.path, c) = read
      BY <1>1 DEF read
    <2> QED
      BY <1>1, <1>3, <2>1, <2>2, <2>3
  <1> QED
    BY <1>3, <1>4, <1>5

\* The name of a container, and the role of a row, that are not there.
NoName == ""

\* Where a binding of one rule is, and what it is there.
AtPod(b, rule, out) ==
    /\ rule.scope = "Container"
    /\ \E row \in OfKind(Inventory, "Pod") :
           IF out THEN b = BindingOf(rule, "Container", row.cei, row.role, NoName, "out-of-scope", NoBar)
           ELSE b \in BindContainers(rule, row, Configuration)

AtNode(b, rule, out) ==
    /\ rule.scope = "Node"
    /\ \E row \in OfKind(Inventory, "Node") :
           b = IF out THEN BindingOf(rule, "Node", row.cei, NoName, NoName, "out-of-scope", NoBar)
               ELSE BindNode(rule, row, Configuration)

AtClaim(b, rule, out) ==
    /\ rule.scope = "PVC"
    /\ \E p \in DOMAIN Configuration.pvcs :
           b = IF out THEN BindingOf(rule, "PVC", p, NoName, NoName, "out-of-scope", NoBar)
               ELSE BindPVC(rule, p, Configuration)

Binds(rule, avail) == Instantiate(rule, Inventory, Configuration, avail)

LEMMA BindingsHaveSites ==
    ASSUME NEW rule, NEW avail, NEW b \in Binds(rule, avail)
    PROVE  LET out == Unobtainable(rule, avail)
           IN  AtPod(b, rule, out) \/ AtNode(b, rule, out) \/ AtClaim(b, rule, out)
  <1> DEFINE out == Unobtainable(rule, avail)
             Out(cei, role) == BindingOf(rule, rule.scope, cei, role, NoName, "out-of-scope", NoBar)
             Pods(row) == BindContainers(rule, row, Configuration)
  <1>1. CASE out
    <2>1. b \in BindAllOutOfScope(rule, Inventory, Configuration)
      BY <1>1 DEF Binds, Instantiate
    <2>2. \/ rule.scope = "Container" /\ \E row \in OfKind(Inventory, "Pod") : b = Out(row.cei, row.role)
          \/ rule.scope = "Node" /\ \E row \in OfKind(Inventory, "Node") : b = Out(row.cei, NoName)
          \/ rule.scope = "PVC" /\ \E p \in DOMAIN Configuration.pvcs : b = Out(p, NoName)
      BY <2>1 DEF BindAllOutOfScope, NoName
    <2> QED
      BY <1>1, <2>2 DEF AtPod, AtNode, AtClaim
  <1>2. CASE ~out
    <2>1. \/ rule.scope = "Container" /\ b \in UNION {Pods(row) : row \in OfKind(Inventory, "Pod")}
          \/ rule.scope = "Node" /\ b \in {BindNode(rule, row, Configuration) : row \in OfKind(Inventory, "Node")}
          \/ rule.scope = "PVC" /\ b \in {BindPVC(rule, p, Configuration) : p \in DOMAIN Configuration.pvcs}
      BY <1>2 DEF Binds, Instantiate
    <2>2. CASE rule.scope = "Container"
      <3>1. b \in UNION {Pods(row) : row \in OfKind(Inventory, "Pod")}
        BY <2>1, <2>2
      <3>2. PICK row \in OfKind(Inventory, "Pod") : b \in Pods(row)
        BY <3>1
      <3> QED
        BY <1>2, <2>2, <3>2 DEF AtPod
    <2> HIDE DEF Pods
    <2>3. CASE rule.scope = "Node"
      BY <1>2, <2>1, <2>3 DEF AtNode
    <2>4. CASE rule.scope = "PVC"
      BY <1>2, <2>1, <2>4 DEF AtClaim
    <2> QED
      BY <2>1, <2>2, <2>3, <2>4
  <1> QED
    BY <1>1, <1>2

\* What a pod has of one rule, for each container that it declares.
LEMMA PodBindings ==
    ASSUME NEW rule, NEW row, NEW b \in BindContainers(rule, row, Configuration)
    PROVE  LET cs == Configuration.pods[row.name]
           IN  IF row.name \notin DOMAIN Configuration.pods
               THEN b = BindingOf(rule, "Container", row.cei, row.role, NoName, "unresolved", NoBar)
               ELSE b = IF EligibilityMet(rule.eligible, cs[b.container])
                        THEN BindingOf(rule, "Container", row.cei, row.role, b.container, "bound",
                                       ContainerBar(rule, cs[b.container]))
                        ELSE BindingOf(rule, "Container", row.cei, row.role, b.container, "out-of-scope", NoBar)
  <1> DEFINE cs == Configuration.pods[row.name]
             Of(c) == IF EligibilityMet(rule.eligible, cs[c])
                      THEN BindingOf(rule, "Container", row.cei, row.role, c, "bound", ContainerBar(rule, cs[c]))
                      ELSE BindingOf(rule, "Container", row.cei, row.role, c, "out-of-scope", NoBar)
  <1>1. \A c : Of(c).container = c
    BY DEF BindingOf
  <1>2. CASE row.name \in DOMAIN Configuration.pods
    <2>1. PICK c \in DOMAIN cs : b = Of(c)
      BY <1>2 DEF BindContainers
    <2> HIDE DEF Of
    <2>2. b = Of(b.container)
      BY <1>1, <2>1
    <2> QED
      BY <1>2, <2>2 DEF Of
  <1>3. CASE row.name \notin DOMAIN Configuration.pods
    BY <1>3 DEF BindContainers, NoName
  <1> QED
    BY <1>2, <1>3

LEMMA NodeAndClaimBindings ==
    /\ \A rule, row, cfg : \E bar : BindNode(rule, row, cfg) = BindingOf(rule, "Node", row.cei, NoName, NoName, "bound", bar)
    /\ \A rule, p, cfg : \E bar : BindPVC(rule, p, cfg) = BindingOf(rule, "PVC", p, NoName, NoName, "bound", bar)
  BY DEF BindNode, BindPVC, NoName

\* A rule that keeps its bar has it at every site that it keeps; one that keeps all it binds
\* with has the same binding there.
LEMMA SitesKeepBars ==
    ASSUME NEW r, NEW s, SameBar(r, s), NEW a, NEW z, Unobtainable(r, a) <=> Unobtainable(s, z),
           NEW b \in Binds(r, a), NEW c \in Binds(s, z),
           b.cei = c.cei, b.container = c.container
    PROVE  /\ b.bar = c.bar
           /\ r.scope = s.scope /\ r.metric = s.metric /\ r.id = s.id => b = c
  <1> DEFINE out == Unobtainable(r, a)
             same == r.metric = s.metric /\ r.id = s.id
  <1>1. \A scope, cei, role, container, state, bar :
            LET x == BindingOf(r, scope, cei, role, container, state, bar)
                y == BindingOf(s, scope, cei, role, container, state, bar)
            IN  /\ x.bar = bar /\ y.bar = bar /\ x.cei = cei /\ y.cei = cei
                /\ same => x = y
    BY DEF BindingOf
  <1>2. /\ AtPod(b, r, out) \/ AtNode(b, r, out) \/ AtClaim(b, r, out)
        /\ AtPod(c, s, out) \/ AtNode(c, s, out) \/ AtClaim(c, s, out)
    <2>1. AtPod(b, r, out) \/ AtNode(b, r, out) \/ AtClaim(b, r, out)
      BY BindingsHaveSites
    <2>2. LET o == Unobtainable(s, z) IN AtPod(c, s, o) \/ AtNode(c, s, o) \/ AtClaim(c, s, o)
      BY BindingsHaveSites
    <2>3. (out = TRUE /\ Unobtainable(s, z) = TRUE) \/ (out = FALSE /\ Unobtainable(s, z) = FALSE)
      BY DEF Unobtainable
    <2> QED
      BY <2>1, <2>2, <2>3
  <1>3. \A x \in {b, c}, rule \in {r, s} :
           /\ AtPod(x, rule, out) => \E row \in Inventory : row.kind = "Pod" /\ x.cei = row.cei
           /\ AtNode(x, rule, out) => \E row \in Inventory : row.kind = "Node" /\ x.cei = row.cei
           /\ AtClaim(x, rule, out) => x.cei \in DOMAIN Configuration.pvcs
    <2> TAKE x \in {b, c}, rule \in {r, s}
    <2>1. ASSUME AtPod(x, rule, out) PROVE \E row \in Inventory : row.kind = "Pod" /\ x.cei = row.cei
      <3>1. PICK row \in OfKind(Inventory, "Pod") :
                IF out THEN x = BindingOf(rule, "Container", row.cei, row.role, NoName, "out-of-scope", NoBar)
                ELSE x \in BindContainers(rule, row, Configuration)
        BY <2>1 DEF AtPod
      <3>2. x.cei = row.cei
        BY <3>1, PodBindings DEF BindingOf
      <3> QED
        BY <3>2 DEF OfKind
    <2>2. ASSUME AtNode(x, rule, out) PROVE \E row \in Inventory : row.kind = "Node" /\ x.cei = row.cei
      BY <2>2, NodeAndClaimBindings DEF AtNode, OfKind, BindingOf
    <2>3. ASSUME AtClaim(x, rule, out) PROVE x.cei \in DOMAIN Configuration.pvcs
      BY <2>3, NodeAndClaimBindings DEF AtClaim, BindingOf
    <2> QED
      BY <2>1, <2>2, <2>3
  <1>4. \A row, other \in Inventory : row.cei = other.cei => row = other
    BY InventoryAssumption DEF InventoryAssumption
  <1>5. \A row \in Inventory : row.cei \notin DOMAIN Configuration.pvcs
    BY InventoryAssumption DEF InventoryAssumption
  <1>6. \/ AtPod(b, r, out) /\ AtPod(c, s, out)
        \/ AtNode(b, r, out) /\ AtNode(c, s, out)
        \/ AtClaim(b, r, out) /\ AtClaim(c, s, out)
    BY <1>2, <1>3, <1>4, <1>5
  <1>7. CASE AtPod(b, r, out) /\ AtPod(c, s, out)
    <2>1. PICK row \in OfKind(Inventory, "Pod") :
              IF out THEN b = BindingOf(r, "Container", row.cei, row.role, NoName, "out-of-scope", NoBar)
              ELSE b \in BindContainers(r, row, Configuration)
      BY <1>7 DEF AtPod
    <2>2. PICK other \in OfKind(Inventory, "Pod") :
              IF out THEN c = BindingOf(s, "Container", other.cei, other.role, NoName, "out-of-scope", NoBar)
              ELSE c \in BindContainers(s, other, Configuration)
      BY <1>7 DEF AtPod
    <2>3. b.cei = row.cei /\ c.cei = other.cei
      BY <2>1, <2>2, PodBindings DEF BindingOf
    <2>4. row = other
      BY <1>4, <2>3 DEF OfKind
    <2>5. CASE out
      BY <1>1, <2>1, <2>2, <2>4, <2>5
    <2>6. CASE ~out /\ row.name \notin DOMAIN Configuration.pods
      <3>1. /\ b = BindingOf(r, "Container", row.cei, row.role, NoName, "unresolved", NoBar)
            /\ c = BindingOf(s, "Container", row.cei, row.role, NoName, "unresolved", NoBar)
        BY <2>1, <2>2, <2>4, <2>6, PodBindings
      <3> QED
        BY <1>1, <3>1
    <2>7. CASE ~out /\ row.name \in DOMAIN Configuration.pods
      <3> DEFINE cs == Configuration.pods[row.name][b.container]
      <3>1. r.eligible = s.eligible /\ ContainerBar(r, cs) = ContainerBar(s, cs)
        BY BarsOfRules DEF SameBar
      <3>2. /\ b = IF EligibilityMet(r.eligible, cs)
                   THEN BindingOf(r, "Container", row.cei, row.role, b.container, "bound", ContainerBar(r, cs))
                   ELSE BindingOf(r, "Container", row.cei, row.role, b.container, "out-of-scope", NoBar)
            /\ c = IF EligibilityMet(s.eligible, cs)
                   THEN BindingOf(s, "Container", row.cei, row.role, b.container, "bound", ContainerBar(s, cs))
                   ELSE BindingOf(s, "Container", row.cei, row.role, b.container, "out-of-scope", NoBar)
        BY <2>1, <2>2, <2>4, <2>7, PodBindings
      <3> HIDE DEF cs
      <3> QED
        BY <1>1, <3>1, <3>2
    <2> QED
      BY <2>5, <2>6, <2>7
  <1>8. CASE AtNode(b, r, out) /\ AtNode(c, s, out)
    <2>1. PICK row \in OfKind(Inventory, "Node") :
              b = IF out THEN BindingOf(r, "Node", row.cei, NoName, NoName, "out-of-scope", NoBar)
                  ELSE BindNode(r, row, Configuration)
      BY <1>8 DEF AtNode
    <2>2. PICK other \in OfKind(Inventory, "Node") :
              c = IF out THEN BindingOf(s, "Node", other.cei, NoName, NoName, "out-of-scope", NoBar)
                  ELSE BindNode(s, other, Configuration)
      BY <1>8 DEF AtNode
    <2>3. b.cei = row.cei /\ c.cei = other.cei
      BY <2>1, <2>2, NodeAndClaimBindings DEF BindingOf
    <2>4. row = other
      BY <1>4, <2>3 DEF OfKind
    <2> DEFINE limit == Declared(Configuration.nodes, row.name)
               Bar(rule) == CASE rule.kind = "config-relative" -> ConfigBar(rule, limit, "bytes")
                              [] rule.kind \in {"absolute", "rate-of-change"} -> DefaultBar(rule)
                              [] OTHER -> NoBar
    <2>5. Bar(r) = Bar(s)
      <3>1. r.kind = s.kind /\ DefaultBar(r) = DefaultBar(s) /\ ConfigBar(r, limit, "bytes") = ConfigBar(s, limit, "bytes")
        BY BarsOfRules DEF SameBar
      <3> HIDE DEF limit
      <3> QED
        BY <3>1
    <2>6. \A rule : BindNode(rule, row, Configuration) = BindingOf(rule, "Node", row.cei, NoName, NoName, "bound", Bar(rule))
      BY DEF BindNode, NoName
    <2> HIDE DEF Bar
    <2> QED
      BY <1>1, <2>1, <2>2, <2>4, <2>5, <2>6
  <1>9. CASE AtClaim(b, r, out) /\ AtClaim(c, s, out)
    <2>1. PICK p \in DOMAIN Configuration.pvcs :
              b = IF out THEN BindingOf(r, "PVC", p, NoName, NoName, "out-of-scope", NoBar)
                  ELSE BindPVC(r, p, Configuration)
      BY <1>9 DEF AtClaim
    <2>2. PICK q \in DOMAIN Configuration.pvcs :
              c = IF out THEN BindingOf(s, "PVC", q, NoName, NoName, "out-of-scope", NoBar)
                  ELSE BindPVC(s, q, Configuration)
      BY <1>9 DEF AtClaim
    <2>3. p = q
      BY <2>1, <2>2, NodeAndClaimBindings DEF BindingOf
    <2> DEFINE limit == Declared(Configuration.pvcs, p)
               Bar(rule) == IF rule.kind = "config-relative" THEN ConfigBar(rule, limit, "bytes")
                            ELSE DefaultBar(rule)
    <2>4. Bar(r) = Bar(s)
      <3>1. r.kind = s.kind /\ DefaultBar(r) = DefaultBar(s) /\ ConfigBar(r, limit, "bytes") = ConfigBar(s, limit, "bytes")
        BY BarsOfRules DEF SameBar
      <3> HIDE DEF limit
      <3> QED
        BY <3>1
    <2>5. \A rule : BindPVC(rule, p, Configuration) = BindingOf(rule, "PVC", p, NoName, NoName, "bound", Bar(rule))
      BY DEF BindPVC, NoName
    <2> HIDE DEF Bar
    <2> QED
      BY <1>1, <2>1, <2>2, <2>3, <2>4, <2>5
  <1> QED
    BY <1>6, <1>7, <1>8, <1>9

LEMMA BindingsAreOfTheirRule ==
    ASSUME NEW rule, NEW avail, NEW b \in Binds(rule, avail)
    PROVE  /\ b.rule = rule.id /\ b.metric = rule.metric
           /\ DOMAIN b = {"rule", "metric", "entity", "cei", "role", "container", "state", "bar", "validation"}
           /\ \A x, y \in b.bar : x = y
  <1> DEFINE out == Unobtainable(rule, avail)
             Single(bar) == \A x, y \in bar : x = y
             Of(x) == /\ x.rule = rule.id /\ x.metric = rule.metric
                      /\ DOMAIN x = {"rule", "metric", "entity", "cei", "role", "container", "state", "bar", "validation"}
                      /\ \A v, w \in x.bar : v = w
  <1>1. \A scope, cei, role, container, state, bar :
            Single(bar) => Of(BindingOf(rule, scope, cei, role, container, state, bar))
    BY DEF BindingOf
  <1>2. Single(NoBar) /\ Single(DefaultBar(rule)) /\ \A declared, unit : Single(ConfigBar(rule, declared, unit))
    <2>1. \A source, value, unit : Single(BarOf(rule, source, value, unit))
      BY DEF BarOf
    <2> HIDE DEF Single
    <2>2. Single(NoBar)
      BY DEF Single, NoBar
    <2>3. Single(DefaultBar(rule))
      BY <2>1 DEF DefaultBar
    <2>4. \A declared, unit : Single(ConfigBar(rule, declared, unit))
      BY <2>1, <2>2 DEF ConfigBar
    <2> QED
      BY <2>2, <2>3, <2>4
  <1> HIDE DEF Single, Of
  <1>3. \A c : Single(ContainerBar(rule, c))
    BY <1>2 DEF ContainerBar
  <1>4. AtPod(b, rule, out) \/ AtNode(b, rule, out) \/ AtClaim(b, rule, out)
    BY BindingsHaveSites
  <1>5. CASE AtPod(b, rule, out)
    <2>1. PICK row \in OfKind(Inventory, "Pod") :
              IF out THEN b = BindingOf(rule, "Container", row.cei, row.role, NoName, "out-of-scope", NoBar)
              ELSE b \in BindContainers(rule, row, Configuration)
      BY <1>5 DEF AtPod
    <2>2. \/ \E role, state : b = BindingOf(rule, "Container", row.cei, role, NoName, state, NoBar)
          \/ \E state : b = BindingOf(rule, "Container", row.cei, row.role, b.container, state, NoBar)
          \/ \E c : b = BindingOf(rule, "Container", row.cei, row.role, b.container, "bound", ContainerBar(rule, c))
      BY <2>1, PodBindings
    <2> QED
      BY <1>1, <1>2, <1>3, <2>2 DEF Of
  <1>6. CASE AtNode(b, rule, out)
    <2>1. \A row : \E bar : Single(bar) /\ BindNode(rule, row, Configuration)
                                          = BindingOf(rule, "Node", row.cei, NoName, NoName, "bound", bar)
      <3> TAKE row
      <3> DEFINE bar == CASE rule.kind = "config-relative" ->
                                 ConfigBar(rule, Declared(Configuration.nodes, row.name), "bytes")
                          [] rule.kind \in {"absolute", "rate-of-change"} -> DefaultBar(rule)
                          [] OTHER -> NoBar
      <3>1. Single(bar)
        BY <1>2
      <3>2. BindNode(rule, row, Configuration) = BindingOf(rule, "Node", row.cei, NoName, NoName, "bound", bar)
        BY DEF BindNode, NoName
      <3> HIDE DEF bar
      <3> QED
        BY <3>1, <3>2
    <2> QED
      BY <1>1, <1>2, <1>6, <2>1 DEF AtNode, Of
  <1>7. CASE AtClaim(b, rule, out)
    <2>1. \A p : \E bar : Single(bar) /\ BindPVC(rule, p, Configuration)
                                        = BindingOf(rule, "PVC", p, NoName, NoName, "bound", bar)
      <3> TAKE p
      <3> DEFINE bar == IF rule.kind = "config-relative"
                        THEN ConfigBar(rule, Declared(Configuration.pvcs, p), "bytes") ELSE DefaultBar(rule)
      <3>1. Single(bar)
        BY <1>2
      <3>2. BindPVC(rule, p, Configuration) = BindingOf(rule, "PVC", p, NoName, NoName, "bound", bar)
        BY DEF BindPVC, NoName
      <3> HIDE DEF bar
      <3> QED
        BY <3>1, <3>2
    <2> QED
      BY <1>1, <1>2, <1>7, <2>1 DEF AtClaim, Of
  <1> QED
    BY <1>4, <1>5, <1>6, <1>7 DEF Of

\* The availability under one graph, and the verdict of a bound pair under it.
Avail(g) == GateSignals(g, Platform)
Checked(g, b) == ValidateOne(b, g.rules[b.rule], Avail(g), Evidence, Plausible(Configuration, FallbackMemory))
Shown(g, b) == IF b.state = "bound" THEN [b EXCEPT !.validation = Checked(g, b)] ELSE b

\* What is bound under a graph is what its rules bind, with a verdict.
LEMMA BoundAsShown ==
    ASSUME NEW g, WellFormed(g)
    PROVE  /\ BoundUnder(g).bindings = {Shown(g, b) : b \in UNION {Binds(g.rules[r], Avail(g)) : r \in DOMAIN g.rules}}
           /\ \A v \in BoundUnder(g).bindings :
                 \E r \in DOMAIN g.rules : \E b \in Binds(g.rules[r], Avail(g)) :
                     /\ v = Shown(g, b)
                     /\ v.rule = r /\ v.metric = g.rules[r].metric
                     /\ v.cei = b.cei /\ v.container = b.container /\ v.bar = b.bar
  <1> DEFINE All == UNION {Binds(g.rules[r], Avail(g)) : r \in DOMAIN g.rules}
  <1>1. BoundUnder(g).bindings = {Shown(g, b) : b \in All}
    BY DEF BoundUnder, ValidateBindings, Compile, Binds, Shown, Checked, Avail
  <1>2. ASSUME NEW v \in BoundUnder(g).bindings
        PROVE  \E r \in DOMAIN g.rules : \E b \in Binds(g.rules[r], Avail(g)) :
                   /\ v = Shown(g, b)
                   /\ v.rule = r /\ v.metric = g.rules[r].metric
                   /\ v.cei = b.cei /\ v.container = b.container /\ v.bar = b.bar
    <2>1. PICK b \in All : v = Shown(g, b)
      <3> HIDE DEF All
      <3> QED
        BY <1>1
    <2>2. PICK r \in DOMAIN g.rules : b \in Binds(g.rules[r], Avail(g))
      OBVIOUS
    <2>3. /\ b.rule = g.rules[r].id /\ b.metric = g.rules[r].metric
          /\ DOMAIN b = {"rule", "metric", "entity", "cei", "role", "container", "state", "bar", "validation"}
      BY <2>2, BindingsAreOfTheirRule
    <2>4. g.rules[r].id = r
      BY DEF WellFormed
    <2>5. /\ v.rule = b.rule /\ v.metric = b.metric /\ v.cei = b.cei /\ v.container = b.container
          /\ v.bar = b.bar
      BY <2>1, <2>3 DEF Shown
    <2> QED
      BY <2>1, <2>2, <2>3, <2>4, <2>5
  <1> QED
    BY <1>1, <1>2

\* Of two releases over the same telemetry, a rule that keeps its signal and its bar is as
\* obtainable as it was.
LEMMA RulesStayObtainable ==
    ASSUME NEW f, NEW g, WellFormed(f), WellFormed(g), SameTelemetry(f, g),
           NEW id \in DOMAIN f.rules \cap DOMAIN g.rules, f.rules[id].signal = g.rules[id].signal
    PROVE  /\ f.rules[id].signal \in DOMAIN Avail(f) /\ f.rules[id].signal \in DOMAIN Avail(g)
           /\ Avail(f)[f.rules[id].signal] = Avail(g)[f.rules[id].signal]
           /\ Unobtainable(f.rules[id], Avail(f)) <=> Unobtainable(g.rules[id], Avail(g))
  <1> DEFINE sig == f.rules[id].signal
  <1>1. sig \in DOMAIN f.signals /\ sig \in DOMAIN g.signals
    BY DEF WellFormed
  <1>2. sig \in DOMAIN Avail(f) /\ sig \in DOMAIN Avail(g)
    BY <1>1, ObtainableKnown DEF Avail
  <1>3. Avail(f)[sig] = Avail(g)[sig]
    BY <1>1, AvailabilityStays DEF Avail
  <1>4. Unobtainable(f.rules[id], Avail(f)) <=> Unobtainable(g.rules[id], Avail(g))
    BY <1>2, <1>3 DEF Unobtainable
  <1> QED
    BY <1>2, <1>3, <1>4

\* No bar moves under a binding that stays below the normative class.
LEMMA BarsMoveNormatively ==
    ASSUME NEW f, NEW g, WellFormed(f), WellFormed(g), SameTelemetry(f, g), Classify(f, g) < NormativeHigh
    PROVE  BindingDiff(BoundUnder(f).bindings, BoundUnder(g).bindings).bars = {}
  <1> DEFINE from == BoundUnder(f).bindings
             to == BoundUnder(g).bindings
  <1>1. ASSUME NEW v \in from, NEW w \in to, BindingKey(v) = BindingKey(w)
        PROVE  ~BarMoved(v.bar, w.bar)
    <2>1. v.cei = w.cei /\ v.container = w.container /\ v.rule = w.rule
      BY <1>1 DEF BindingKey
    <2>2. PICK r \in DOMAIN f.rules : \E b \in Binds(f.rules[r], Avail(f)) :
              v.rule = r /\ v.cei = b.cei /\ v.container = b.container /\ v.bar = b.bar
      BY BoundAsShown
    <2>3. PICK s \in DOMAIN g.rules : \E c \in Binds(g.rules[s], Avail(g)) :
              w.rule = s /\ w.cei = c.cei /\ w.container = c.container /\ w.bar = c.bar
      BY BoundAsShown
    <2>4. PICK b \in Binds(f.rules[r], Avail(f)) : v.cei = b.cei /\ v.container = b.container /\ v.bar = b.bar
      BY <2>2
    <2>5. r = s
      BY <2>1, <2>2, <2>3
    <2>6. PICK c \in Binds(g.rules[r], Avail(g)) : w.cei = c.cei /\ w.container = c.container /\ w.bar = c.bar
      BY <2>3, <2>5
    <2>7. SameBar(f.rules[r], g.rules[r])
      BY <2>3, <2>5, BarsStay
    <2>8. Unobtainable(f.rules[r], Avail(f)) <=> Unobtainable(g.rules[r], Avail(g))
      BY <2>3, <2>5, <2>7, RulesStayObtainable DEF SameBar
    <2>9. b.cei = c.cei /\ b.container = c.container
      BY <2>1, <2>4, <2>6
    <2>10. b.bar = c.bar
      BY <2>7, <2>8, <2>9, SitesKeepBars
    <2>11. \A x, y \in b.bar : x = y
      BY BindingsAreOfTheirRule
    <2> QED
      BY <2>4, <2>6, <2>10, <2>11 DEF BarMoved
  <1> DEFINE kept == {pair \in from \X to : BindingKey(pair[1]) = BindingKey(pair[2])}
             moved == {k \in kept : BarMoved(k[1].bar, k[2].bar)}
  <1>2. moved = {}
    <2> HIDE DEF from, to
    <2> QED
      BY <1>1
  <1>3. BindingDiff(from, to).bars = {BarChange(BindingKey(p[1]), p[1].bar, p[2].bar) : p \in moved}
    BY DEF BindingDiff
  <1> HIDE DEF moved
  <1> QED
    BY <1>2, <1>3

\* Two rules that bind the same, as obtainable as each other, have the same bindings.
LEMMA RulesBindTheSame ==
    ASSUME NEW r, NEW s, SameBinding(r, s), r.id = s.id,
           NEW a, NEW z, Unobtainable(r, a) <=> Unobtainable(s, z)
    PROVE  Binds(r, a) = Binds(s, z)
  <1>1. SameBar(r, s) /\ r.scope = s.scope /\ r.metric = s.metric /\ r.kind = s.kind /\ r.eligible = s.eligible
    BY DEF SameBinding, SameBar
  <1>2. \A scope, cei, role, container, state, bar :
            BindingOf(r, scope, cei, role, container, state, bar) = BindingOf(s, scope, cei, role, container, state, bar)
    BY <1>1 DEF BindingOf
  <1>3. /\ DefaultBar(r) = DefaultBar(s)
        /\ \A declared, unit : ConfigBar(r, declared, unit) = ConfigBar(s, declared, unit)
        /\ \A c : ContainerBar(r, c) = ContainerBar(s, c)
    BY <1>1, BarsOfRules
  <1>4. ASSUME NEW row PROVE BindContainers(r, row, Configuration) = BindContainers(s, row, Configuration)
    <2> DEFINE cs == Configuration.pods[row.name]
               Of(rule, c) == IF EligibilityMet(rule.eligible, cs[c])
                              THEN BindingOf(rule, "Container", row.cei, row.role, c, "bound", ContainerBar(rule, cs[c]))
                              ELSE BindingOf(rule, "Container", row.cei, row.role, c, "out-of-scope", NoBar)
    <2>1. \A c : Of(r, c) = Of(s, c)
      <3> TAKE c
      <3>1. EligibilityMet(r.eligible, cs[c]) <=> EligibilityMet(s.eligible, cs[c])
        BY <1>1
      <3>2. ContainerBar(r, cs[c]) = ContainerBar(s, cs[c])
        BY <1>3
      <3> HIDE DEF cs
      <3> QED
        BY <1>2, <3>1, <3>2
    <2>2. \A rule : BindContainers(rule, row, Configuration) =
              IF row.name \notin DOMAIN Configuration.pods
              THEN {BindingOf(rule, "Container", row.cei, row.role, NoName, "unresolved", NoBar)}
              ELSE {Of(rule, c) : c \in DOMAIN cs}
      BY DEF BindContainers, NoName
    <2> HIDE DEF Of, cs
    <2>3. {Of(r, c) : c \in DOMAIN cs} = {Of(s, c) : c \in DOMAIN cs}
      BY <2>1
    <2> QED
      BY <1>2, <2>2, <2>3
  <1>5. ASSUME NEW row PROVE BindNode(r, row, Configuration) = BindNode(s, row, Configuration)
    <2> DEFINE limit == Declared(Configuration.nodes, row.name)
               Bar(rule) == CASE rule.kind = "config-relative" -> ConfigBar(rule, limit, "bytes")
                              [] rule.kind \in {"absolute", "rate-of-change"} -> DefaultBar(rule)
                              [] OTHER -> NoBar
    <2>1. ConfigBar(r, limit, "bytes") = ConfigBar(s, limit, "bytes")
      BY <1>3
    <2>2. Bar(r) = Bar(s)
      <3> HIDE DEF limit
      <3> QED
        BY <1>1, <1>3, <2>1
    <2>3. \A rule : BindNode(rule, row, Configuration) = BindingOf(rule, "Node", row.cei, NoName, NoName, "bound", Bar(rule))
      BY DEF BindNode, NoName
    <2> HIDE DEF Bar
    <2> QED
      BY <1>2, <2>2, <2>3
  <1>6. ASSUME NEW p PROVE BindPVC(r, p, Configuration) = BindPVC(s, p, Configuration)
    <2> DEFINE limit == Declared(Configuration.pvcs, p)
               Bar(rule) == IF rule.kind = "config-relative" THEN ConfigBar(rule, limit, "bytes")
                            ELSE DefaultBar(rule)
    <2>1. ConfigBar(r, limit, "bytes") = ConfigBar(s, limit, "bytes")
      BY <1>3
    <2>2. Bar(r) = Bar(s)
      <3> HIDE DEF limit
      <3> QED
        BY <1>1, <1>3, <2>1
    <2>3. \A rule : BindPVC(rule, p, Configuration) = BindingOf(rule, "PVC", p, NoName, NoName, "bound", Bar(rule))
      BY DEF BindPVC, NoName
    <2> HIDE DEF Bar
    <2> QED
      BY <1>2, <2>2, <2>3
  <1> DEFINE Out(rule, cei, role) == BindingOf(rule, rule.scope, cei, role, NoName, "out-of-scope", NoBar)
             Outs(rule) ==
                 CASE rule.scope = "Container" -> {Out(rule, x.cei, x.role) : x \in OfKind(Inventory, "Pod")}
                   [] rule.scope = "Node"      -> {Out(rule, x.cei, NoName) : x \in OfKind(Inventory, "Node")}
                   [] rule.scope = "PVC"       -> {Out(rule, p, NoName) : p \in DOMAIN Configuration.pvcs}
                   [] OTHER                    -> {}
             Ins(rule) ==
                 CASE rule.scope = "Container" ->
                          UNION {BindContainers(rule, x, Configuration) : x \in OfKind(Inventory, "Pod")}
                   [] rule.scope = "Node"      -> {BindNode(rule, x, Configuration) : x \in OfKind(Inventory, "Node")}
                   [] rule.scope = "PVC"       -> {BindPVC(rule, p, Configuration) : p \in DOMAIN Configuration.pvcs}
                   [] OTHER                    -> {}
  <1>7. \A rule, avail : Binds(rule, avail) = IF Unobtainable(rule, avail) THEN Outs(rule) ELSE Ins(rule)
    <2>1. \A rule : BindAllOutOfScope(rule, Inventory, Configuration) = Outs(rule)
      BY DEF BindAllOutOfScope, NoName
    <2> HIDE DEF Outs
    <2> QED
      BY <2>1 DEF Binds, Instantiate
  <1>8. Outs(r) = Outs(s)
    <2>1. \A cei, role : Out(r, cei, role) = Out(s, cei, role)
      BY <1>1, <1>2
    <2> HIDE DEF Out
    <2>2. /\ {Out(r, x.cei, x.role) : x \in OfKind(Inventory, "Pod")} = {Out(s, x.cei, x.role) : x \in OfKind(Inventory, "Pod")}
          /\ {Out(r, x.cei, NoName) : x \in OfKind(Inventory, "Node")} = {Out(s, x.cei, NoName) : x \in OfKind(Inventory, "Node")}
          /\ {Out(r, p, NoName) : p \in DOMAIN Configuration.pvcs} = {Out(s, p, NoName) : p \in DOMAIN Configuration.pvcs}
      BY <2>1
    <2> QED
      BY <1>1, <2>2
  <1>9. Ins(r) = Ins(s)
    <2>1. {BindContainers(r, x, Configuration) : x \in OfKind(Inventory, "Pod")}
              = {BindContainers(s, x, Configuration) : x \in OfKind(Inventory, "Pod")}
      BY <1>4
    <2>2. {BindNode(r, x, Configuration) : x \in OfKind(Inventory, "Node")}
              = {BindNode(s, x, Configuration) : x \in OfKind(Inventory, "Node")}
      BY <1>5
    <2>3. {BindPVC(r, p, Configuration) : p \in DOMAIN Configuration.pvcs}
              = {BindPVC(s, p, Configuration) : p \in DOMAIN Configuration.pvcs}
      BY <1>6
    <2> QED
      BY <1>1, <2>1, <2>2, <2>3
  <1> HIDE DEF Ins, Outs
  <1> QED
    BY <1>7, <1>8, <1>9

\* Below the behavioural class a cluster shows the same bindings, verdicts included.
LEMMA BindingsShownStay ==
    ASSUME NEW f, NEW g, WellFormed(f), WellFormed(g), SameTelemetry(f, g), Classify(f, g) < BehaviouralMedium
    PROVE  BoundUnder(f).bindings = BoundUnder(g).bindings
  <1>1. /\ DOMAIN f.rules = DOMAIN g.rules
        /\ \A r \in DOMAIN f.rules : SameBinding(f.rules[r], g.rules[r])
    BY BindingsStay
  <1>2. ASSUME NEW r \in DOMAIN f.rules
        PROVE  /\ Binds(f.rules[r], Avail(f)) = Binds(g.rules[r], Avail(g))
               /\ \A b \in Binds(f.rules[r], Avail(f)) : Shown(f, b) = Shown(g, b)
    <2>1. f.rules[r].signal = g.rules[r].signal /\ f.rules[r].divisor = g.rules[r].divisor
      BY <1>1 DEF SameBinding, SameBar
    <2>2. f.rules[r].id = r /\ g.rules[r].id = r
      BY <1>1 DEF WellFormed
    <2>3. /\ f.rules[r].signal \in DOMAIN Avail(f) /\ f.rules[r].signal \in DOMAIN Avail(g)
          /\ Avail(f)[f.rules[r].signal] = Avail(g)[f.rules[r].signal]
          /\ Unobtainable(f.rules[r], Avail(f)) <=> Unobtainable(g.rules[r], Avail(g))
      BY <1>1, <2>1, RulesStayObtainable
    <2>4. Binds(f.rules[r], Avail(f)) = Binds(g.rules[r], Avail(g))
      BY <1>1, <2>2, <2>3, RulesBindTheSame
    <2>5. ASSUME NEW b \in Binds(f.rules[r], Avail(f)) PROVE Shown(f, b) = Shown(g, b)
      <3>1. b.rule = r
        BY <2>2, BindingsAreOfTheirRule
      <3> DEFINE divisor == f.rules[r].divisor
                 sig == f.rules[r].signal
      <3>2. divisor = g.rules[r].divisor /\ sig = g.rules[r].signal
        BY <2>1
      <3>3. /\ sig \in DOMAIN Avail(f) /\ sig \in DOMAIN Avail(g)
            /\ Avail(f)[sig].gates = Avail(g)[sig].gates
        BY <2>3
      <3>4. ASSUME NEW rule, NEW other, NEW a, NEW z, NEW ev, NEW most, rule.divisor = other.divisor,
                   (rule.signal \in DOMAIN a /\ a[rule.signal].gates # {})
                   <=> (other.signal \in DOMAIN z /\ z[other.signal].gates # {})
            PROVE  ValidateOne(b, rule, a, ev, most) = ValidateOne(b, other, z, ev, most)
        BY <3>4 DEF ValidateOne
      <3>5. Checked(f, b) = Checked(g, b)
        <4> HIDE DEF divisor, sig
        <4>1. f.rules[r].divisor = divisor /\ f.rules[r].signal = sig
          BY DEF divisor, sig
        <4> QED
          BY <3>1, <3>2, <3>3, <3>4, <4>1 DEF Checked
      <3> QED
        BY <3>5 DEF Shown
    <2> QED
      BY <2>4, <2>5
  <1> DEFINE AllF == UNION {Binds(f.rules[r], Avail(f)) : r \in DOMAIN f.rules}
             AllG == UNION {Binds(g.rules[r], Avail(g)) : r \in DOMAIN g.rules}
  <1>3. AllF = AllG
    <2>1. {Binds(f.rules[r], Avail(f)) : r \in DOMAIN f.rules} = {Binds(g.rules[r], Avail(g)) : r \in DOMAIN g.rules}
      BY <1>1, <1>2
    <2> QED
      BY <2>1
  <1>4. \A b \in AllF : Shown(f, b) = Shown(g, b)
    <2> TAKE b \in AllF
    <2>1. PICK r \in DOMAIN f.rules : b \in Binds(f.rules[r], Avail(f))
      OBVIOUS
    <2> QED
      BY <1>2, <2>1
  <1>5. /\ BoundUnder(f).bindings = {Shown(f, b) : b \in AllF}
        /\ BoundUnder(g).bindings = {Shown(g, b) : b \in AllG}
    BY BoundAsShown
  <1> HIDE DEF AllF, AllG
  <1> QED
    BY <1>3, <1>4, <1>5

\* One key, one binding: the entity has one row, the container one place in it.
LEMMA KeysAreUnique ==
    ASSUME NEW g, WellFormed(g), NEW v \in BoundUnder(g).bindings, NEW w \in BoundUnder(g).bindings,
           BindingKey(v) = BindingKey(w)
    PROVE  v = w
  <1>1. v.cei = w.cei /\ v.container = w.container /\ v.rule = w.rule
    BY DEF BindingKey
  <1>2. PICK r \in DOMAIN g.rules : \E b \in Binds(g.rules[r], Avail(g)) :
            v.rule = r /\ v = Shown(g, b) /\ v.cei = b.cei /\ v.container = b.container
    BY BoundAsShown
  <1>3. PICK s \in DOMAIN g.rules : \E c \in Binds(g.rules[s], Avail(g)) :
            w.rule = s /\ w = Shown(g, c) /\ w.cei = c.cei /\ w.container = c.container
    BY BoundAsShown
  <1>4. PICK b \in Binds(g.rules[r], Avail(g)) : v = Shown(g, b) /\ v.cei = b.cei /\ v.container = b.container
    BY <1>2
  <1>5. r = s
    BY <1>1, <1>2, <1>3
  <1>6. PICK c \in Binds(g.rules[r], Avail(g)) : w = Shown(g, c) /\ w.cei = c.cei /\ w.container = c.container
    BY <1>3, <1>5
  <1>7. SameBar(g.rules[r], g.rules[r])
    BY DEF SameBar
  <1>8. b.cei = c.cei /\ b.container = c.container
    BY <1>1, <1>4, <1>6
  <1>9. b = c
    BY <1>7, <1>8, SitesKeepBars
  <1> QED
    BY <1>4, <1>6, <1>9

\* No required member of f becomes a signal in g: only signals are ever obtainable.
RequiredAlike(f, g) ==
    \A id \in DOMAIN f.phenomena : \A m \in f.phenomena[id].members :
        m.role = "required" /\ m.signal \in DOMAIN g.signals => m.signal \in DOMAIN f.signals

LEMMA ObservabilityStays ==
    ASSUME NEW f, NEW g, WellFormed(f), WellFormed(g), SameTelemetry(f, g), Classify(f, g) < BehaviouralMedium,
           RequiredAlike(f, g)
    PROVE  PhenomenonObservability(f, Avail(f)) = PhenomenonObservability(g, Avail(g))
  <1>1. /\ DOMAIN f.signals \subseteq DOMAIN g.signals
        /\ DOMAIN f.phenomena = DOMAIN g.phenomena
        /\ \A id \in DOMAIN f.phenomena : f.phenomena[id].members = g.phenomena[id].members
    BY OntologyStays
  <1>2. ASSUME NEW id \in DOMAIN f.phenomena
        PROVE  Observability(f.phenomena[id], Avail(f)) = Observability(g.phenomena[id], Avail(g))
    <2> DEFINE required == {m \in f.phenomena[id].members : m.role = "required"}
               Is(m, state, avail) == m.signal \in DOMAIN avail /\ avail[m.signal].state = state
               Grade(avail) ==
                   CASE required # {} /\ (\A m \in required : Is(m, Obtainable, avail)) -> "full"
                     [] (\E m \in required : Is(m, Obtainable, avail)) /\ (\E m \in required : ~Is(m, Obtainable, avail))
                            -> "partial"
                     [] OTHER -> "none"
    <2>1. \A m \in required : m.signal \in DOMAIN f.signals <=> m.signal \in DOMAIN g.signals
      BY <1>1 DEF RequiredAlike
    <2>2. \A m \in required : Is(m, Obtainable, Avail(f)) <=> Is(m, Obtainable, Avail(g))
      <3> TAKE m \in required
      <3>1. /\ m.signal \in DOMAIN Avail(f) <=> m.signal \in DOMAIN f.signals
            /\ m.signal \in DOMAIN Avail(g) <=> m.signal \in DOMAIN f.signals
        BY <2>1, ObtainableKnown DEF Avail
      <3>2. CASE m.signal \in DOMAIN f.signals
        <4>1. m.signal \in DOMAIN g.signals
          BY <2>1, <3>2
        <4>2. Avail(f)[m.signal] = Avail(g)[m.signal]
          BY <3>2, <4>1, AvailabilityStays DEF Avail
        <4> QED
          BY <3>1, <3>2, <4>2
      <3> QED
        BY <3>1, <3>2
    <2>3. Observability(f.phenomena[id], Avail(f)) = Grade(Avail(f))
      BY DEF Observability
    <2>4. Observability(g.phenomena[id], Avail(g)) = Grade(Avail(g))
      BY <1>1 DEF Observability
    <2> HIDE DEF required, Is
    <2>5. Grade(Avail(f)) = Grade(Avail(g))
      BY <2>2
    <2> QED
      BY <2>3, <2>4, <2>5
  <1> QED
    BY <1>1, <1>2 DEF PhenomenonObservability

LEMMA AttentionStays ==
    ASSUME NEW f, NEW g, WellFormed(f), WellFormed(g), SameTelemetry(f, g), Classify(f, g) < BehaviouralMedium
    PROVE  TierASet(BoundUnder(f).bindings, f) = TierASet(BoundUnder(f).bindings, g)
  <1> DEFINE bs == BoundUnder(f).bindings
             Earned(h, cei) == {id \in DOMAIN h.phenomena :
                                   \E b \in bs : b.cei = cei /\ Evaluable(b) /\ Earns(b, id, h)}
  <1>1. /\ DOMAIN f.phenomena = DOMAIN g.phenomena
        /\ \A id \in DOMAIN f.phenomena : /\ f.phenomena[id].members = g.phenomena[id].members
                                          /\ f.phenomena[id].checks = g.phenomena[id].checks
    BY OntologyStays
  <1>2. \A b \in bs : b.rule \in DOMAIN f.rules
    BY BoundAsShown
  <1>3. \A b \in bs : f.rules[b.rule].signal = g.rules[b.rule].signal
    BY <1>2, BindingsStay DEF SameBinding, SameBar
  <1> HIDE DEF bs
  <1>4. \A b \in bs, id \in DOMAIN f.phenomena : Earns(b, id, f) <=> Earns(b, id, g)
    BY <1>1, <1>3 DEF Earns
  <1>5. \A cei : Earned(f, cei) = Earned(g, cei)
    BY <1>1, <1>4
  <1>6. \A h : TierASet(bs, h) = [cei \in {c \in {b.cei : b \in bs} : Earned(h, c) # {}} |-> Earned(h, cei)]
    BY DEF TierASet
  <1> HIDE DEF Earned
  <1>7. {c \in {b.cei : b \in bs} : Earned(f, c) # {}} = {c \in {b.cei : b \in bs} : Earned(g, c) # {}}
    BY <1>5
  <1> QED
    BY <1>5, <1>6, <1>7 DEF bs

\* Below the behavioural class a cluster shows no effect at all.
LEMMA EffectsAreBehavioural ==
    ASSUME NEW f, NEW g, WellFormed(f), WellFormed(g), SameTelemetry(f, g), RequiredAlike(f, g),
           HasEffect(Migration(BoundUnder(f), BoundUnder(g)))
    PROVE  Classify(f, g) >= BehaviouralMedium
  <1> SUFFICES ASSUME Classify(f, g) < BehaviouralMedium PROVE ~HasEffect(Migration(BoundUnder(f), BoundUnder(g)))
    BY ClassIsWidest DEF BehaviouralMedium
  <1> DEFINE from == BoundUnder(f)
             to == BoundUnder(g)
             d == Migration(from, to)
  <1>1. from.bindings = to.bindings
    BY BindingsShownStay
  <1>2. from.observability = to.observability
    BY ObservabilityStays DEF BoundUnder, Avail
  <1>3. from.tierA = to.tierA
    <2>1. from.tierA = TierASet(from.bindings, f) /\ to.tierA = TierASet(to.bindings, g)
      BY DEF BoundUnder
    <2> HIDE DEF to
    <2> QED
      BY <1>1, <2>1, AttentionStays
  <1>4. BindingDiff(from.bindings, to.bindings).bars = {}
    <2>1. Classify(f, g) < NormativeHigh
      BY ClassIsWidest DEF BehaviouralMedium, NormativeHigh
    <2> QED
      BY <2>1, BarsMoveNormatively
  <1>5. \A v, w \in from.bindings : BindingKey(v) = BindingKey(w) => v = w
    BY KeysAreUnique
  <1> HIDE DEF from, to
  <1>6. LET diff == BindingDiff(from.bindings, to.bindings)
        IN  diff.gained = {} /\ diff.lost = {} /\ diff.validation = {}
    <2> DEFINE bs == from.bindings
               kept == {pair \in bs \X bs : BindingKey(pair[1]) = BindingKey(pair[2])}
               changed == {k \in kept : k[1].validation # k[2].validation}
    <2>1. changed = {}
      BY <1>5
    <2>2. LET diff == BindingDiff(bs, bs)
          IN  diff.gained = {} /\ diff.lost = {} /\ diff.validation = {BindingKey(p[1]) : p \in changed}
      BY DEF BindingDiff
    <2> HIDE DEF changed
    <2> QED
      BY <1>1, <2>1, <2>2
  <1>7. /\ ObservabilityShift(from.observability, to.observability) = {}
        /\ SelectionShift(from.tierA, to.tierA) = {}
    BY <1>2, <1>3 DEF ObservabilityShift, SelectionShift
  <1>8. d.gained = {} /\ d.lost = {} /\ d.bars = {} /\ d.validation = {} /\ d.observability = {} /\ d.selection = {}
    BY <1>4, <1>6, <1>7 DEF Migration
  <1> QED
    BY <1>8 DEF HasEffect, from, to

LEMMA RequiredKeepTheirKind ==
    ASSUME RequiredMembersKeepTheirKind, NEW from, NEW to, Loads(from), Loads(to)
    PROVE  RequiredAlike(LoadedAs[from].graph, LoadedAs[to].graph)
  <1> DEFINE file == Bases[from[1]]
             next == Bases[to[1]]
             f == LoadedAs[from].graph
             g == LoadedAs[to].graph
             Into(id) == {x \in file.edges : x.type = "participates_in" /\ x.dst = id}
  <1>1. /\ from[1] \in DOMAIN Bases /\ GrownFrom(file, f)
        /\ to[1] \in DOMAIN Bases /\ GrownFrom(next, g)
    BY PinsAreLoads
  <1>2. DOMAIN f.signals = IdsOf(file, {"Signal"}) /\ DOMAIN g.signals = IdsOf(next, {"Signal"})
    BY <1>1 DEF GrownFrom, Parse
  <1> SUFFICES ASSUME NEW id \in DOMAIN f.phenomena, NEW m \in f.phenomena[id].members, m.role = "required",
                      m.signal \in DOMAIN g.signals
               PROVE  m.signal \in DOMAIN f.signals
    BY DEF RequiredAlike
  <1>3. id \in IdsOf(file, {"CorrelationGroup"}) /\ m \in MembersOf(file, id)
    BY <1>1 DEF GrownFrom
  <1>4. PICK e \in Into(id) : m = [signal |-> e.src, role |-> e.role, early |-> e.early]
    BY <1>3 DEF MembersOf
  <1>5. m.signal = e.src /\ e.role = "required" /\ e.type = "participates_in" /\ e.dst = id /\ e \in file.edges
    BY <1>4
  <1> QED
    BY <1>1, <1>2, <1>3, <1>5 DEF RequiredMembersKeepTheirKind

\* What a pin stands for, where it stands for anything.
LEMMA LoadedPins ==
    ASSUME NEW pin, Loads(pin)
    PROVE  /\ GraphOf(pin) = LoadedAs[pin].graph /\ BoundOf(pin) = BoundUnder(LoadedAs[pin].graph)
           /\ WellFormed(LoadedAs[pin].graph)
  <1>1. pin # <<>>
    BY PinsAreNotEmpty DEF Loads
  <1>2. pin \in {x \in Pins : LoadedAs[x].ok}
    BY DEF Loads
  <1>3. BoundOf(pin) = BoundAs[pin] /\ BoundAs[pin] = BoundUnder(LoadedAs[pin].graph)
    BY <1>1, <1>2 DEF BoundOf, BoundAs
  <1>4. WellFormed(LoadedAs[pin].graph)
    BY PinsAreLoads DEF GrownFrom
  <1> QED
    BY <1>1, <1>3, <1>4 DEF GraphOf

LEMMA EffectsBetweenReleases ==
    ASSUME RequiredMembersKeepTheirKind, NEW a, NEW b, Loads(a), Loads(b), SameTelemetry(GraphOf(a), GraphOf(b))
    PROVE  LET d == Migration(BoundOf(a), BoundOf(b))
               class == Classify(GraphOf(a), GraphOf(b))
           IN  /\ HasEffect(d) => class >= BehaviouralMedium
               /\ d.bars # {} => class = NormativeHigh
  <1> DEFINE f == LoadedAs[a].graph
             g == LoadedAs[b].graph
  <1>1. /\ GraphOf(a) = f /\ BoundOf(a) = BoundUnder(f) /\ WellFormed(f)
        /\ GraphOf(b) = g /\ BoundOf(b) = BoundUnder(g) /\ WellFormed(g)
    BY LoadedPins
  <1>2. RequiredAlike(f, g) /\ SameTelemetry(f, g)
    BY <1>1, RequiredKeepTheirKind
  <1> HIDE DEF f, g
  <1>3. HasEffect(Migration(BoundUnder(f), BoundUnder(g))) => Classify(f, g) >= BehaviouralMedium
    BY <1>1, <1>2, EffectsAreBehavioural
  <1>4. Migration(BoundUnder(f), BoundUnder(g)).bars = BindingDiff(BoundUnder(f).bindings, BoundUnder(g).bindings).bars
    BY DEF Migration
  <1>5. Migration(BoundUnder(f), BoundUnder(g)).bars # {} => Classify(f, g) = NormativeHigh
    <2>1. Classify(f, g) < NormativeHigh => Migration(BoundUnder(f), BoundUnder(g)).bars = {}
      BY <1>1, <1>2, <1>4, BarsMoveNormatively
    <2> QED
      BY <2>1, ClassIsWidest DEF NormativeHigh
  <1> QED
    BY <1>1, <1>3, <1>5

\* The first release changes what a cluster shows only by what it adds, which is behavioural.
LEMMA EffectsOfTheFirst ==
    ASSUME NEW b, Loads(b)
    PROVE  LET d == Migration(NothingBound, BoundOf(b))
           IN  /\ HasEffect(d) => Classify(NoGraph, GraphOf(b)) >= BehaviouralMedium
               /\ d.bars = {}
  <1> DEFINE g == LoadedAs[b].graph
             to == BoundUnder(g)
             d == Migration(NothingBound, to)
  <1>1. GraphOf(b) = g /\ BoundOf(b) = to /\ WellFormed(g)
    BY LoadedPins
  <1> HIDE DEF g
  <1>2. d.bars = {}
    BY DEF Migration, BindingDiff, NothingBound
  <1>3. ASSUME Classify(NoGraph, g) < BehaviouralMedium PROVE ~HasEffect(d)
    <2>1. DOMAIN NoGraph.rules = {} /\ DOMAIN NoGraph.phenomena = {}
      BY DEF NoGraph
    <2>2. DOMAIN g.rules = {}
      BY <1>3, <2>1, BindingsStay
    <2>3. WellFormed(NoGraph)
      BY <2>1 DEF WellFormed
    <2>4. DOMAIN g.phenomena = {}
      BY <1>1, <1>3, <2>1, <2>3, OntologyStays
    <2>5. to.bindings = {}
      BY <1>1, <2>2, BoundAsShown
    <2>6. DOMAIN to.observability = {}
      BY <2>4 DEF BoundUnder, PhenomenonObservability
    <2>7. DOMAIN to.tierA = {}
      <3>1. to.tierA = TierASet(to.bindings, g)
        BY DEF BoundUnder
      <3> HIDE DEF to
      <3> QED
        BY <2>5, <3>1 DEF TierASet
    <2>8. NothingBound.bindings = {} /\ DOMAIN NothingBound.observability = {} /\ DOMAIN NothingBound.tierA = {}
      BY DEF NothingBound
    <2> HIDE DEF to
    <2>9. /\ ObservabilityShift(NothingBound.observability, to.observability) = {}
          /\ SelectionShift(NothingBound.tierA, to.tierA) = {}
      BY <2>6, <2>7, <2>8 DEF ObservabilityShift, SelectionShift
    <2>10. LET diff == BindingDiff(NothingBound.bindings, to.bindings)
           IN  diff.gained = {} /\ diff.lost = {} /\ diff.bars = {} /\ diff.validation = {}
      BY <2>5, <2>8 DEF BindingDiff
    <2> QED
      BY <2>9, <2>10 DEF HasEffect, Migration
  <1>4. HasEffect(d) => Classify(NoGraph, g) >= BehaviouralMedium
    BY <1>3, ClassIsWidest DEF BehaviouralMedium
  <1> QED
    BY <1>1, <1>2, <1>4

\* No release changes what a cluster shows below the class it is given, and none moves a bar
\* below the normative one: for any two releases over the same telemetry, any inventory,
\* configuration, platform and evidence.
THEOREM EffectsAreClassed == RequiredMembersKeepTheirKind => (Spec => []EffectIsClassed)
  <1> SUFFICES ASSUME RequiredMembersKeepTheirKind PROVE Spec => []EffectIsClassed
    OBVIOUS
  <1>1. ReleasesInv => EffectIsClassed
    <2> SUFFICES ASSUME ReleasesInv, NEW a \in {releases[n].pin : n \in DOMAIN releases},
                        NEW b \in {releases[n].pin : n \in DOMAIN releases},
                        LoadedAs[a].ok, LoadedAs[b].ok, SameTelemetry(GraphOf(a), GraphOf(b))
                 PROVE  LET d == Migration(BoundOf(a), BoundOf(b))
                            class == Classify(GraphOf(a), GraphOf(b))
                        IN  /\ HasEffect(d) => class >= BehaviouralMedium
                            /\ d.bars # {} => class = NormativeHigh
      BY DEF EffectIsClassed
    <2>1. a \in Pins /\ b \in Pins
      BY DEF ReleasesInv
    <2> QED
      BY <2>1, EffectsBetweenReleases DEF Loads
  <1>2. Spec => []ReleasesInv
    BY ReleasesAreConsistent, PTL
  <1> QED
    BY <1>1, <1>2, PTL

\* What no verdict of blocked has behind it: the wider of the two classes sets the gates.
LEMMA UnblockedIsCovered ==
    ASSUME NEW p, p.class \in UnknownClass..NormativeHigh, p.class # UnknownClass,
           NEW derived \in 0..3, NEW ledger \in Ledgers \cup {Nil}, ~Blocks(p, derived, ledger)
    PROVE  /\ p.authored
           /\ derived >= BehaviouralMedium => p.evidence
           /\ derived = NormativeHigh => p.class = NormativeHigh
           /\ ledger # Nil => \A gate \in RequiredGates(derived) : GatePassed(ledger.results, gate)
  <1> USE DEF None, AdditiveLow, BehaviouralMedium, NormativeHigh, UnknownClass
  <1> DEFINE effective == IF p.class >= derived THEN p.class ELSE derived
  <1>1. effective \in 0..3 /\ effective >= derived
    OBVIOUS
  <1>2. /\ p.authored
        /\ derived # None => ~(p.class < derived)
        /\ effective >= BehaviouralMedium => p.evidence
        /\ ~LedgerBlocks(ledger, p, effective)
    BY DEF Blocks
  <1> HIDE DEF effective
  <1>3. derived >= BehaviouralMedium => p.evidence
    BY <1>1, <1>2
  <1>4. derived = NormativeHigh => p.class = NormativeHigh
    BY <1>2
  <1>5. RequiredGates(derived) \subseteq RequiredGates(effective)
    BY <1>1 DEF RequiredGates
  <1>6. ledger # Nil => \A gate \in RequiredGates(effective) : GatePassed(ledger.results, gate)
    BY <1>2 DEF LedgerBlocks
  <1> QED
    BY <1>2, <1>3, <1>4, <1>5, <1>6

LEMMA PassedIsLast ==
    ASSUME NEW ledger \in Ledgers, NEW gate, GatePassed(ledger.results, gate)
    PROVE  LET Of == {i \in DOMAIN ledger.results : ledger.results[i].gate = gate}
           IN  /\ Of # {}
               /\ \A i \in Of : ledger.results[i].status # "passed" => \E j \in Of : j > i
  <1> DEFINE results == ledger.results
  <1>1. results \in Seq(GateResult)
    BY GovernanceAssumption DEF GovernanceAssumption
  <1>2. \A i \in DOMAIN results : i \in Nat
    BY <1>1
  <1>3. PICK last \in DOMAIN results :
            /\ results[last].gate = gate /\ results[last].status = "passed"
            /\ \A j \in DOMAIN results : results[j].gate = gate => j =< last
    BY DEF GatePassed
  <1> HIDE DEF results
  <1>4. \A i \in DOMAIN results : results[i].gate = gate /\ results[i].status # "passed" => last > i
    BY <1>2, <1>3
  <1> QED
    BY <1>3, <1>4 DEF results

\* Whoever approved a proposal had it declared as wide as it reaches: what changes a cluster
\* came with evidence, what moves a bar was declared normative, and no gate of its class was
\* left at a failure.
THEOREM ApprovalsAreTested == RequiredMembersKeepTheirKind => (Spec => []ApprovedWasTested)
  <1> SUFFICES ASSUME RequiredMembersKeepTheirKind PROVE Spec => []ApprovedWasTested
    OBVIOUS
  <1>1. ReviewInv => ApprovedWasTested
    <2> SUFFICES ASSUME ReviewInv, review # Nil, review.verdict = "approved" PROVE ApprovedWasTested
      BY DEF ApprovedWasTested
    <2> DEFINE p == review.proposal
               from == review.from
               to == review.to
               d == Migration(BoundOf(from), BoundOf(to))
               derived == review.derived
    <2>1. /\ p \in Proposals /\ p.class # UnknownClass
          /\ review.ledger \in Ledgers \cup {Nil}
          /\ Loads(to) /\ (from = <<>> \/ Loads(from))
          /\ derived = Classify(GraphOf(from), GraphOf(to))
          /\ review.verdict = VerdictOf(p, derived, review.ledger)
      BY DEF ReviewInv
    <2>2. p.class \in UnknownClass..NormativeHigh
      BY <2>1, GovernanceAssumption DEF GovernanceAssumption
    <2>3. derived \in 0..3
      BY <2>1, ClassIsWidest
    <2>4. ~Blocks(p, derived, review.ledger)
      BY <2>1 DEF VerdictOf
    <2>5. /\ p.authored
          /\ derived >= BehaviouralMedium => p.evidence
          /\ derived = NormativeHigh => p.class = NormativeHigh
          /\ review.ledger # Nil => \A gate \in RequiredGates(derived) : GatePassed(review.ledger.results, gate)
      BY <2>1, <2>2, <2>3, <2>4, UnblockedIsCovered
    <2>6. (from = <<>> \/ SameTelemetry(GraphOf(from), GraphOf(to)))
          => /\ HasEffect(d) => derived >= BehaviouralMedium
             /\ d.bars # {} => derived = NormativeHigh
      <3>1. CASE from = <<>>
        <4>1. BoundOf(from) = NothingBound /\ GraphOf(from) = NoGraph
          BY <3>1 DEF BoundOf, GraphOf
        <4> QED
          BY <2>1, <4>1, EffectsOfTheFirst
      <3>2. CASE Loads(from) /\ from # <<>> /\ SameTelemetry(GraphOf(from), GraphOf(to))
        BY <2>1, <3>2, EffectsBetweenReleases
      <3> QED
        BY <2>1, <3>1, <3>2
    <2>7. review.ledger # Nil =>
              \A gate \in RequiredGates(derived) :
                  LET Of == {i \in DOMAIN review.ledger.results : review.ledger.results[i].gate = gate}
                  IN  /\ Of # {}
                      /\ \A i \in Of : review.ledger.results[i].status # "passed" => \E j \in Of : j > i
      BY <2>1, <2>5, PassedIsLast
    <2> HIDE DEF d, derived, from, to, p
    <2> QED
      BY <2>5, <2>6, <2>7 DEF ApprovedWasTested, d, derived, from, to, p
  <1>2. Spec => []ReviewInv
    BY ReleasesAreConsistent, PTL
  <1> QED
    BY <1>1, <1>2, PTL

-----------------------------------------------------------------------------
(* The linter and the loader.                                                *)

\* Induction over the naturals, told of a set.
LEMMA NatInductive ==
    ASSUME NEW S, 0 \in S, \A n \in Nat : n \in S => n + 1 \in S
    PROVE  Nat \subseteq S
  <1> DEFINE T == Nat \ S
  <1>1. SUFFICES ASSUME T # {} PROVE FALSE
    OBVIOUS
  <1>2. PICK x \in T : \A y \in T : x =< y
    <2>1. T \subseteq Nat
      OBVIOUS
    <2> HIDE DEF T
    <2> QED
      BY <1>1, <2>1, SmallestExists
  <1>3. x \in Nat /\ x \notin S /\ x # 0
    OBVIOUS
  <1>4. x - 1 \in Nat /\ ~(x =< x - 1) /\ (x - 1) + 1 = x
    BY <1>3
  <1>5. x - 1 \in S
    BY <1>2, <1>4
  <1> QED
    BY <1>3, <1>4, <1>5

\* The places of the members of some sequences: which sequence, and where in it.
Spots(seqs, n) == {s \in (1..n) \X Nat : s[2] \in DOMAIN seqs[s[1]]}

\* What a flattening holds is what the sequences hold, each place once.
Flattens(F, pos, seqs, n) ==
    /\ \A p \in 1..Len(F) : pos[p] \in Spots(seqs, n) /\ F[p] = seqs[pos[p][1]][pos[p][2]]
    /\ \A s \in Spots(seqs, n) : \E p \in 1..Len(F) : pos[p] = s
    /\ \A p, q \in 1..Len(F) : pos[p] = pos[q] => p = q

LEMMA FlattenMore ==
    ASSUME NEW T, NEW seqs, NEW n \in Nat, NEW F \in Seq(T), NEW pos, Flattens(F, pos, seqs, n),
           seqs[n + 1] \in Seq(T)
    PROVE  /\ F \o seqs[n + 1] \in Seq(T)
           /\ \E more : Flattens(F \o seqs[n + 1], more, seqs, n + 1)
  <1> DEFINE s == seqs[n + 1]
             k == Len(F)
             G == F \o s
             more == [p \in 1..(k + Len(s)) |-> IF p =< k THEN pos[p] ELSE <<n + 1, p - k>>]
  <1>1. /\ k \in Nat /\ Len(s) \in Nat /\ G \in Seq(T) /\ Len(G) = k + Len(s) /\ DOMAIN s = 1..Len(s)
        /\ \A p \in 1..k : G[p] = F[p]
        /\ \A p \in 1..(k + Len(s)) : ~(p =< k) => p - k \in DOMAIN s /\ G[p] = s[p - k]
    OBVIOUS
  <1> HIDE DEF k, G
  <1>2. Spots(seqs, n) \subseteq Spots(seqs, n + 1) /\ \A x \in Spots(seqs, n) : x[1] # n + 1
    BY DEF Spots
  <1>3. \A i \in DOMAIN s : <<n + 1, i>> \in Spots(seqs, n + 1)
    BY <1>1 DEF Spots
  <1>4. \A x \in Spots(seqs, n + 1) : x \in Spots(seqs, n) \/ (x = <<n + 1, x[2]>> /\ x[2] \in DOMAIN s)
    <2> TAKE x \in Spots(seqs, n + 1)
    <2>1. x \in (1..(n + 1)) \X Nat /\ x[2] \in DOMAIN seqs[x[1]]
      BY DEF Spots
    <2>2. x = <<x[1], x[2]>> /\ x[1] \in 1..(n + 1) /\ x[2] \in Nat
      BY <2>1
    <2>3. x[1] = n + 1 \/ x[1] \in 1..n
      BY <2>2
    <2>4. CASE x[1] = n + 1
      BY <2>1, <2>2, <2>4
    <2>5. CASE x[1] \in 1..n
      <3>1. x \in (1..n) \X Nat
        BY <2>1, <2>5
      <3> QED
        BY <2>1, <3>1 DEF Spots
    <2> QED
      BY <2>3, <2>4, <2>5
  <1>5. \A p \in 1..k : pos[p] \in Spots(seqs, n) /\ F[p] = seqs[pos[p][1]][pos[p][2]]
    BY DEF Flattens, k
  <1>6. \A x \in Spots(seqs, n) : \E p \in 1..k : pos[p] = x
    BY DEF Flattens, k
  <1>7. \A p, q \in 1..k : pos[p] = pos[q] => p = q
    BY DEF Flattens, k
  <1>8. /\ \A p \in 1..k : p \in 1..(k + Len(s)) /\ more[p] = pos[p]
        /\ \A p \in 1..(k + Len(s)) : p \in 1..k \/ (~(p =< k) /\ more[p] = <<n + 1, p - k>>)
    BY <1>1
  <1> HIDE DEF more
  <1>9. ASSUME NEW p \in 1..(k + Len(s))
        PROVE  more[p] \in Spots(seqs, n + 1) /\ G[p] = seqs[more[p][1]][more[p][2]]
    <2>1. CASE p \in 1..k
      BY <1>1, <1>2, <1>5, <1>8, <2>1
    <2>2. CASE ~(p =< k)
      <3>1. more[p] = <<n + 1, p - k>> /\ p - k \in DOMAIN s /\ G[p] = s[p - k]
        <4>1. k \in Nat /\ \A q \in 1..(k + Len(s)) : ~(q =< k) => q - k \in DOMAIN s /\ G[q] = s[q - k]
          BY <1>1
        <4>2. p \notin 1..k
          BY <2>2, <4>1
        <4>3. p - k \in DOMAIN s /\ G[p] = s[p - k]
          BY <2>2, <4>1
        <4> HIDE DEF s
        <4> QED
          BY <1>8, <4>2, <4>3
      <3>2. more[p][1] = n + 1 /\ more[p][2] = p - k
        BY <3>1
      <3> QED
        BY <1>3, <3>1, <3>2
    <2> QED
      BY <1>8, <2>1, <2>2
  <1>10. ASSUME NEW x \in Spots(seqs, n + 1) PROVE \E p \in 1..(k + Len(s)) : more[p] = x
    <2>1. CASE x \in Spots(seqs, n)
      BY <1>6, <1>8, <2>1
    <2>2. CASE x = <<n + 1, x[2]>> /\ x[2] \in DOMAIN s
      <3> DEFINE i == x[2]
      <3>1. i \in 1..Len(s)
        BY <1>1, <2>2
      <3> HIDE DEF i
      <3>2. k + i \in 1..(k + Len(s)) /\ ~(k + i =< k) /\ (k + i) - k = i
        <4>1. Len(s) \in Nat /\ k \in Nat
          BY <1>1
        <4> HIDE DEF s
        <4> QED
          BY <4>1, <3>1
      <3>3. more[k + i] = <<n + 1, i>>
        BY <1>8, <3>2
      <3> QED
        BY <2>2, <3>2, <3>3 DEF i
    <2> QED
      BY <1>4, <2>1, <2>2
  <1>11. ASSUME NEW p \in 1..(k + Len(s)), NEW q \in 1..(k + Len(s)), more[p] = more[q] PROVE p = q
    <2>1. CASE p \in 1..k /\ q \in 1..k
      BY <1>7, <1>8, <1>11, <2>1
    <2>2. CASE p \in 1..k /\ ~(q =< k)
      <3>1. more[p][1] # n + 1
        BY <1>2, <1>5, <1>8, <2>2
      <3>2. more[q][1] = n + 1
        BY <1>1, <1>8, <2>2
      <3> QED
        BY <1>11, <3>1, <3>2
    <2>3. CASE q \in 1..k /\ ~(p =< k)
      <3>1. more[q][1] # n + 1
        BY <1>2, <1>5, <1>8, <2>3
      <3>2. more[p][1] = n + 1
        BY <1>1, <1>8, <2>3
      <3> QED
        BY <1>11, <3>1, <3>2
    <2>4. CASE ~(p =< k) /\ ~(q =< k)
      <3>1. more[p] = <<n + 1, p - k>> /\ more[q] = <<n + 1, q - k>>
        BY <1>1, <1>8, <2>4
      <3>2. p - k = q - k
        <4>1. <<n + 1, p - k>> = <<n + 1, q - k>>
          BY <1>11, <3>1, Zenon
        <4> QED
          BY <4>1
      <3>3. p \in Int /\ q \in Int /\ k \in Int
        <4>1. k \in Nat /\ k + Len(s) \in Nat
          BY <1>1
        <4>2. \A e \in Nat : \A i \in 1..e : i \in Int
          OBVIOUS
        <4> HIDE DEF s
        <4> QED
          BY <4>1, <4>2
      <3> QED
        BY <3>2, <3>3
    <2> QED
      BY <1>8, <2>1, <2>2, <2>3, <2>4
  <1> HIDE DEF s
  <1>12. Flattens(G, more, seqs, n + 1)
    BY <1>1, <1>9, <1>10, <1>11 DEF Flattens
  <1> QED
    BY <1>1, <1>12 DEF G, s

LEMMA FlattenIs ==
    ASSUME NEW T, NEW seqs, Len(seqs) \in Nat, DOMAIN seqs = 1..Len(seqs), Len(seqs) = 0 => seqs = <<>>,
           \A j \in 1..Len(seqs) : seqs[j] \in Seq(T)
    PROVE  /\ FlattenSeq(seqs) \in Seq(T)
           /\ \E pos : Flattens(FlattenSeq(seqs), pos, seqs, Len(seqs))
  <1> DEFINE m == Len(seqs)
             Body(f, i) == IF i = 1 THEN seqs[i] ELSE f[i - 1] \o seqs[i]
             Is(f, k) == f = [i \in 1..k |-> Body(f, i)]
             flat == CHOOSE f : Is(f, m)
  <1>1. CASE m = 0
    <2>1. FlattenSeq(seqs) = <<>>
      BY <1>1 DEF FlattenSeq
    <2>2. Spots(seqs, 0) = {}
      BY DEF Spots
    <2>3. Flattens(<<>>, <<>>, seqs, 0)
      BY <2>2 DEF Flattens
    <2>4. <<>> \in Seq(T)
      OBVIOUS
    <2> QED
      BY <1>1, <2>1, <2>3, <2>4
  <1>2. CASE m # 0
    <2> DEFINE Good == {k \in Nat : \E f : Is(f, k)}
    <2>1. 0 \in Good
      <3>1. Is(<<>>, 0)
        OBVIOUS
      <3> QED
        BY <3>1
    <2>2. ASSUME NEW k \in Nat, k \in Good PROVE k + 1 \in Good
      <3>1. PICK f : Is(f, k)
        BY <2>2
      <3> DEFINE g == [i \in 1..(k + 1) |-> Body(f, i)]
      <3>2. ASSUME NEW i \in 1..(k + 1) PROVE Body(f, i) = Body(g, i)
        <4>1. CASE i = 1
          BY <4>1
        <4>2. CASE i # 1
          <5>1. i - 1 \in 1..k /\ i - 1 \in 1..(k + 1)
            BY <4>2
          <5>2. f[i - 1] = Body(f, i - 1)
            BY <3>1, <5>1
          <5>3. g[i - 1] = Body(f, i - 1)
            BY <5>1
          <5>4. f[i - 1] = g[i - 1]
            BY <5>2, <5>3, Zenon
          <5> HIDE DEF g
          <5> QED
            BY <4>2, <5>4
        <4> QED
          BY <4>1, <4>2
      <3>3. [i \in 1..(k + 1) |-> Body(f, i)] = [i \in 1..(k + 1) |-> Body(g, i)]
        <4> HIDE DEF g, Body
        <4> QED
          BY <3>2
      <3>4. Is(g, k + 1)
        BY <3>3, Zenon
      <3>5. \E h : Is(h, k + 1)
        <4> HIDE DEF g, Is
        <4> QED
          BY <3>4
      <3> HIDE DEF Is
      <3> QED
        BY <3>5
    <2> HIDE DEF Good
    <2>3. m \in Good
      BY <2>1, <2>2, NatInductive
    <2>4. Is(flat, m)
      BY <2>3 DEF Good
    <2>5. FlattenSeq(seqs) = flat[m]
      BY <1>2 DEF FlattenSeq
    <2> HIDE DEF flat
    <2>6. \A i \in 1..m : flat[i] = Body(flat, i)
      BY <2>4
    <2> DEFINE Fine == {k \in Nat : k \in 1..m => /\ flat[k] \in Seq(T)
                                                  /\ \E pos : Flattens(flat[k], pos, seqs, k)}
    <2>7. 0 \in Fine
      OBVIOUS
    <2>8. Flattens(<<>>, <<>>, seqs, 0)
      <3>1. Spots(seqs, 0) = {}
        BY DEF Spots
      <3> QED
        BY <3>1 DEF Flattens
    <2>9. ASSUME NEW k \in Nat, k \in Fine PROVE k + 1 \in Fine
      <3>1. SUFFICES ASSUME k + 1 \in 1..m
                     PROVE  flat[k + 1] \in Seq(T) /\ \E pos : Flattens(flat[k + 1], pos, seqs, k + 1)
        OBVIOUS
      <3>2. seqs[k + 1] \in Seq(T)
        BY <3>1
      <3>3. CASE k = 0
        <4>1. flat[k + 1] = seqs[k + 1]
          BY <2>6, <3>1, <3>3
        <4>2. <<>> \o seqs[k + 1] = seqs[k + 1] /\ <<>> \in Seq(T)
          BY <3>2
        <4>3. <<>> \o seqs[k + 1] \in Seq(T) /\ \E more : Flattens(<<>> \o seqs[k + 1], more, seqs, k + 1)
          BY <2>8, <3>2, <3>3, <4>2, FlattenMore
        <4> QED
          BY <4>1, <4>2, <4>3
      <3>4. CASE k # 0
        <4>1. k \in 1..m /\ (k + 1) - 1 = k /\ k + 1 # 1
          BY <3>1, <3>4
        <4>2. PICK pos : Flattens(flat[k], pos, seqs, k)
          BY <2>9, <4>1
        <4>3. flat[k] \in Seq(T)
          BY <2>9, <4>1
        <4>4. flat[k + 1] = flat[k] \o seqs[k + 1]
          BY <2>6, <3>1, <4>1
        <4>5. flat[k] \o seqs[k + 1] \in Seq(T) /\ \E more : Flattens(flat[k] \o seqs[k + 1], more, seqs, k + 1)
          BY <3>2, <4>2, <4>3, FlattenMore
        <4> QED
          BY <4>4, <4>5
      <3> QED
        BY <3>3, <3>4
    <2> HIDE DEF Fine
    <2>10. m \in Fine
      BY <2>7, <2>9, NatInductive
    <2>11. m \in 1..m
      BY <1>2
    <2> QED
      BY <2>5, <2>10, <2>11 DEF Fine
  <1> QED
    BY <1>1, <1>2

\* Overlays as the tree holds them: in an order, their rules and checks too.
Authored(docs) ==
    /\ Len(docs) \in Nat /\ DOMAIN docs = 1..Len(docs) /\ (Len(docs) = 0 => docs = <<>>)
    /\ \A k \in 1..Len(docs) :
           /\ docs[k].rules \in Seq(AuthoredRule)
           /\ \A id \in DOMAIN docs[k].checks : docs[k].checks[id] \in Seq(AuthoredCheck)

\* What is asked of an overlay alone, by both.
RuleOk(file, r) ==
    /\ r.id # "" /\ HasType(file, r.signal, "Signal") /\ r.metric # ""
    /\ r.scope \in Scopes /\ r.dir \in Directions /\ r.window # BadWindow
    /\ r.eligible \in Paths \cup {""} /\ KindFits(r)

CheckOk(file, id, c) ==
    /\ HasType(file, c.signal, "Signal") /\ c.metric # ""
    /\ \E e \in file.edges : e.type = "participates_in" /\ e.src = c.signal /\ e.dst = id
    /\ c.facet \in Facets /\ c.expect \in Expects /\ c.on \in Sites
    /\ c.min \in MinStates /\ (c.min = "" \/ c.facet = "slope")

Fits(file, doc) ==
    /\ doc.name # "" /\ doc.author # ""
    /\ \A id \in DOMAIN doc.spans \cup DOMAIN doc.anchors \cup DOMAIN doc.checks :
           HasType(file, id, "CorrelationGroup")
    /\ SpanLints(doc)
    /\ \A i \in DOMAIN doc.rules : RuleOk(file, doc.rules[i])
    /\ \A id \in DOMAIN doc.anchors : doc.anchors[id] \in Scopes
    /\ \A id \in DOMAIN doc.checks : \A i \in DOMAIN doc.checks[id] : CheckOk(file, id, doc.checks[id][i])

\* And of two of the first n: one span and one anchor for a phenomenon, one rule for an
\* id and one check for a signal.
SpansAgree(docs, n) ==
    \A j, k \in 1..n : \A id \in DOMAIN docs[j].spans \cap DOMAIN docs[k].spans :
        docs[j].spans[id].span = docs[k].spans[id].span
AnchorsAgree(docs, n) ==
    \A j, k \in 1..n : \A id \in DOMAIN docs[j].anchors \cap DOMAIN docs[k].anchors :
        docs[j].anchors[id] = docs[k].anchors[id]
RulesApart(docs, n) ==
    \A j, k \in 1..n : \A i \in DOMAIN docs[j].rules, l \in DOMAIN docs[k].rules :
        docs[j].rules[i].id = docs[k].rules[l].id => j = k /\ i = l
ChecksApart(docs, id, n) ==
    \A j, k \in {x \in 1..n : id \in DOMAIN docs[x].checks} :
        \A i \in DOMAIN docs[j].checks[id], l \in DOMAIN docs[k].checks[id] :
            docs[j].checks[id][i].signal = docs[k].checks[id][l].signal => j = k /\ i = l
Together(docs, n) ==
    /\ SpansAgree(docs, n) /\ AnchorsAgree(docs, n) /\ RulesApart(docs, n)
    /\ \A id \in UNION {DOMAIN docs[k].checks : k \in 1..n} : ChecksApart(docs, id, n)

LEMMA DistinctMeansNoDuplicates ==
    ASSUME NEW checks \in Seq(AuthoredCheck),
           \A i, j \in DOMAIN checks : checks[i].signal = checks[j].signal => i = j
    PROVE  NoDuplicates(checks)
  <1> DEFINE n == Len(checks)
             T == SignalsOf(checks)
             f == [i \in 1..n |-> checks[i].signal]
  <1>1. n \in Nat /\ DOMAIN checks = 1..n
    OBVIOUS
  <1>2. IsFiniteSet(1..n) /\ Cardinality(1..n) = n
    <2>1. IsFiniteSet(1..n) /\ Cardinality(1..n) = IF 1 > n THEN 0 ELSE n - 1 + 1
      BY <1>1, FS_Interval, 1 \in Int, n \in Int
    <2> QED
      BY <1>1, <2>1
  <1>3. f \in Surjection(1..n, T)
    BY <1>1 DEF Surjection, SignalsOf
  <1>4. \A i, j \in 1..n : f[i] = f[j] => i = j
    BY <1>1
  <1> HIDE DEF f, T, n
  <1>5. Cardinality(T) = Cardinality(1..n)
    <2>1. f \in Injection(1..n, T)
      BY <1>3, <1>4 DEF Surjection, Injection, IsInjective
    <2> QED
      BY <1>2, <1>3, <2>1, FS_Surjection
  <1> QED
    BY <1>2, <1>5 DEF NoDuplicates, n, T

\* The rules of all overlays lint as one list when each fits and no two share an id.
LEMMA RulesLintApart ==
    ASSUME NEW file, NEW docs, Authored(docs)
    PROVE  RuleLints(file, AllRules(docs)) <=>
               /\ \A k \in 1..Len(docs) : \A i \in DOMAIN docs[k].rules : RuleOk(file, docs[k].rules[i])
               /\ RulesApart(docs, Len(docs))
  <1> DEFINE seqs == [i \in DOMAIN docs |-> docs[i].rules]
             n == Len(docs)
             F == AllRules(docs)
  <1>1. n \in Nat /\ DOMAIN docs = 1..n /\ (n = 0 => docs = <<>>)
    BY DEF Authored
  <1>2. \A j \in 1..n : seqs[j] = docs[j].rules /\ seqs[j] \in Seq(AuthoredRule)
    BY <1>1 DEF Authored
  <1>3. DOMAIN seqs = 1..n /\ Len(seqs) = n /\ (n = 0 => seqs = <<>>)
    BY <1>1
  <1>4. F = FlattenSeq(seqs)
    BY DEF AllRules
  <1> HIDE DEF seqs, n, F
  <1>5. /\ F \in Seq(AuthoredRule)
        /\ \E pos : Flattens(F, pos, seqs, n)
    BY <1>1, <1>2, <1>3, <1>4, FlattenIs
  <1>6. PICK pos : Flattens(F, pos, seqs, n)
    BY <1>5
  <1>7. /\ \A p \in 1..Len(F) : pos[p] \in Spots(seqs, n) /\ F[p] = seqs[pos[p][1]][pos[p][2]]
        /\ \A s \in Spots(seqs, n) : \E p \in 1..Len(F) : pos[p] = s
        /\ \A p, q \in 1..Len(F) : pos[p] = pos[q] => p = q
    BY <1>6 DEF Flattens
  <1>8. DOMAIN F = 1..Len(F) /\ Len(F) \in Nat
    BY <1>5
  <1>9. /\ \A s \in Spots(seqs, n) : s[1] \in 1..n /\ s[2] \in Nat /\ s[2] \in DOMAIN docs[s[1]].rules /\ s = <<s[1], s[2]>>
        /\ \A j \in 1..n : \A i \in DOMAIN docs[j].rules : <<j, i>> \in Spots(seqs, n)
    <2>1. \A j \in 1..n : \A i \in DOMAIN docs[j].rules : i \in Nat
      BY <1>2
    <2> QED
      BY <1>2, <2>1 DEF Spots
  <1>10. \A p \in 1..Len(F) : \E j \in 1..n, i \in Nat : i \in DOMAIN docs[j].rules /\ pos[p] = <<j, i>> /\ F[p] = docs[j].rules[i]
    <2> TAKE p \in 1..Len(F)
    <2> DEFINE j == pos[p][1]
               i == pos[p][2]
    <2>1. /\ j \in 1..n /\ i \in Nat /\ i \in DOMAIN docs[j].rules
          /\ pos[p] = <<j, i>> /\ F[p] = seqs[j][i]
      BY <1>7, <1>9
    <2>2. F[p] = docs[j].rules[i]
      BY <1>2, <2>1
    <2> HIDE DEF j, i
    <2> QED
      BY <2>1, <2>2
  <1>11. \A j \in 1..n : \A i \in DOMAIN docs[j].rules : \E p \in 1..Len(F) : pos[p] = <<j, i>> /\ F[p] = docs[j].rules[i]
    <2> TAKE j \in 1..n
    <2> TAKE i \in DOMAIN docs[j].rules
    <2>1. PICK p \in 1..Len(F) : pos[p] = <<j, i>>
      BY <1>7, <1>9
    <2>2. pos[p][1] = j /\ pos[p][2] = i
      BY <2>1
    <2> QED
      BY <1>2, <1>7, <2>1, <2>2
  <1>12. (\A p \in 1..Len(F) : RuleOk(file, F[p])) <=> \A k \in 1..n : \A i \in DOMAIN docs[k].rules : RuleOk(file, docs[k].rules[i])
    BY <1>10, <1>11
  <1>13. (\A p \in 1..Len(F) : \A q \in 1..(p - 1) : F[q].id # F[p].id) <=> RulesApart(docs, n)
    <2>1. ASSUME RulesApart(docs, n), NEW p \in 1..Len(F), NEW q \in 1..(p - 1) PROVE F[q].id # F[p].id
      <3>1. q \in 1..Len(F) /\ q # p
        BY <1>8
      <3>2. PICK j \in 1..n, i \in Nat : i \in DOMAIN docs[j].rules /\ pos[p] = <<j, i>> /\ F[p] = docs[j].rules[i]
        BY <1>10
      <3>3. PICK k \in 1..n, l \in Nat : l \in DOMAIN docs[k].rules /\ pos[q] = <<k, l>> /\ F[q] = docs[k].rules[l]
        BY <1>10, <3>1
      <3> QED
        BY <1>7, <2>1, <3>1, <3>2, <3>3 DEF RulesApart
    <2>2. ASSUME \A p \in 1..Len(F) : \A q \in 1..(p - 1) : F[q].id # F[p].id
          PROVE  RulesApart(docs, n)
      <3>1. SUFFICES ASSUME NEW j \in 1..n, NEW k \in 1..n, NEW i \in DOMAIN docs[j].rules, NEW l \in DOMAIN docs[k].rules,
                            docs[j].rules[i].id = docs[k].rules[l].id
                     PROVE  j = k /\ i = l
        BY DEF RulesApart
      <3>2. PICK p \in 1..Len(F) : pos[p] = <<j, i>> /\ F[p] = docs[j].rules[i]
        BY <1>11
      <3>3. PICK q \in 1..Len(F) : pos[q] = <<k, l>> /\ F[q] = docs[k].rules[l]
        BY <1>11
      <3>4. p = q
        <4>1. ~(q \in 1..(p - 1)) /\ ~(p \in 1..(q - 1))
          BY <2>2, <3>1, <3>2, <3>3
        <4> QED
          BY <1>8, <4>1
      <3>5. <<j, i>> = <<k, l>>
        BY <3>2, <3>3, <3>4, Zenon
      <3> QED
        BY <3>5
    <2> QED
      BY <2>1, <2>2
  <1>14. RuleLints(file, F) <=> /\ \A p \in 1..Len(F) : RuleOk(file, F[p])
                                /\ \A p \in 1..Len(F) : \A q \in 1..(p - 1) : F[q].id # F[p].id
    BY <1>8 DEF RuleLints, RuleOk, KindFits
  <1> QED
    BY <1>12, <1>13, <1>14 DEF n, F

\* The same of the checks of a phenomenon.
LEMMA ChecksLintApart ==
    ASSUME NEW file, NEW docs, Authored(docs), NEW id
    PROVE  CheckLints(file, id, AllChecks(docs, id)) <=>
               /\ \A k \in 1..Len(docs) : id \in DOMAIN docs[k].checks =>
                      \A i \in DOMAIN docs[k].checks[id] : CheckOk(file, id, docs[k].checks[id][i])
               /\ ChecksApart(docs, id, Len(docs))
  <1> DEFINE seqs == [i \in DOMAIN docs |-> IF id \in DOMAIN docs[i].checks THEN docs[i].checks[id] ELSE <<>>]
             n == Len(docs)
             F == AllChecks(docs, id)
             Has(j, i) == id \in DOMAIN docs[j].checks /\ i \in DOMAIN docs[j].checks[id]
  <1>1. n \in Nat /\ DOMAIN docs = 1..n /\ (n = 0 => docs = <<>>)
    BY DEF Authored
  <1>2. \A j \in 1..n : /\ seqs[j] \in Seq(AuthoredCheck)
                        /\ id \in DOMAIN docs[j].checks => seqs[j] = docs[j].checks[id]
                        /\ id \notin DOMAIN docs[j].checks => seqs[j] = <<>>
    BY <1>1 DEF Authored
  <1>3. DOMAIN seqs = 1..n /\ Len(seqs) = n /\ (n = 0 => seqs = <<>>)
    BY <1>1
  <1>4. F = FlattenSeq(seqs)
    BY DEF AllChecks
  <1> HIDE DEF seqs, n, F
  <1>5. /\ F \in Seq(AuthoredCheck)
        /\ \E pos : Flattens(F, pos, seqs, n)
    BY <1>1, <1>2, <1>3, <1>4, FlattenIs
  <1>6. PICK pos : Flattens(F, pos, seqs, n)
    BY <1>5
  <1>7. /\ \A p \in 1..Len(F) : pos[p] \in Spots(seqs, n) /\ F[p] = seqs[pos[p][1]][pos[p][2]]
        /\ \A s \in Spots(seqs, n) : \E p \in 1..Len(F) : pos[p] = s
        /\ \A p, q \in 1..Len(F) : pos[p] = pos[q] => p = q
    BY <1>6 DEF Flattens
  <1>8. DOMAIN F = 1..Len(F) /\ Len(F) \in Nat
    BY <1>5
  <1>9. /\ \A s \in Spots(seqs, n) : s[1] \in 1..n /\ s[2] \in Nat /\ Has(s[1], s[2]) /\ s = <<s[1], s[2]>>
        /\ \A j \in 1..n : \A i : Has(j, i) => <<j, i>> \in Spots(seqs, n)
    <2>1. \A j \in 1..n : \A i \in DOMAIN seqs[j] : i \in Nat
      BY <1>2
    <2>2. \A j \in 1..n : \A i : i \in DOMAIN seqs[j] <=> Has(j, i)
      <3>1. DOMAIN <<>> = {}
        OBVIOUS
      <3> QED
        BY <1>2, <3>1
    <2> HIDE DEF Has
    <2> QED
      BY <2>1, <2>2 DEF Spots
  <1>10. \A p \in 1..Len(F) : \E j \in 1..n, i \in Nat : Has(j, i) /\ pos[p] = <<j, i>> /\ F[p] = docs[j].checks[id][i]
    <2> TAKE p \in 1..Len(F)
    <2> DEFINE j == pos[p][1]
               i == pos[p][2]
    <2>1. j \in 1..n /\ i \in Nat /\ Has(j, i) /\ pos[p] = <<j, i>> /\ F[p] = seqs[j][i]
      BY <1>7, <1>9
    <2>2. F[p] = docs[j].checks[id][i]
      BY <1>2, <2>1
    <2> HIDE DEF j, i, Has
    <2> QED
      BY <2>1, <2>2
  <1>11. \A j \in 1..n : \A i : Has(j, i) => \E p \in 1..Len(F) : pos[p] = <<j, i>> /\ F[p] = docs[j].checks[id][i]
    <2> TAKE j \in 1..n
    <2> TAKE i
    <2> HAVE Has(j, i)
    <2>1. PICK p \in 1..Len(F) : pos[p] = <<j, i>>
      BY <1>7, <1>9
    <2>2. pos[p][1] = j /\ pos[p][2] = i
      BY <2>1
    <2> QED
      BY <1>2, <1>7, <2>1, <2>2
  <1>12. (\A p \in 1..Len(F) : CheckOk(file, id, F[p])) <=>
            \A k \in 1..n : id \in DOMAIN docs[k].checks =>
                \A i \in DOMAIN docs[k].checks[id] : CheckOk(file, id, docs[k].checks[id][i])
    BY <1>10, <1>11
  <1>13. (\A p, q \in 1..Len(F) : F[p].signal = F[q].signal => p = q) <=> ChecksApart(docs, id, n)
    <2>1. ASSUME ChecksApart(docs, id, n), NEW p \in 1..Len(F), NEW q \in 1..Len(F), F[p].signal = F[q].signal
          PROVE  p = q
      <3>2. PICK j \in 1..n, i \in Nat : Has(j, i) /\ pos[p] = <<j, i>> /\ F[p] = docs[j].checks[id][i]
        BY <1>10
      <3>3. PICK k \in 1..n, l \in Nat : Has(k, l) /\ pos[q] = <<k, l>> /\ F[q] = docs[k].checks[id][l]
        BY <1>10
      <3>4. j = k /\ i = l
        BY <2>1, <3>2, <3>3 DEF ChecksApart
      <3>5. pos[p] = pos[q]
        BY <3>2, <3>3, <3>4
      <3>6. \A a, b \in 1..Len(F) : pos[a] = pos[b] => a = b
        BY <1>7
      <3> QED
        BY ONLY <3>5, <3>6, p \in 1..Len(F), q \in 1..Len(F)
    <2>2. ASSUME \A p, q \in 1..Len(F) : F[p].signal = F[q].signal => p = q
          PROVE  ChecksApart(docs, id, n)
      <3>1. SUFFICES ASSUME NEW j \in 1..n, NEW k \in 1..n, NEW i, NEW l, Has(j, i), Has(k, l),
                            docs[j].checks[id][i].signal = docs[k].checks[id][l].signal
                     PROVE  j = k /\ i = l
        BY DEF ChecksApart
      <3>2. PICK p \in 1..Len(F) : pos[p] = <<j, i>> /\ F[p] = docs[j].checks[id][i]
        BY <1>11, <3>1
      <3>3. PICK q \in 1..Len(F) : pos[q] = <<k, l>> /\ F[q] = docs[k].checks[id][l]
        BY <1>11, <3>1
      <3>4. p = q
        BY <2>2, <3>1, <3>2, <3>3
      <3>5. <<j, i>> = <<k, l>>
        BY <3>2, <3>3, <3>4, Zenon
      <3> QED
        BY <3>5
    <2> QED
      BY <2>1, <2>2
  <1>14. NoDuplicates(F) <=> \A p, q \in 1..Len(F) : F[p].signal = F[q].signal => p = q
    BY <1>5, <1>8, NoDuplicatesMeansOne, DistinctMeansNoDuplicates
  <1>15. CheckLints(file, id, F) <=> (\A p \in 1..Len(F) : CheckOk(file, id, F[p])) /\ NoDuplicates(F)
    BY <1>8 DEF CheckLints, CheckOk
  <1> QED
    BY <1>12, <1>13, <1>14, <1>15 DEF n, F

\* At most one thing is declared when all that declare it agree.
LEMMA DeclaredOnce ==
    ASSUME NEW docs, NEW n \in Nat, NEW Has, Has \subseteq 1..n, NEW v
    PROVE  Cardinality({v[i] : i \in Has}) =< 1 <=> \A j, k \in Has : v[j] = v[k]
  <1> DEFINE S == {v[i] : i \in Has}
  <1>1. IsFiniteSet(S) /\ Cardinality(S) \in Nat
    <2>1. IsFiniteSet(1..n)
      BY FS_Interval, 1 \in Int, n \in Int
    <2>2. IsFiniteSet(Has)
      BY <2>1, FS_Subset
    <2>3. [i \in Has |-> v[i]] \in Surjection(Has, S)
      BY DEF Surjection
    <2>4. IsFiniteSet(S)
      BY <2>2, <2>3, FS_Surjection
    <2> QED
      BY <2>4, FS_CardinalityType
  <1>2. ASSUME \A j, k \in Has : v[j] = v[k] PROVE Cardinality(S) =< 1
    <2>1. CASE S = {}
      BY <2>1, FS_EmptySet
    <2>2. CASE S # {}
      <3>1. PICK j \in Has : TRUE
        BY <2>2
      <3>2. S = {v[j]}
        BY <1>2, <3>1
      <3>3. Cardinality({v[j]}) = 1
        BY FS_Singleton
      <3> HIDE DEF S
      <3> QED
        BY <3>2, <3>3
    <2> QED
      BY <2>1, <2>2
  <1>3. ASSUME Cardinality(S) =< 1, NEW j \in Has, NEW k \in Has PROVE v[j] = v[k]
    <2>1. v[j] \in S /\ v[k] \in S
      OBVIOUS
    <2> HIDE DEF S
    <2>2. IsFiniteSet(S \ {v[j]}) /\ Cardinality(S \ {v[j]}) = Cardinality(S) - 1
      BY <1>1, <2>1, FS_RemoveElement
    <2>3. S \ {v[j]} = {}
      <3>1. Cardinality(S \ {v[j]}) \in Nat
        BY <2>2, FS_CardinalityType
      <3>2. Cardinality(S \ {v[j]}) = 0
        BY <1>1, <1>3, <2>2, <3>1
      <3> QED
        BY <2>2, <3>2, FS_EmptySet
    <2> QED
      BY <2>1, <2>3
  <1> QED
    BY <1>2, <1>3

\* Lint says of all overlays what is asked of each, of any two, and of each phenomenon
\* that one of them names.
LEMMA LintIs ==
    ASSUME NEW file, NEW docs, Authored(docs)
    PROVE  LintsClean(file, docs) <=>
               /\ \A k \in 1..Len(docs) : Fits(file, docs[k])
               /\ Together(docs, Len(docs))
               /\ \A id \in Named(docs) : CoherenceLints(docs, id)
  <1> DEFINE n == Len(docs)
             SpansOf(id) == {j \in 1..n : id \in DOMAIN docs[j].spans}
             AnchorsOf(id) == {j \in 1..n : id \in DOMAIN docs[j].anchors}
             OneSpan(id) == \A j, k \in SpansOf(id) : docs[j].spans[id].span = docs[k].spans[id].span
             OneAnchor(id) == \A j, k \in AnchorsOf(id) : docs[j].anchors[id] = docs[k].anchors[id]
             ChecksOk(id) == \A k \in 1..n : id \in DOMAIN docs[k].checks =>
                                 \A i \in DOMAIN docs[k].checks[id] : CheckOk(file, id, docs[k].checks[id][i])
  <1>1. n \in Nat /\ DOMAIN docs = 1..n
    BY DEF Authored
  <1>2. ASSUME NEW id PROVE Cardinality(DeclaredSpans(docs, id)) =< 1 <=> OneSpan(id)
    <2> DEFINE v == [j \in SpansOf(id) |-> docs[j].spans[id].span]
    <2>1. DeclaredSpans(docs, id) = {v[j] : j \in SpansOf(id)}
      BY <1>1 DEF DeclaredSpans
    <2>2. SpansOf(id) \subseteq 1..n
      OBVIOUS
    <2>3. (\A j, k \in SpansOf(id) : v[j] = v[k]) <=> OneSpan(id)
      OBVIOUS
    <2> HIDE DEF v, SpansOf, OneSpan
    <2>4. Cardinality({v[j] : j \in SpansOf(id)}) =< 1 <=> \A j, k \in SpansOf(id) : v[j] = v[k]
      BY <1>1, <2>2, DeclaredOnce
    <2> QED
      BY <2>1, <2>3, <2>4
  <1>3. ASSUME NEW id PROVE Cardinality(DeclaredAnchors(docs, id)) =< 1 <=> OneAnchor(id)
    <2> DEFINE v == [j \in AnchorsOf(id) |-> docs[j].anchors[id]]
    <2>1. DeclaredAnchors(docs, id) = {v[j] : j \in AnchorsOf(id)}
      BY <1>1 DEF DeclaredAnchors
    <2>2. AnchorsOf(id) \subseteq 1..n
      OBVIOUS
    <2>3. (\A j, k \in AnchorsOf(id) : v[j] = v[k]) <=> OneAnchor(id)
      OBVIOUS
    <2> HIDE DEF v, AnchorsOf, OneAnchor
    <2>4. Cardinality({v[j] : j \in AnchorsOf(id)}) =< 1 <=> \A j, k \in AnchorsOf(id) : v[j] = v[k]
      BY <1>1, <2>2, DeclaredOnce
    <2> QED
      BY <2>1, <2>3, <2>4
  <1>4. \A id : CheckLints(file, id, AllChecks(docs, id)) <=> ChecksOk(id) /\ ChecksApart(docs, id, n)
    BY ChecksLintApart
  <1>5. RuleLints(file, AllRules(docs)) <=>
            /\ \A k \in 1..n : \A i \in DOMAIN docs[k].rules : RuleOk(file, docs[k].rules[i])
            /\ RulesApart(docs, n)
    BY RulesLintApart
  <1>6. \A id : id \in Named(docs) <=>
            \E k \in 1..n : id \in DOMAIN docs[k].spans \cup DOMAIN docs[k].anchors \cup DOMAIN docs[k].checks
    BY <1>1 DEF Named
  <1>7. \A id : DeclaredAnchors(docs, id) \subseteq Scopes <=> \A k \in AnchorsOf(id) : docs[k].anchors[id] \in Scopes
    BY <1>1 DEF DeclaredAnchors
  <1>8. LintsClean(file, docs) <=>
            /\ \A k \in 1..n : docs[k].name # "" /\ docs[k].author # "" /\ SpanLints(docs[k])
            /\ \A k \in 1..n : \A i \in DOMAIN docs[k].rules : RuleOk(file, docs[k].rules[i])
            /\ RulesApart(docs, n)
            /\ \A id \in Named(docs) :
                   /\ HasType(file, id, "CorrelationGroup")
                   /\ OneSpan(id) /\ OneAnchor(id)
                   /\ \A k \in AnchorsOf(id) : docs[k].anchors[id] \in Scopes
                   /\ ChecksOk(id) /\ ChecksApart(docs, id, n)
                   /\ CoherenceLints(docs, id)
    <2> HIDE DEF SpansOf, AnchorsOf, OneSpan, OneAnchor, ChecksOk, n
    <2> QED
      BY <1>1, <1>2, <1>3, <1>4, <1>5, <1>7 DEF LintsClean
  <1>9. (\A k \in 1..n : Fits(file, docs[k])) <=>
            /\ \A k \in 1..n : docs[k].name # "" /\ docs[k].author # "" /\ SpanLints(docs[k])
            /\ \A k \in 1..n : \A i \in DOMAIN docs[k].rules : RuleOk(file, docs[k].rules[i])
            /\ \A id \in Named(docs) :
                   /\ HasType(file, id, "CorrelationGroup")
                   /\ \A k \in AnchorsOf(id) : docs[k].anchors[id] \in Scopes
                   /\ ChecksOk(id)
    <2>1. ASSUME \A k \in 1..n : Fits(file, docs[k])
          PROVE  /\ \A k \in 1..n : docs[k].name # "" /\ docs[k].author # "" /\ SpanLints(docs[k])
                 /\ \A k \in 1..n : \A i \in DOMAIN docs[k].rules : RuleOk(file, docs[k].rules[i])
                 /\ \A id \in Named(docs) :
                        /\ HasType(file, id, "CorrelationGroup")
                        /\ \A k \in AnchorsOf(id) : docs[k].anchors[id] \in Scopes
                        /\ ChecksOk(id)
      <3> HIDE DEF n
      <3> QED
        BY <1>6, <2>1 DEF Fits
    <2>2. ASSUME \A k \in 1..n : docs[k].name # "" /\ docs[k].author # "" /\ SpanLints(docs[k]),
                 \A k \in 1..n : \A i \in DOMAIN docs[k].rules : RuleOk(file, docs[k].rules[i]),
                 \A id \in Named(docs) :
                     /\ HasType(file, id, "CorrelationGroup")
                     /\ \A k \in AnchorsOf(id) : docs[k].anchors[id] \in Scopes
                     /\ ChecksOk(id),
                 NEW k \in 1..n
          PROVE  Fits(file, docs[k])
      <3>1. \A id \in DOMAIN docs[k].spans \cup DOMAIN docs[k].anchors \cup DOMAIN docs[k].checks : id \in Named(docs)
        BY <1>6
      <3> HIDE DEF n
      <3> QED
        BY <2>2, <3>1 DEF Fits
    <2> QED
      BY <2>1, <2>2
  <1>10. Together(docs, n) <=>
            RulesApart(docs, n)
            /\ \A id \in Named(docs) : OneSpan(id) /\ OneAnchor(id) /\ ChecksApart(docs, id, n)
    <2>1. SpansAgree(docs, n) <=> \A id \in Named(docs) : OneSpan(id)
      <3>1. SpansAgree(docs, n) => \A id \in Named(docs) : OneSpan(id)
        BY DEF SpansAgree
      <3>2. ASSUME \A id \in Named(docs) : OneSpan(id) PROVE SpansAgree(docs, n)
        <4>1. \A j \in 1..n : \A id \in DOMAIN docs[j].spans : id \in Named(docs)
          BY <1>6
        <4> HIDE DEF n
        <4> QED
          BY <3>2, <4>1 DEF SpansAgree
      <3> QED
        BY <3>1, <3>2
    <2>2. AnchorsAgree(docs, n) <=> \A id \in Named(docs) : OneAnchor(id)
      <3>1. AnchorsAgree(docs, n) => \A id \in Named(docs) : OneAnchor(id)
        BY DEF AnchorsAgree
      <3>2. ASSUME \A id \in Named(docs) : OneAnchor(id) PROVE AnchorsAgree(docs, n)
        <4>1. \A j \in 1..n : \A id \in DOMAIN docs[j].anchors : id \in Named(docs)
          BY <1>6
        <4> HIDE DEF n
        <4> QED
          BY <3>2, <4>1 DEF AnchorsAgree
      <3> QED
        BY <3>1, <3>2
    <2>3. (\A id \in UNION {DOMAIN docs[k].checks : k \in 1..n} : ChecksApart(docs, id, n))
          <=> \A id \in Named(docs) : ChecksApart(docs, id, n)
      <3>1. \A id \in UNION {DOMAIN docs[k].checks : k \in 1..n} : id \in Named(docs)
        BY <1>6
      <3>2. \A id : id \notin UNION {DOMAIN docs[k].checks : k \in 1..n} => ChecksApart(docs, id, n)
        BY DEF ChecksApart
      <3> QED
        BY <3>1, <3>2
    <2> HIDE DEF OneSpan, OneAnchor, n
    <2> QED
      BY <2>1, <2>2, <2>3 DEF Together
  <1> HIDE DEF OneSpan, OneAnchor, ChecksOk, AnchorsOf, n
  <1>11. LintsClean(file, docs) <=> /\ \A k \in 1..n : Fits(file, docs[k])
                                    /\ Together(docs, n)
                                    /\ \A id \in Named(docs) : CoherenceLints(docs, id)
    BY <1>8, <1>9, <1>10
  <1> QED
    BY <1>11 DEF n

\* One of the first overlays adds the check to the phenomenon.
Posted(docs, n, id, c) ==
    \E j \in 1..n : id \in DOMAIN docs[j].checks
                    /\ \E i \in DOMAIN docs[j].checks[id] : c = docs[j].checks[id][i]

-----------------------------------------------------------------------------
\* What the merge of the first n overlays holds of them.
Took(file, docs, n, g) ==
    /\ GrownFrom(file, g)
    /\ \A id \in DOMAIN g.phenomena : {"span", "walks", "anchor"} \subseteq DOMAIN g.phenomena[id]
    /\ DOMAIN g.rules = {docs[s[1]].rules[s[2]].id : s \in {x \in (1..n) \X Nat : x[2] \in DOMAIN docs[x[1]].rules}}
    /\ \A id \in DOMAIN g.phenomena :
           /\ \A j \in 1..n : id \in DOMAIN docs[j].spans => g.phenomena[id].span = docs[j].spans[id].span
           /\ (\A j \in 1..n : id \notin DOMAIN docs[j].spans) => g.phenomena[id].span = ""
           /\ \A j \in 1..n : id \in DOMAIN docs[j].anchors => g.phenomena[id].anchor = docs[j].anchors[id]
           /\ (\A j \in 1..n : id \notin DOMAIN docs[j].anchors) => g.phenomena[id].anchor = ""
           /\ \A c : c \in g.phenomena[id].checks <=> Posted(docs, n, id, c)

Unspanned(file) ==
    \A id \in IdsOf(file, {"CorrelationGroup"}) : Data(file, id, "CorrelationGroup").span = ""

LEMMA ParseTookNone ==
    ASSUME NEW file, NEW docs, Unspanned(file)
    PROVE  Took(file, docs, 0, Parse(file))
  <1>1. GrownFrom(file, Parse(file))
    BY ParseIsGrown
  <1>2. /\ DOMAIN Parse(file).phenomena = IdsOf(file, {"CorrelationGroup"})
        /\ \A id \in IdsOf(file, {"CorrelationGroup"}) :
              /\ {"span", "walks", "anchor"} \subseteq DOMAIN Parse(file).phenomena[id]
              /\ Parse(file).phenomena[id].span = Data(file, id, "CorrelationGroup").span
              /\ Parse(file).phenomena[id].anchor = ""
              /\ Parse(file).phenomena[id].checks = {}
    BY DEF Parse
  <1>3. DOMAIN Parse(file).rules = {}
    BY DEF Parse
  <1>4. {x \in (1..0) \X Nat : x[2] \in DOMAIN docs[x[1]].rules} = {}
    OBVIOUS
  <1>5. DOMAIN Parse(file).rules = {docs[s[1]].rules[s[2]].id : s \in {x \in (1..0) \X Nat : x[2] \in DOMAIN docs[x[1]].rules}}
    BY <1>3, <1>4
  <1>6. \A j : j \notin 1..0
    OBVIOUS
  <1> QED
    BY <1>1, <1>2, <1>5, <1>6 DEF Took, Unspanned, Posted

\* What the nodes of a file are to the linter and to the loader.
LEMMA TypedIds ==
    ASSUME NEW file, NEW g, GrownFrom(file, g), NEW id
    PROVE  /\ HasType(file, id, "Signal") <=> id \in DOMAIN g.signals
           /\ HasType(file, id, "CorrelationGroup") <=> id \in DOMAIN g.phenomena
           /\ id \in DOMAIN g.phenomena =>
                \A x : (\E m \in g.phenomena[id].members : m.signal = x) <=>
                          \E e \in file.edges : e.type = "participates_in" /\ e.src = x /\ e.dst = id
  <1>1. \A t : HasType(file, id, t) <=> id \in IdsOf(file, {t})
    BY DEF HasType, IdsOf, OfType
  <1>2. DOMAIN Parse(file).signals = IdsOf(file, {"Signal"})
    BY DEF Parse
  <1>3. g.signals = Parse(file).signals /\ DOMAIN g.phenomena = IdsOf(file, {"CorrelationGroup"})
    BY DEF GrownFrom
  <1>4. id \in DOMAIN g.phenomena => g.phenomena[id].members = MembersOf(file, id)
    BY DEF GrownFrom
  <1>5. \A x : (\E m \in MembersOf(file, id) : m.signal = x) <=>
               \E e \in file.edges : e.type = "participates_in" /\ e.src = x /\ e.dst = id
    <2> DEFINE E == {e \in file.edges : e.type = "participates_in" /\ e.dst = id}
               M(e) == [signal |-> e.src, role |-> e.role, early |-> e.early]
    <2>1. MembersOf(file, id) = {M(e) : e \in E}
      BY DEF MembersOf
    <2>2. \A e : M(e).signal = e.src
      OBVIOUS
    <2> HIDE DEF M
    <2>3. \A x : (\E m \in {M(e) : e \in E} : m.signal = x) <=> \E e \in E : e.src = x
      BY <2>2
    <2> QED
      BY <2>1, <2>3
  <1>6. HasType(file, id, "Signal") <=> id \in DOMAIN g.signals
    BY <1>1, <1>2, <1>3
  <1>7. HasType(file, id, "CorrelationGroup") <=> id \in DOMAIN g.phenomena
    BY <1>1, <1>3
  <1> QED
    BY <1>4, <1>5, <1>6, <1>7

\* An overlay beside the first n: what it declares of a phenomenon is what they declare,
\* no rule and no check of it is one of theirs; and no two of its own are one.
SpansBeside(docs, n, doc) ==
    \A j \in 1..n : \A id \in DOMAIN doc.spans \cap DOMAIN docs[j].spans :
        docs[j].spans[id].span = doc.spans[id].span
AnchorsBeside(docs, n, doc) ==
    \A j \in 1..n : \A id \in DOMAIN doc.anchors \cap DOMAIN docs[j].anchors :
        docs[j].anchors[id] = doc.anchors[id]
RulesBeside(docs, n, doc) ==
    \A j \in 1..n : \A i \in DOMAIN docs[j].rules, l \in DOMAIN doc.rules :
        docs[j].rules[i].id # doc.rules[l].id
ChecksBeside(docs, n, doc) ==
    \A j \in 1..n : \A id \in DOMAIN doc.checks \cap DOMAIN docs[j].checks :
        \A i \in DOMAIN docs[j].checks[id], l \in DOMAIN doc.checks[id] :
            docs[j].checks[id][i].signal # doc.checks[id][l].signal
OwnRulesApart(doc) == \A i, l \in DOMAIN doc.rules : doc.rules[i].id = doc.rules[l].id => i = l
OwnChecksApart(doc) ==
    \A id \in DOMAIN doc.checks : \A i, l \in DOMAIN doc.checks[id] :
        doc.checks[id][i].signal = doc.checks[id][l].signal => i = l
KnowsAll(ps, f) == \A id \in DOMAIN f : id \in ps
AnchorsOk(doc) == \A id \in DOMAIN doc.anchors : doc.anchors[id] \in Scopes
RulesOk(file, doc) == \A i \in DOMAIN doc.rules : RuleOk(file, doc.rules[i])
AllChecksOk(file, doc) ==
    \A id \in DOMAIN doc.checks : \A i \in DOMAIN doc.checks[id] : CheckOk(file, id, doc.checks[id][i])

\* One more overlay agrees with those before it, and its own parts are apart.
LEMMA TogetherMore ==
    ASSUME NEW docs, NEW n \in Nat, Together(docs, n)
    PROVE  LET doc == docs[n + 1] IN
           Together(docs, n + 1) <=>
               /\ SpansBeside(docs, n, doc) /\ AnchorsBeside(docs, n, doc)
               /\ RulesBeside(docs, n, doc) /\ OwnRulesApart(doc)
               /\ ChecksBeside(docs, n, doc) /\ OwnChecksApart(doc)
  <1> DEFINE doc == docs[n + 1]
             CrossChecks(id) == \A j \in {x \in 1..n : id \in DOMAIN docs[x].checks} :
                 \A i \in DOMAIN docs[j].checks[id], l \in DOMAIN doc.checks[id] :
                     docs[j].checks[id][i].signal # doc.checks[id][l].signal
             OwnChecks(id) == \A i, l \in DOMAIN doc.checks[id] :
                 doc.checks[id][i].signal = doc.checks[id][l].signal => i = l
  <1>1. (\A k : k \in 1..(n + 1) <=> k \in 1..n \/ k = n + 1) /\ n + 1 \notin 1..n
    OBVIOUS
  <1>2. SpansAgree(docs, n) /\ AnchorsAgree(docs, n) /\ RulesApart(docs, n)
        /\ \A id \in UNION {DOMAIN docs[k].checks : k \in 1..n} : ChecksApart(docs, id, n)
    BY DEF Together
  <1>3. SpansAgree(docs, n + 1) <=>
            \A j \in 1..n : \A id \in DOMAIN doc.spans \cap DOMAIN docs[j].spans :
                docs[j].spans[id].span = doc.spans[id].span
    BY <1>1, <1>2 DEF SpansAgree
  <1>4. AnchorsAgree(docs, n + 1) <=>
            \A j \in 1..n : \A id \in DOMAIN doc.anchors \cap DOMAIN docs[j].anchors :
                docs[j].anchors[id] = doc.anchors[id]
    BY <1>1, <1>2 DEF AnchorsAgree
  <1>5. RulesApart(docs, n + 1) <=>
            /\ \A j \in 1..n : \A i \in DOMAIN docs[j].rules, l \in DOMAIN doc.rules :
                   docs[j].rules[i].id # doc.rules[l].id
            /\ \A i, l \in DOMAIN doc.rules : doc.rules[i].id = doc.rules[l].id => i = l
    BY <1>1, <1>2 DEF RulesApart
  <1>6. ASSUME NEW id \in DOMAIN doc.checks
        PROVE  ChecksApart(docs, id, n + 1) <=> CrossChecks(id) /\ OwnChecks(id)
    <2>1. ChecksApart(docs, id, n)
      <3>1. id \notin UNION {DOMAIN docs[k].checks : k \in 1..n} => {x \in 1..n : id \in DOMAIN docs[x].checks} = {}
        OBVIOUS
      <3> QED
        BY <1>2, <3>1 DEF ChecksApart
    <2>2. {x \in 1..(n + 1) : id \in DOMAIN docs[x].checks}
              = {x \in 1..n : id \in DOMAIN docs[x].checks} \cup {n + 1}
      BY <1>1, <1>6
    <2> QED
      BY <1>1, <2>1, <2>2 DEF ChecksApart
  <1>7. ASSUME NEW id, id \notin DOMAIN doc.checks
        PROVE  ChecksApart(docs, id, n + 1) <=> ChecksApart(docs, id, n)
    <2>1. {x \in 1..(n + 1) : id \in DOMAIN docs[x].checks} = {x \in 1..n : id \in DOMAIN docs[x].checks}
      BY <1>1, <1>7
    <2> QED
      BY <2>1 DEF ChecksApart
  <1>8. \A id : id \in UNION {DOMAIN docs[k].checks : k \in 1..(n + 1)}
                <=> id \in DOMAIN doc.checks \/ id \in UNION {DOMAIN docs[k].checks : k \in 1..n}
    BY <1>1
  <1>9. (\A id \in UNION {DOMAIN docs[k].checks : k \in 1..(n + 1)} : ChecksApart(docs, id, n + 1))
        <=> \A id \in DOMAIN doc.checks : CrossChecks(id) /\ OwnChecks(id)
    <2> HIDE DEF CrossChecks, OwnChecks, doc
    <2> QED
      BY <1>2, <1>6, <1>7, <1>8
  <1>10. (\A id \in DOMAIN doc.checks : CrossChecks(id))
         <=> \A j \in 1..n : \A id \in DOMAIN doc.checks \cap DOMAIN docs[j].checks :
                 \A i \in DOMAIN docs[j].checks[id], l \in DOMAIN doc.checks[id] :
                     docs[j].checks[id][i].signal # doc.checks[id][l].signal
    OBVIOUS
  <1>11. Together(docs, n + 1) <=>
            /\ SpansAgree(docs, n + 1) /\ AnchorsAgree(docs, n + 1) /\ RulesApart(docs, n + 1)
            /\ \A id \in DOMAIN doc.checks : CrossChecks(id)
            /\ \A id \in DOMAIN doc.checks : OwnChecks(id)
    <2> HIDE DEF CrossChecks, OwnChecks, doc
    <2> QED
      BY <1>9 DEF Together
  <1>12. doc = docs[n + 1]
    OBVIOUS
  <1> HIDE DEF doc
  <1>13. /\ SpansAgree(docs, n + 1) <=> SpansBeside(docs, n, doc)
         /\ AnchorsAgree(docs, n + 1) <=> AnchorsBeside(docs, n, doc)
         /\ RulesApart(docs, n + 1) <=> RulesBeside(docs, n, doc) /\ OwnRulesApart(doc)
         /\ (\A id \in DOMAIN doc.checks : CrossChecks(id)) <=> ChecksBeside(docs, n, doc)
         /\ (\A id \in DOMAIN doc.checks : OwnChecks(id)) <=> OwnChecksApart(doc)
    BY <1>3, <1>4, <1>5, <1>10 DEF SpansBeside, AnchorsBeside, RulesBeside, ChecksBeside, OwnRulesApart, OwnChecksApart
  <1> QED
    BY <1>11, <1>12, <1>13

LEMMA SpansFitIs ==
    ASSUME NEW file, NEW docs, NEW n \in Nat, NEW g, Took(file, docs, n, g),
           \A k \in 1..n : Fits(file, docs[k]), NEW doc
    PROVE  SpansFit(g, doc) <=>
               KnowsAll(DOMAIN g.phenomena, doc.spans) /\ SpanLints(doc) /\ SpansBeside(docs, n, doc)
  <1> DEFINE Earlier(id) == \A j \in 1..n : id \in DOMAIN docs[j].spans => docs[j].spans[id].span = doc.spans[id].span
             Alone(d) == /\ d.span \in Spans /\ d.walks \subseteq EdgeTypes /\ d.rationale # ""
                         /\ IF d.span = "entity-local" THEN d.walks = {} ELSE d.walks # {}
  <1>1. ASSUME NEW id \in DOMAIN g.phenomena, doc.spans[id].span \in Spans
        PROVE  g.phenomena[id].span \in {"", doc.spans[id].span} <=> Earlier(id)
    <2>1. /\ \A j \in 1..n : id \in DOMAIN docs[j].spans => g.phenomena[id].span = docs[j].spans[id].span
          /\ (\A j \in 1..n : id \notin DOMAIN docs[j].spans) => g.phenomena[id].span = ""
      BY DEF Took
    <2>2. doc.spans[id].span # ""
      BY <1>1 DEF Spans
    <2>3. \A j \in 1..n : id \in DOMAIN docs[j].spans => docs[j].spans[id].span # ""
      BY DEF Fits, SpanLints, Spans
    <2> QED
      BY <2>1, <2>2, <2>3
  <1>2. ASSUME NEW id \in DOMAIN g.phenomena
        PROVE  SpanFits(g.phenomena[id], doc.spans[id]) <=> Alone(doc.spans[id]) /\ Earlier(id)
    <2> DEFINE d == doc.spans[id]
    <2>1. SpanFits(g.phenomena[id], d) <=> Alone(d) /\ g.phenomena[id].span \in {"", d.span}
      BY DEF SpanFits
    <2> HIDE DEF Earlier
    <2> QED
      BY <1>1, <2>1
  <1>3. SpanLints(doc) <=> \A id \in DOMAIN doc.spans : Alone(doc.spans[id])
    BY DEF SpanLints
  <1>4. (\A id \in DOMAIN doc.spans : Earlier(id)) <=>
            \A j \in 1..n : \A id \in DOMAIN doc.spans \cap DOMAIN docs[j].spans :
                   docs[j].spans[id].span = doc.spans[id].span
    OBVIOUS
  <1> HIDE DEF Earlier, Alone
  <1> QED
    BY <1>2, <1>3, <1>4 DEF SpansFit, SpansBeside, KnowsAll

LEMMA AnchorsFitIs ==
    ASSUME NEW file, NEW docs, NEW n \in Nat, NEW g, Took(file, docs, n, g),
           \A k \in 1..n : Fits(file, docs[k]), NEW doc
    PROVE  AnchorsFit(g, doc) <=>
               KnowsAll(DOMAIN g.phenomena, doc.anchors) /\ AnchorsOk(doc) /\ AnchorsBeside(docs, n, doc)
  <1> DEFINE Earlier(id) == \A j \in 1..n : id \in DOMAIN docs[j].anchors => docs[j].anchors[id] = doc.anchors[id]
  <1>1. ASSUME NEW id \in DOMAIN g.phenomena, doc.anchors[id] \in Scopes
        PROVE  g.phenomena[id].anchor \in {"", doc.anchors[id]} <=> Earlier(id)
    <2>1. /\ \A j \in 1..n : id \in DOMAIN docs[j].anchors => g.phenomena[id].anchor = docs[j].anchors[id]
          /\ (\A j \in 1..n : id \notin DOMAIN docs[j].anchors) => g.phenomena[id].anchor = ""
      BY DEF Took
    <2>2. doc.anchors[id] # ""
      BY <1>1 DEF Scopes
    <2>3. \A j \in 1..n : id \in DOMAIN docs[j].anchors => docs[j].anchors[id] # ""
      BY DEF Fits, Scopes
    <2> QED
      BY <2>1, <2>2, <2>3
  <1>2. (\A id \in DOMAIN doc.anchors : Earlier(id)) <=>
            \A j \in 1..n : \A id \in DOMAIN doc.anchors \cap DOMAIN docs[j].anchors :
                   docs[j].anchors[id] = doc.anchors[id]
    OBVIOUS
  <1> HIDE DEF Earlier
  <1> QED
    BY <1>1, <1>2 DEF AnchorsFit, AnchorsBeside, KnowsAll, AnchorsOk

LEMMA RulesFitIs ==
    ASSUME NEW file, NEW docs, NEW n \in Nat, NEW g, Took(file, docs, n, g), NEW doc, doc.rules \in Seq(AuthoredRule),
           \A j \in 1..n : docs[j].rules \in Seq(AuthoredRule)
    PROVE  RulesFit(g, doc) <=> RulesOk(file, doc) /\ RulesBeside(docs, n, doc) /\ OwnRulesApart(doc)
  <1>1. \A i \in DOMAIN doc.rules : i \in Nat /\ \A j \in 1..(i - 1) : j \in DOMAIN doc.rules /\ j # i
    OBVIOUS
  <1>2. \A x : x \in DOMAIN g.rules <=> \E j \in 1..n : \E i \in DOMAIN docs[j].rules : x = docs[j].rules[i].id
    <2>1. \A j \in 1..n : \A i \in DOMAIN docs[j].rules : i \in Nat
      OBVIOUS
    <2> DEFINE S == {x \in (1..n) \X Nat : x[2] \in DOMAIN docs[x[1]].rules}
    <2>2. \A x : (\E s \in S : x = docs[s[1]].rules[s[2]].id)
                 <=> \E j \in 1..n : \E i \in DOMAIN docs[j].rules : x = docs[j].rules[i].id
      <3> TAKE x
      <3>1. ASSUME NEW s \in S, x = docs[s[1]].rules[s[2]].id
            PROVE  \E j \in 1..n : \E i \in DOMAIN docs[j].rules : x = docs[j].rules[i].id
        BY <3>1
      <3>2. ASSUME NEW j \in 1..n, NEW i \in DOMAIN docs[j].rules, x = docs[j].rules[i].id
            PROVE  \E s \in S : x = docs[s[1]].rules[s[2]].id
        <4>1. <<j, i>> \in S
          BY <2>1
        <4>2. <<j, i>>[1] = j /\ <<j, i>>[2] = i
          OBVIOUS
        <4> QED
          BY <3>2, <4>1, <4>2
      <3> QED
        BY <3>1, <3>2
    <2>3. DOMAIN g.rules = {docs[s[1]].rules[s[2]].id : s \in S}
      BY DEF Took
    <2> HIDE DEF S
    <2>4. \A x : x \in DOMAIN g.rules <=> \E s \in S : x = docs[s[1]].rules[s[2]].id
      BY <2>3
    <2>5. ASSUME NEW x PROVE x \in DOMAIN g.rules <=> \E j \in 1..n : \E i \in DOMAIN docs[j].rules : x = docs[j].rules[i].id
      <3>1. x \in DOMAIN g.rules <=> \E s \in S : x = docs[s[1]].rules[s[2]].id
        BY <2>4
      <3>2. (\E s \in S : x = docs[s[1]].rules[s[2]].id)
                 <=> \E j \in 1..n : \E i \in DOMAIN docs[j].rules : x = docs[j].rules[i].id
        BY <2>2
      <3> QED
        BY <3>1, <3>2
    <2> QED
      BY <2>5
  <1>3. \A x : HasType(file, x, "Signal") <=> x \in DOMAIN g.signals
    BY TypedIds DEF Took
  <1>4. \A i \in DOMAIN doc.rules :
            RuleFits(g, doc.rules[i]) <=> RuleOk(file, doc.rules[i]) /\ doc.rules[i].id \notin DOMAIN g.rules
    BY <1>3 DEF RuleFits, RuleOk
  <1>5. (\A i \in DOMAIN doc.rules : doc.rules[i].id \notin DOMAIN g.rules) <=>
            \A j \in 1..n : \A i \in DOMAIN docs[j].rules, l \in DOMAIN doc.rules :
                   docs[j].rules[i].id # doc.rules[l].id
    BY <1>2
  <1>6. (\A i \in DOMAIN doc.rules : \A j \in 1..(i - 1) : doc.rules[j].id # doc.rules[i].id) <=>
            \A i, l \in DOMAIN doc.rules : doc.rules[i].id = doc.rules[l].id => i = l
    <2>1. ASSUME \A i \in DOMAIN doc.rules : \A j \in 1..(i - 1) : doc.rules[j].id # doc.rules[i].id,
                 NEW i \in DOMAIN doc.rules, NEW l \in DOMAIN doc.rules, doc.rules[i].id = doc.rules[l].id
          PROVE  i = l
      <3>1. i \in Nat /\ l \in Nat /\ 1 =< i /\ 1 =< l
        BY <1>1
      <3>2. ~(i \in 1..(l - 1)) /\ ~(l \in 1..(i - 1))
        BY <2>1
      <3> QED
        BY <3>1, <3>2
    <2> QED
      BY <1>1, <2>1
  <1> QED
    BY <1>4, <1>5, <1>6 DEF RulesFit, RulesBeside, RulesOk, OwnRulesApart

LEMMA ChecksFitIs ==
    ASSUME NEW file, NEW docs, NEW n \in Nat, NEW g, Took(file, docs, n, g), NEW doc,
           \A id \in DOMAIN doc.checks : doc.checks[id] \in Seq(AuthoredCheck)
    PROVE  ChecksFit(g, doc) <=>
               /\ KnowsAll(DOMAIN g.phenomena, doc.checks) /\ AllChecksOk(file, doc)
               /\ ChecksBeside(docs, n, doc) /\ OwnChecksApart(doc)
  <1> DEFINE Earlier(id) == \A j \in 1..n : id \in DOMAIN docs[j].checks =>
                      \A i \in DOMAIN docs[j].checks[id], l \in DOMAIN doc.checks[id] :
                          docs[j].checks[id][i].signal # doc.checks[id][l].signal
             Own(id) == \A i, l \in DOMAIN doc.checks[id] :
                      doc.checks[id][i].signal = doc.checks[id][l].signal => i = l
  <1>1. GrownFrom(file, g)
    BY DEF Took
  <1>2. ASSUME NEW id \in DOMAIN g.phenomena, NEW c
        PROVE  CheckFits(g, id, c) <=> CheckOk(file, id, c)
    <2>1. HasType(file, c.signal, "Signal") <=> c.signal \in DOMAIN g.signals
      BY <1>1, TypedIds
    <2>2. (\E m \in g.phenomena[id].members : m.signal = c.signal) <=>
              \E e \in file.edges : e.type = "participates_in" /\ e.src = c.signal /\ e.dst = id
      BY <1>1, TypedIds
    <2> QED
      BY <2>1, <2>2 DEF CheckFits, CheckOk
  <1>3. ASSUME NEW id \in DOMAIN g.phenomena
        PROVE  SignalsOf(doc.checks[id]) \cap {c.signal : c \in g.phenomena[id].checks} = {} <=> Earlier(id)
    <2>1. \A c : c \in g.phenomena[id].checks <=>
                  \E j \in 1..n : id \in DOMAIN docs[j].checks
                                  /\ \E i \in DOMAIN docs[j].checks[id] : c = docs[j].checks[id][i]
      BY DEF Took, Posted
    <2>2. SignalsOf(doc.checks[id]) \cap {c.signal : c \in g.phenomena[id].checks} = {} <=>
              \A c \in g.phenomena[id].checks : \A l \in DOMAIN doc.checks[id] : c.signal # doc.checks[id][l].signal
      BY DEF SignalsOf
    <2> QED
      BY <2>1, <2>2
  <1>4. \A id \in DOMAIN doc.checks : NoDuplicates(doc.checks[id]) <=> Own(id)
    BY NoDuplicatesMeansOne, DistinctMeansNoDuplicates
  <1>5. (\A id \in DOMAIN doc.checks : Earlier(id)) <=>
            \A j \in 1..n : \A id \in DOMAIN doc.checks \cap DOMAIN docs[j].checks :
                      \A i \in DOMAIN docs[j].checks[id], l \in DOMAIN doc.checks[id] :
                          docs[j].checks[id][i].signal # doc.checks[id][l].signal
    OBVIOUS
  <1> HIDE DEF Earlier, Own
  <1>6. ChecksFit(g, doc) <=>
            /\ \A id \in DOMAIN doc.checks : id \in DOMAIN g.phenomena
            /\ \A id \in DOMAIN doc.checks : \A i \in DOMAIN doc.checks[id] : CheckOk(file, id, doc.checks[id][i])
            /\ \A id \in DOMAIN doc.checks : Earlier(id)
            /\ \A id \in DOMAIN doc.checks : Own(id)
    BY <1>2, <1>3, <1>4 DEF ChecksFit
  <1> QED
    BY <1>5, <1>6 DEF Own, ChecksBeside, OwnChecksApart, KnowsAll, AllChecksOk

\* The loader asks of the next overlay what is asked of it alone and beside those before.
LEMMA AppliesIs ==
    ASSUME NEW file, NEW docs, Authored(docs), NEW n \in Nat, n + 1 =< Len(docs),
           NEW g, Took(file, docs, n, g), \A k \in 1..n : Fits(file, docs[k]), Together(docs, n)
    PROVE  Applies(g, docs[n + 1]) <=> Fits(file, docs[n + 1]) /\ Together(docs, n + 1)
  <1> DEFINE doc == docs[n + 1]
  <1>1. /\ doc.rules \in Seq(AuthoredRule) /\ \A j \in 1..n : docs[j].rules \in Seq(AuthoredRule)
        /\ \A id \in DOMAIN doc.checks : doc.checks[id] \in Seq(AuthoredCheck)
    BY DEF Authored
  <1>2. \A id : HasType(file, id, "CorrelationGroup") <=> id \in DOMAIN g.phenomena
    BY TypedIds DEF Took
  <1>3. /\ SpansFit(g, doc) <=> KnowsAll(DOMAIN g.phenomena, doc.spans) /\ SpanLints(doc) /\ SpansBeside(docs, n, doc)
        /\ AnchorsFit(g, doc) <=> KnowsAll(DOMAIN g.phenomena, doc.anchors) /\ AnchorsOk(doc) /\ AnchorsBeside(docs, n, doc)
    BY SpansFitIs, AnchorsFitIs
  <1>4. RulesFit(g, doc) <=> RulesOk(file, doc) /\ RulesBeside(docs, n, doc) /\ OwnRulesApart(doc)
    BY <1>1, RulesFitIs
  <1>5. ChecksFit(g, doc) <=>
            /\ KnowsAll(DOMAIN g.phenomena, doc.checks) /\ AllChecksOk(file, doc)
            /\ ChecksBeside(docs, n, doc) /\ OwnChecksApart(doc)
    BY <1>1, ChecksFitIs
  <1>6. Together(docs, n + 1) <=>
            /\ SpansBeside(docs, n, doc) /\ AnchorsBeside(docs, n, doc)
            /\ RulesBeside(docs, n, doc) /\ OwnRulesApart(doc)
            /\ ChecksBeside(docs, n, doc) /\ OwnChecksApart(doc)
    BY TogetherMore
  <1> HIDE DEF doc
  <1>7. Fits(file, doc) <=>
            /\ doc.name # "" /\ doc.author # "" /\ SpanLints(doc)
            /\ KnowsAll(DOMAIN g.phenomena, doc.spans) /\ KnowsAll(DOMAIN g.phenomena, doc.anchors)
            /\ KnowsAll(DOMAIN g.phenomena, doc.checks)
            /\ AnchorsOk(doc) /\ RulesOk(file, doc) /\ AllChecksOk(file, doc)
    BY <1>2 DEF Fits, KnowsAll, AnchorsOk, RulesOk, AllChecksOk
  <1>8. Applies(g, doc) <=> Fits(file, doc) /\ Together(docs, n + 1)
    BY <1>3, <1>4, <1>5, <1>6, <1>7 DEF Applies
  <1> QED
    BY <1>8 DEF doc

LEMMA ApplyTook ==
    ASSUME NEW file, NEW docs, Authored(docs), NEW n \in Nat, n + 1 =< Len(docs),
           NEW g, Took(file, docs, n, g), Applies(g, docs[n + 1]), Together(docs, n + 1)
    PROVE  Took(file, docs, n + 1, Apply(g, docs[n + 1]))
  <1> DEFINE doc == docs[n + 1]
             h == Apply(g, doc)
             ps == DOMAIN g.phenomena
             Checks(id) == IF id \in DOMAIN doc.checks THEN doc.checks[id] ELSE <<>>
             New(id) == {Checks(id)[i] : i \in DOMAIN Checks(id)}
             new == {doc.rules[i] : i \in DOMAIN doc.rules}
             ids == {r.id : r \in new}
  <1>1. GrownFrom(file, g) /\ \A id \in ps : {"span", "walks", "anchor", "checks"} \subseteq DOMAIN g.phenomena[id]
    <2>1. GrownFrom(file, g) /\ \A id \in ps : {"span", "walks", "anchor"} \subseteq DOMAIN g.phenomena[id]
      BY DEF Took
    <2>2. \A id \in ps : "checks" \in DOMAIN g.phenomena[id]
      BY <2>1 DEF GrownFrom
    <2> HIDE DEF ps
    <2> QED
      BY <2>1, <2>2
  <1>2. GrownFrom(file, h)
    <2>1. \A id \in DOMAIN doc.checks : doc.checks[id] \in Seq(AuthoredCheck)
      BY DEF Authored
    <2> QED
      BY <1>1, <2>1, ApplyGrows
  <1>3. DOMAIN h.phenomena = ps /\ DOMAIN h.rules = DOMAIN g.rules \cup ids
    BY <1>1 DEF GrownFrom, Apply
  <1>4. ASSUME NEW id \in ps
        PROVE  /\ DOMAIN h.phenomena[id] = DOMAIN g.phenomena[id]
               /\ h.phenomena[id].span = IF id \in DOMAIN doc.spans THEN doc.spans[id].span ELSE g.phenomena[id].span
               /\ h.phenomena[id].anchor = IF id \in DOMAIN doc.anchors THEN doc.anchors[id] ELSE g.phenomena[id].anchor
               /\ h.phenomena[id].checks = g.phenomena[id].checks \cup New(id)
    BY <1>1 DEF GrownFrom, Apply
  <1>5. (\A k : k \in 1..(n + 1) <=> k \in 1..n \/ k = n + 1) /\ n + 1 \notin 1..n
    OBVIOUS
  <1>6. \A x : x \in ids <=> \E i \in DOMAIN doc.rules : x = doc.rules[i].id
    OBVIOUS
  <1>7. \A id : \A c : c \in New(id) <=> id \in DOMAIN doc.checks /\ \E i \in DOMAIN doc.checks[id] : c = doc.checks[id][i]
    OBVIOUS
  <1>8. doc = docs[n + 1]
    OBVIOUS
  <1> HIDE DEF doc, h, New, new, ids, Checks
  <1>9. DOMAIN h.rules = {docs[s[1]].rules[s[2]].id : s \in {x \in (1..(n + 1)) \X Nat : x[2] \in DOMAIN docs[x[1]].rules}}
    <2> DEFINE S(m) == {x \in (1..m) \X Nat : x[2] \in DOMAIN docs[x[1]].rules}
    <2>1. DOMAIN g.rules = {docs[s[1]].rules[s[2]].id : s \in S(n)}
      BY DEF Took
    <2>2. doc.rules \in Seq(AuthoredRule)
      BY <1>8 DEF Authored
    <2>3. \A s \in S(n) : s \in S(n + 1)
      BY <1>5
    <2>4. \A s \in S(n + 1) : s \in S(n) \/ (s[1] = n + 1 /\ s[2] \in DOMAIN doc.rules)
      <3> TAKE s \in S(n + 1)
      <3>1. s \in (1..(n + 1)) \X Nat /\ s[2] \in DOMAIN docs[s[1]].rules
        OBVIOUS
      <3>2. s = <<s[1], s[2]>> /\ s[1] \in 1..(n + 1) /\ s[2] \in Nat
        BY <3>1
      <3>3. CASE s[1] = n + 1
        BY <1>8, <3>1, <3>3
      <3>4. CASE s[1] \in 1..n
        <4>1. s \in (1..n) \X Nat
          BY <3>1, <3>4
        <4> QED
          BY <3>1, <4>1
      <3> QED
        BY <1>5, <3>2, <3>3, <3>4
    <2>5. \A i \in DOMAIN doc.rules : <<n + 1, i>> \in S(n + 1) /\ <<n + 1, i>>[1] = n + 1 /\ <<n + 1, i>>[2] = i
      BY <1>5, <1>8, <2>2
    <2> HIDE DEF S
    <2>6. ASSUME NEW x PROVE x \in DOMAIN h.rules <=> \E s \in S(n + 1) : x = docs[s[1]].rules[s[2]].id
      <3>1. x \in DOMAIN h.rules <=> x \in DOMAIN g.rules \/ x \in ids
        BY <1>3
      <3>2. x \in DOMAIN g.rules <=> \E s \in S(n) : x = docs[s[1]].rules[s[2]].id
        BY <2>1
      <3>3. x \in ids <=> \E i \in DOMAIN doc.rules : x = docs[n + 1].rules[i].id
        BY <1>6, <1>8
      <3>4. x \in DOMAIN h.rules => \E s \in S(n + 1) : x = docs[s[1]].rules[s[2]].id
        <4>1. CASE x \in DOMAIN g.rules
          BY <3>2, <4>1, <2>3
        <4>2. CASE x \in ids
          <5>1. PICK i \in DOMAIN doc.rules : x = docs[n + 1].rules[i].id
            BY <3>3, <4>2
          <5> DEFINE s == <<n + 1, i>>
          <5>2. s \in S(n + 1) /\ s[1] = n + 1 /\ s[2] = i
            BY <2>5
          <5> HIDE DEF s
          <5>3. x = docs[s[1]].rules[s[2]].id
            BY <5>1, <5>2
          <5> QED
            BY <5>2, <5>3
        <4> QED
          BY <3>1, <4>1, <4>2
      <3>5. ASSUME NEW s \in S(n + 1), x = docs[s[1]].rules[s[2]].id PROVE x \in DOMAIN h.rules
        <4>1. CASE s \in S(n)
          BY <3>1, <3>2, <3>5, <4>1
        <4>2. CASE s[1] = n + 1 /\ s[2] \in DOMAIN doc.rules
          BY <3>1, <3>3, <3>5, <4>2
        <4> QED
          BY <2>4, <4>1, <4>2
      <3> QED
        BY <3>4, <3>5
    <2>7. DOMAIN h.rules = {docs[s[1]].rules[s[2]].id : s \in S(n + 1)}
      BY <2>6
    <2> QED
      BY <2>7 DEF S
  <1>10. ASSUME NEW id \in ps
         PROVE  /\ \A j \in 1..(n + 1) : id \in DOMAIN docs[j].spans => h.phenomena[id].span = docs[j].spans[id].span
                /\ (\A j \in 1..(n + 1) : id \notin DOMAIN docs[j].spans) => h.phenomena[id].span = ""
    <2>1. /\ \A j \in 1..n : id \in DOMAIN docs[j].spans => g.phenomena[id].span = docs[j].spans[id].span
          /\ (\A j \in 1..n : id \notin DOMAIN docs[j].spans) => g.phenomena[id].span = ""
      BY DEF Took
    <2>2. \A j, k \in 1..(n + 1) : id \in DOMAIN docs[j].spans /\ id \in DOMAIN docs[k].spans =>
              docs[j].spans[id].span = docs[k].spans[id].span
      BY DEF Together, SpansAgree
    <2>3. h.phenomena[id].span = IF id \in DOMAIN docs[n + 1].spans THEN docs[n + 1].spans[id].span ELSE g.phenomena[id].span
      BY <1>4, <1>8
    <2>4. CASE id \in DOMAIN docs[n + 1].spans
      BY <1>5, <2>2, <2>3, <2>4
    <2>5. CASE id \notin DOMAIN docs[n + 1].spans
      BY <1>5, <2>1, <2>3, <2>5
    <2> QED
      BY <2>4, <2>5
  <1>11. ASSUME NEW id \in ps
         PROVE  /\ \A j \in 1..(n + 1) : id \in DOMAIN docs[j].anchors => h.phenomena[id].anchor = docs[j].anchors[id]
                /\ (\A j \in 1..(n + 1) : id \notin DOMAIN docs[j].anchors) => h.phenomena[id].anchor = ""
    <2>1. /\ \A j \in 1..n : id \in DOMAIN docs[j].anchors => g.phenomena[id].anchor = docs[j].anchors[id]
          /\ (\A j \in 1..n : id \notin DOMAIN docs[j].anchors) => g.phenomena[id].anchor = ""
      BY DEF Took
    <2>2. \A j, k \in 1..(n + 1) : id \in DOMAIN docs[j].anchors /\ id \in DOMAIN docs[k].anchors =>
              docs[j].anchors[id] = docs[k].anchors[id]
      BY DEF Together, AnchorsAgree
    <2>3. h.phenomena[id].anchor = IF id \in DOMAIN docs[n + 1].anchors THEN docs[n + 1].anchors[id] ELSE g.phenomena[id].anchor
      BY <1>4, <1>8
    <2>4. CASE id \in DOMAIN docs[n + 1].anchors
      BY <1>5, <2>2, <2>3, <2>4
    <2>5. CASE id \notin DOMAIN docs[n + 1].anchors
      BY <1>5, <2>1, <2>3, <2>5
    <2> QED
      BY <2>4, <2>5
  <1>12. ASSUME NEW id \in ps, NEW c
         PROVE  c \in h.phenomena[id].checks <=> Posted(docs, n + 1, id, c)
    <2> DEFINE In(j) == id \in DOMAIN docs[j].checks /\ \E i \in DOMAIN docs[j].checks[id] : c = docs[j].checks[id][i]
    <2>1. c \in g.phenomena[id].checks <=> Posted(docs, n, id, c)
      BY DEF Took
    <2>2. c \in h.phenomena[id].checks <=> c \in g.phenomena[id].checks \/ c \in New(id)
      BY <1>4
    <2>3. c \in New(id) <=> In(n + 1)
      BY <1>7, <1>8
    <2>4. Posted(docs, n, id, c) <=> \E j \in 1..n : In(j)
      BY Zenon DEF Posted
    <2>5. Posted(docs, n + 1, id, c) <=> \E j \in 1..(n + 1) : In(j)
      BY Zenon DEF Posted
    <2> HIDE DEF In
    <2>6. (\E j \in 1..(n + 1) : In(j)) <=> (\E j \in 1..n : In(j)) \/ In(n + 1)
      <3>1. n + 1 \in 1..(n + 1) /\ 1..n \subseteq 1..(n + 1)
        OBVIOUS
      <3> QED
        BY <1>5, <3>1
    <2> QED
      BY <2>1, <2>2, <2>3, <2>4, <2>5, <2>6
  <1>13. \A id \in ps : {"span", "walks", "anchor"} \subseteq DOMAIN h.phenomena[id]
    BY <1>1, <1>4
  <1> HIDE DEF ps
  <1>14. Took(file, docs, n + 1, h)
    BY <1>2, <1>3, <1>9, <1>10, <1>11, <1>12, <1>13 DEF Took
  <1> QED
    BY <1>14 DEF h, doc

LEMMA TogetherLess ==
    ASSUME NEW docs, NEW n \in Nat, Together(docs, n + 1)
    PROVE  Together(docs, n)
  <1>1. 1..n \subseteq 1..(n + 1)
    OBVIOUS
  <1>2. SpansAgree(docs, n) /\ AnchorsAgree(docs, n) /\ RulesApart(docs, n)
    BY <1>1 DEF Together, SpansAgree, AnchorsAgree, RulesApart
  <1>3. ASSUME NEW id \in UNION {DOMAIN docs[k].checks : k \in 1..n} PROVE ChecksApart(docs, id, n)
    <2>1. id \in UNION {DOMAIN docs[k].checks : k \in 1..(n + 1)}
      BY <1>1
    <2>2. ChecksApart(docs, id, n + 1)
      BY <2>1 DEF Together
    <2> QED
      BY <1>1, <2>2 DEF ChecksApart
  <1> QED
    BY <1>2, <1>3 DEF Together

\* The loader gets as far as the overlays fit, each alone and all together.
LEMMA MergedWhenFits ==
    ASSUME NEW file, Unspanned(file), NEW docs, Authored(docs)
    PROVE  LET M == Merged(file, docs)
               n == Len(docs)
           IN  /\ M[n].ok <=> (\A k \in 1..n : Fits(file, docs[k])) /\ Together(docs, n)
               /\ M[n].ok => Took(file, docs, n, M[n].graph)
  <1> DEFINE M == Merged(file, docs)
             P(n) == /\ M[n].ok <=> (\A k \in 1..n : Fits(file, docs[k])) /\ Together(docs, n)
                     /\ M[n].ok => Took(file, docs, n, M[n].graph)
             Good == {n \in Nat : n =< Len(docs) => P(n)}
  <1>1. Len(docs) \in Nat
    BY DEF Authored
  <1>2. M[0] = Loaded(Parse(file)) /\ \A n \in 1..Len(docs) : M[n] = Merge(M[n - 1], docs[n])
    BY <1>1, MergedIs
  <1>3. ~NotLoaded.ok /\ \A g : Loaded(g).ok /\ Loaded(g).graph = g
    BY DEF NotLoaded, Loaded
  <1> HIDE DEF M
  <1>4. 0 \in Good
    <2>1. Took(file, docs, 0, Parse(file))
      BY ParseTookNone
    <2>2. \A k : k \notin 1..0
      OBVIOUS
    <2>3. Together(docs, 0)
      BY <2>2 DEF Together, SpansAgree, AnchorsAgree, RulesApart
    <2> QED
      BY <1>2, <1>3, <2>1, <2>2, <2>3
  <1>5. ASSUME NEW n \in Nat, n \in Good PROVE n + 1 \in Good
    <2> SUFFICES ASSUME n + 1 =< Len(docs) PROVE P(n + 1)
      OBVIOUS
    <2>1. P(n)
      BY <1>1, <1>5
    <2>2. n + 1 \in 1..Len(docs) /\ (n + 1) - 1 = n
      BY <1>1
    <2>3. M[n + 1] = Merge(M[n], docs[n + 1])
      BY <1>2, <2>2
    <2>4. \A k : k \in 1..(n + 1) <=> k \in 1..n \/ k = n + 1
      OBVIOUS
    <2>5. CASE M[n].ok
      <3>1. /\ \A k \in 1..n : Fits(file, docs[k])
            /\ Together(docs, n) /\ Took(file, docs, n, M[n].graph)
        BY <2>1, <2>5
      <3>2. Applies(M[n].graph, docs[n + 1]) <=> Fits(file, docs[n + 1]) /\ Together(docs, n + 1)
        BY <3>1, AppliesIs
      <3>3. CASE Applies(M[n].graph, docs[n + 1])
        <4>1. M[n + 1] = Loaded(Apply(M[n].graph, docs[n + 1]))
          BY <2>3, <2>5, <3>3 DEF Merge
        <4>2. Took(file, docs, n + 1, Apply(M[n].graph, docs[n + 1]))
          BY <3>1, <3>2, <3>3, ApplyTook
        <4> QED
          BY <1>3, <2>4, <3>1, <3>2, <3>3, <4>1, <4>2
      <3>4. CASE ~Applies(M[n].graph, docs[n + 1])
        <4>1. M[n + 1] = NotLoaded
          BY <2>3, <3>4 DEF Merge
        <4> QED
          BY <1>3, <2>4, <3>2, <3>4, <4>1
      <3> QED
        BY <3>3, <3>4
    <2>6. CASE ~M[n].ok
      <3>1. M[n + 1] = NotLoaded
        BY <2>3, <2>6 DEF Merge
      <3>2. Together(docs, n + 1) => Together(docs, n)
        BY TogetherLess
      <3> QED
        BY <1>3, <2>1, <2>4, <2>6, <3>1, <3>2
    <2> QED
      BY <2>5, <2>6
  <1> HIDE DEF Good
  <1>6. Len(docs) \in Good
    BY <1>1, <1>4, <1>5, NatInductive
  <1> QED
    BY <1>1, <1>6 DEF Good, M

\* The linter's list of the phenomenon's checks holds the check.
Listed(docs, id, c) == \E p \in DOMAIN AllChecks(docs, id) : c = AllChecks(docs, id)[p]

LEMMA AllChecksAre ==
    ASSUME NEW docs, Authored(docs), NEW id
    PROVE  \A c : Listed(docs, id, c) <=> Posted(docs, Len(docs), id, c)
  <1> DEFINE seqs == [i \in DOMAIN docs |-> IF id \in DOMAIN docs[i].checks THEN docs[i].checks[id] ELSE <<>>]
             n == Len(docs)
             F == AllChecks(docs, id)
  <1>1. n \in Nat /\ DOMAIN docs = 1..n /\ (n = 0 => docs = <<>>)
    BY DEF Authored
  <1>2. \A j \in 1..n : /\ seqs[j] \in Seq(AuthoredCheck)
                        /\ id \in DOMAIN docs[j].checks => seqs[j] = docs[j].checks[id]
                        /\ id \notin DOMAIN docs[j].checks => seqs[j] = <<>>
    BY <1>1 DEF Authored
  <1>3. DOMAIN seqs = 1..n /\ Len(seqs) = n /\ (n = 0 => seqs = <<>>)
    BY <1>1
  <1>4. F = FlattenSeq(seqs)
    BY DEF AllChecks
  <1> HIDE DEF seqs, n, F
  <1>5. /\ F \in Seq(AuthoredCheck)
        /\ \E pos : Flattens(F, pos, seqs, n)
    BY <1>1, <1>2, <1>3, <1>4, FlattenIs
  <1>6. PICK pos : Flattens(F, pos, seqs, n)
    BY <1>5
  <1>7. DOMAIN F = 1..Len(F)
    BY <1>5
  <1>8. /\ \A p \in DOMAIN F : pos[p] \in Spots(seqs, n) /\ F[p] = seqs[pos[p][1]][pos[p][2]]
        /\ \A s \in Spots(seqs, n) : \E p \in DOMAIN F : pos[p] = s
    BY <1>6, <1>7 DEF Flattens
  <1>9. \A s \in Spots(seqs, n) : s[1] \in 1..n /\ s[2] \in DOMAIN seqs[s[1]]
    BY DEF Spots
  <1>10. \A j \in 1..n : \A i \in DOMAIN seqs[j] : <<j, i>> \in Spots(seqs, n)
    <2>1. \A j \in 1..n : \A i \in DOMAIN seqs[j] : i \in Nat
      BY <1>2
    <2> QED
      BY <2>1 DEF Spots
  <1>11. ASSUME NEW c, NEW p \in DOMAIN F, c = F[p]
         PROVE  \E j \in 1..n : id \in DOMAIN docs[j].checks
                                  /\ \E i \in DOMAIN docs[j].checks[id] : c = docs[j].checks[id][i]
    <2> DEFINE j == pos[p][1]
               i == pos[p][2]
    <2>1. j \in 1..n /\ i \in DOMAIN seqs[j] /\ c = seqs[j][i]
      BY <1>8, <1>9, <1>11
    <2>2. DOMAIN <<>> = {}
      OBVIOUS
    <2> HIDE DEF j, i
    <2>3. id \in DOMAIN docs[j].checks
      BY <1>2, <2>1, <2>2
    <2>4. seqs[j] = docs[j].checks[id]
      BY <1>2, <2>1, <2>3
    <2> QED
      BY <2>1, <2>3, <2>4
  <1>12. ASSUME NEW c, NEW j \in 1..n, id \in DOMAIN docs[j].checks, NEW i \in DOMAIN docs[j].checks[id],
                c = docs[j].checks[id][i]
         PROVE  \E p \in DOMAIN F : c = F[p]
    <2>1. seqs[j] = docs[j].checks[id]
      BY <1>2, <1>12
    <2>2. <<j, i>> \in Spots(seqs, n)
      BY <1>10, <2>1
    <2>3. PICK p \in DOMAIN F : pos[p] = <<j, i>>
      BY <1>8, <2>2
    <2>4. pos[p][1] = j /\ pos[p][2] = i
      BY <2>3
    <2>5. F[p] = seqs[j][i]
      BY <1>8, <2>4
    <2> QED
      BY <1>12, <2>1, <2>5
  <1>13. ASSUME NEW c
         PROVE  Listed(docs, id, c) <=> Posted(docs, n, id, c)
    <2>1. Listed(docs, id, c) => Posted(docs, n, id, c)
      <3> SUFFICES ASSUME Listed(docs, id, c) PROVE Posted(docs, n, id, c)
        OBVIOUS
      <3>1. PICK p \in DOMAIN F : c = F[p]
        BY DEF Listed, F
      <3> QED
        BY <1>11, <3>1 DEF Posted
    <2>2. Posted(docs, n, id, c) => Listed(docs, id, c)
      <3> SUFFICES ASSUME Posted(docs, n, id, c) PROVE Listed(docs, id, c)
        OBVIOUS
      <3>1. PICK j \in 1..n : id \in DOMAIN docs[j].checks
                              /\ \E i \in DOMAIN docs[j].checks[id] : c = docs[j].checks[id][i]
        BY DEF Posted
      <3>2. PICK i \in DOMAIN docs[j].checks[id] : c = docs[j].checks[id][i]
        BY <3>1
      <3>3. \E p \in DOMAIN F : c = F[p]
        BY <1>12, <3>1, <3>2
      <3> QED
        BY <3>3 DEF Listed, F
    <2> QED
      BY <2>1, <2>2
  <1> QED
    BY <1>13 DEF n

\* What the loader looks at when all is merged is what the linter looks at.
LEMMA FinalizesIs ==
    ASSUME NEW file, NEW docs, Authored(docs), NEW g, Took(file, docs, Len(docs), g), Together(docs, Len(docs)),
           \A k \in 1..Len(docs) : Fits(file, docs[k])
    PROVE  Finalizes(g) <=> \A id \in Named(docs) : CoherenceLints(docs, id)
  <1> DEFINE n == Len(docs)
             ps == DOMAIN g.phenomena
             Site(id) == CoherentSite(g.phenomena[id].span, g.phenomena[id].anchor,
                                      {c.on : c \in g.phenomena[id].checks})
  <1>1. DOMAIN docs = 1..n
    BY DEF Authored
  <1>2. \A id : id \in Named(docs) <=>
            \E k \in 1..n : id \in DOMAIN docs[k].spans \cup DOMAIN docs[k].anchors \cup DOMAIN docs[k].checks
    BY <1>1 DEF Named
  <1>3. \A id \in Named(docs) : id \in ps
    <2>1. \A id : HasType(file, id, "CorrelationGroup") => id \in ps
      BY TypedIds DEF Took
    <2> QED
      BY <1>2, <2>1 DEF Fits
  <1>4. ASSUME NEW id \in ps
        PROVE  /\ (IF DeclaredSpans(docs, id) = {} THEN {""} ELSE DeclaredSpans(docs, id)) = {g.phenomena[id].span}
               /\ (IF DeclaredAnchors(docs, id) = {} THEN {""} ELSE DeclaredAnchors(docs, id)) = {g.phenomena[id].anchor}
    <2>1. /\ \A j \in 1..n : id \in DOMAIN docs[j].spans => g.phenomena[id].span = docs[j].spans[id].span
          /\ (\A j \in 1..n : id \notin DOMAIN docs[j].spans) => g.phenomena[id].span = ""
          /\ \A j \in 1..n : id \in DOMAIN docs[j].anchors => g.phenomena[id].anchor = docs[j].anchors[id]
          /\ (\A j \in 1..n : id \notin DOMAIN docs[j].anchors) => g.phenomena[id].anchor = ""
      BY DEF Took
    <2>2. (IF DeclaredSpans(docs, id) = {} THEN {""} ELSE DeclaredSpans(docs, id)) = {g.phenomena[id].span}
      BY <1>1, <2>1 DEF DeclaredSpans
    <2>3. (IF DeclaredAnchors(docs, id) = {} THEN {""} ELSE DeclaredAnchors(docs, id)) = {g.phenomena[id].anchor}
      BY <1>1, <2>1 DEF DeclaredAnchors
    <2> QED
      BY <2>2, <2>3
  <1>5. ASSUME NEW id \in ps
        PROVE  {AllChecks(docs, id)[i].on : i \in DOMAIN AllChecks(docs, id)} = {c.on : c \in g.phenomena[id].checks}
    <2> DEFINE F == AllChecks(docs, id)
               C == g.phenomena[id].checks
    <2>1. ASSUME NEW c PROVE c \in C <=> \E p \in DOMAIN F : c = F[p]
      <3>1. Listed(docs, id, c) <=> Posted(docs, n, id, c)
        BY AllChecksAre
      <3>2. c \in C <=> Posted(docs, n, id, c)
        BY DEF Took
      <3> HIDE DEF C
      <3>3. Listed(docs, id, c) <=> \E p \in DOMAIN F : c = F[p]
        BY DEF Listed
      <3> QED
        BY <3>1, <3>2, <3>3
    <2> HIDE DEF F, C
    <2>2. {F[i].on : i \in DOMAIN F} = {c.on : c \in C}
      BY <2>1
    <2> QED
      BY <2>2 DEF F, C
  <1>6. ASSUME NEW id \in ps PROVE CoherenceLints(docs, id) <=> Site(id)
    <2> DEFINE spans == IF DeclaredSpans(docs, id) = {} THEN {""} ELSE DeclaredSpans(docs, id)
               anchors == IF DeclaredAnchors(docs, id) = {} THEN {""} ELSE DeclaredAnchors(docs, id)
               places == {AllChecks(docs, id)[i].on : i \in DOMAIN AllChecks(docs, id)}
               held == {c.on : c \in g.phenomena[id].checks}
               x == g.phenomena[id].span
               y == g.phenomena[id].anchor
    <2>1. CoherenceLints(docs, id) <=> \A span \in spans : \A anchor \in anchors : CoherentSite(span, anchor, places)
      BY Zenon DEF CoherenceLints
    <2>2. spans = {x} /\ anchors = {y}
      BY <1>4
    <2>3. places = held
      BY <1>5
    <2>4. Site(id) <=> CoherentSite(x, y, held)
      OBVIOUS
    <2> HIDE DEF spans, anchors, places, held, x, y, Site
    <2> QED
      BY <2>1, <2>2, <2>3, <2>4
  <1>7. ASSUME NEW id \in ps, id \notin Named(docs) PROVE Site(id)
    <2>1. \A j \in 1..n : id \notin DOMAIN docs[j].spans /\ id \notin DOMAIN docs[j].anchors /\ id \notin DOMAIN docs[j].checks
      BY <1>2, <1>7
    <2>2. g.phenomena[id].span = "" /\ g.phenomena[id].anchor = "" /\ \A c : c \notin g.phenomena[id].checks
      BY <2>1 DEF Took, Posted
    <2>3. {c.on : c \in g.phenomena[id].checks} = {}
      BY <2>2
    <2> QED
      BY <2>2, <2>3 DEF CoherentSite, IsSpanned
  <1>8. Finalizes(g) <=> \A id \in ps : Site(id)
    BY DEF Finalizes
  <1> HIDE DEF Site, ps
  <1> QED
    BY <1>3, <1>6, <1>7, <1>8

\* A pin stands for a base and overlays of the tree.
LEMMA PinsAreAuthored ==
    ASSUME NEW b \in DOMAIN Bases, NEW m \in 0..Slots, NEW s \in [1..m -> DOMAIN Docs]
    PROVE  /\ ContentHash(b, s)[1] = b
           /\ Authored(DocsIn(ContentHash(b, s)))
  <1> DEFINE pin == ContentHash(b, s)
             docs == DocsIn(pin)
  <1>1. Slots \in Nat /\ m \in Nat
    BY GovernanceAssumption DEF GovernanceAssumption
  <1>2. /\ <<b>> \in Seq(DOMAIN Docs \cup {b}) /\ s \in Seq(DOMAIN Docs \cup {b})
        /\ Len(s) = m /\ pin = <<b>> \o s
    BY <1>1 DEF ContentHash
  <1>3. /\ pin \in Seq(DOMAIN Docs \cup {b}) /\ Len(pin) = 1 + m /\ pin[1] = b
        /\ \A k \in 1..m : pin[k + 1] = s[k]
    BY <1>1, <1>2
  <1>4. docs = [k \in 1..m |-> Docs[s[k]]]
    <2>1. Len(pin) - 1 = m
      BY <1>1, <1>3
    <2> QED
      BY <1>3, <2>1 DEF DocsIn
  <1>5. Len(docs) = m /\ DOMAIN docs = 1..m /\ (m = 0 => docs = <<>>)
    BY <1>1, <1>4
  <1>6. \A k \in 1..m : /\ docs[k].rules \in Seq(AuthoredRule)
                        /\ \A id \in DOMAIN docs[k].checks : docs[k].checks[id] \in Seq(AuthoredCheck)
    <2>1. \A k \in 1..m : docs[k] = Docs[s[k]] /\ s[k] \in DOMAIN Docs
      BY <1>4
    <2> HIDE DEF docs
    <2> QED
      BY <2>1, GovernanceAssumption DEF GovernanceAssumption
  <1> HIDE DEF docs
  <1>7. Authored(docs)
    BY <1>1, <1>5, <1>6 DEF Authored
  <1> QED
    BY <1>3, <1>7 DEF docs

\* Over a base that leaves the spans to them, lint passes the overlays that load and no others.
LEMMA LintsWhatLoads ==
    ASSUME NEW file, Parses(file), Unspanned(file), NEW docs, Authored(docs)
    PROVE  LintsClean(file, docs) <=> LoadWithOverlayPaths(file, docs).ok
  <1> DEFINE n == Len(docs)
             last == Merged(file, docs)[n]
             All == (\A k \in 1..n : Fits(file, docs[k])) /\ Together(docs, n)
             Coherent == \A id \in Named(docs) : CoherenceLints(docs, id)
  <1>1. LintsClean(file, docs) <=> All /\ Coherent
    BY LintIs
  <1>2. last.ok <=> All
    BY MergedWhenFits
  <1>3. last.ok => Took(file, docs, n, last.graph)
    BY MergedWhenFits
  <1>4. All /\ last.ok => (Finalizes(last.graph) <=> Coherent)
    BY <1>3, FinalizesIs
  <1>5. ~NotLoaded.ok /\ \A g : Loaded(g).ok
    BY DEF NotLoaded, Loaded
  <1>6. docs = <<>> => All /\ Coherent
    <2> SUFFICES ASSUME docs = <<>> PROVE All /\ Coherent
      OBVIOUS
    <2>1. n = 0 /\ \A k : k \notin 1..n
      OBVIOUS
    <2>2. Named(docs) = {}
      BY DEF Named
    <2> HIDE DEF n
    <2> QED
      BY <2>1, <2>2 DEF Together, SpansAgree, AnchorsAgree, RulesApart
  <1>7. LoadWithOverlayPaths(file, docs) =
            IF docs = <<>> THEN Loaded(Parse(file))
            ELSE IF last.ok /\ Finalizes(last.graph) THEN last ELSE NotLoaded
    BY DEF LoadWithOverlayPaths
  <1> HIDE DEF last, All, Coherent, n
  <1> QED
    BY <1>1, <1>2, <1>4, <1>5, <1>6, <1>7

\* The overlays of a tree are overlays there are.
LEMMA OrderIsKnown ==
    ASSUME NEW f \in [1..Slots -> DOMAIN Docs \cup {Absent}]
    PROVE  \E m \in 0..Slots : InOrder(f, 1..Slots) \in [1..m -> DOMAIN Docs]
  <1> DEFINE names == 1..Slots
             S == {i \in names : f[i] # Absent}
             s == [k \in 1..Cardinality(S) |-> f[Nth(S, k)]]
  <1>1. Slots \in Nat /\ names \subseteq 1..Slots
    BY GovernanceAssumption DEF GovernanceAssumption
  <1>2. Cardinality(S) \in 0..Slots /\ \A k \in 1..Cardinality(S) : Nth(S, k) \in S
    BY <1>1, NthIsOne
  <1>3. \A i \in S : f[i] \in DOMAIN Docs
    OBVIOUS
  <1>4. s \in [1..Cardinality(S) -> DOMAIN Docs]
    BY <1>2, <1>3
  <1>5. InOrder(f, names) = s
    BY DEF InOrder
  <1> HIDE DEF S, s
  <1> QED
    BY <1>2, <1>4, <1>5

\* The linter (lint.go) and the loader (overlay.go) state the same rules twice, the one
\* over the documents and the other over the graph it grows: whatever the base, the
\* overlays of the tree and their order, lint passes exactly those that load.
THEOREM LintAgreesWithLoader == Spec => []LintMirrorsLoader
  <1>1. TreeInv => LintMirrorsLoader
    <2> SUFFICES ASSUME TreeInv, NEW dir \in Dirs,
                        Parses(Bases[tree[dir].base]), Unspanned(Bases[tree[dir].base])
                 PROVE  LintsClean(Bases[tree[dir].base], DocsIn(TreePin(tree[dir])))
                            <=> LoadedAs[TreePin(tree[dir])].ok
      BY DEF LintMirrorsLoader, Unspanned
    <2> DEFINE b == tree[dir].base
               files == tree[dir].files
               s == InOrder(files, 1..Slots)
               pin == ContentHash(b, s)
               docs == DocsIn(pin)
    <2>1. b \in DOMAIN Bases /\ files \in [1..Slots -> DOMAIN Docs \cup {Absent}]
      BY DEF TreeInv
    <2>2. TreePin(tree[dir]) = pin
      BY DEF TreePin
    <2>3. pin \in Pins
      BY <2>2, TreePinIsKnown, GovernanceAssumption DEF GovernanceAssumption
    <2> HIDE DEF files
    <2>4. PICK m \in 0..Slots : s \in [1..m -> DOMAIN Docs]
      BY <2>1, OrderIsKnown
    <2> HIDE DEF s, b
    <2>5. pin[1] = b /\ Authored(docs)
      BY <2>1, <2>4, PinsAreAuthored
    <2> HIDE DEF pin
    <2>6. LoadedAs[pin] = LoadWithOverlayPaths(Bases[b], docs)
      BY <2>3, <2>5 DEF LoadedAs
    <2>7. LintsClean(Bases[b], docs) <=> LoadWithOverlayPaths(Bases[b], docs).ok
      BY <2>5, LintsWhatLoads DEF b
    <2> QED
      BY <2>2, <2>6, <2>7 DEF b
  <1> QED
    BY <1>1, ReleasesAreConsistent, PTL

=============================================================================
