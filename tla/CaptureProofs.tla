---------------------------- MODULE CaptureProofs ----------------------------
(***************************************************************************)
(* Proofs about the warm tier and the capture of a run, for any streams,   *)
(* widths of a window, retention, capacity of the rings and bounds.        *)
(*                                                                         *)
(* First the frames of one segment file, then what each operation of the   *)
(* store makes of the directory and of the log it holds, then the two      *)
(* loops around it, and last what a replay of that log makes of it.        *)
(***************************************************************************)
EXTENDS Capture, SequenceTheorems, FiniteSetTheorems, NaturalsInduction, WellFoundedInduction, TLAPS

-----------------------------------------------------------------------------
(* Numbers.                                                                *)

LEMMA Multiple == ASSUME NEW d \in Nat \ {0}, NEW q \in Int PROVE (d * q) % d = 0
  BY SMTT(20)

LEMMA NextMultiple ==
    ASSUME NEW d \in Nat \ {0}, NEW p \in Int, NEW q \in Int, d * p < d * q
    PROVE  d * p + d <= d * q
  <1>1. p < q
    BY SMTT(20)
  <1>2. p + 1 <= q
    BY <1>1
  <1>3. d * (p + 1) <= d * q
    BY <1>2, SMTT(20)
  <1>4. d * (p + 1) = d * p + d
    BY SMTT(20)
  <1> QED
    BY <1>3, <1>4

\* A window begins at a multiple of the width, and the next one no earlier than it ends.
LEMMA WindowIs ==
    ASSUME NEW recv \in Nat
    PROVE  /\ WindowStart(recv) \in Nat /\ WindowStart(recv) <= recv
           /\ WindowStart(recv) % SegmentDuration = 0
           /\ recv < WindowStart(recv) + SegmentDuration
           /\ \A s \in Nat : s % SegmentDuration = 0 /\ recv - s >= SegmentDuration
                                => s + SegmentDuration <= WindowStart(recv)
  <1> DEFINE d == SegmentDuration
             q == recv \div d
  <1>1. d \in Nat \ {0}
    BY WarmAssumption DEF WarmAssumption
  <1> HIDE DEF d
  <1>2. recv = d * q + (recv % d) /\ q \in Int /\ recv % d \in 0 .. (d - 1)
    BY <1>1, SMTT(20)
  <1>3. recv % d <= recv
    BY <1>1, SMTT(20)
  <1> HIDE DEF q
  <1>4. recv - (recv % d) = d * q
    BY <1>1, <1>2
  <1>5. (d * q) % d = 0
    BY <1>1, <1>2, Multiple
  <1>6. ASSUME NEW s \in Nat, s % d = 0, recv - s >= d PROVE s + d <= recv - (recv % d)
    <2> DEFINE p == s \div d
    <2>1. s = d * p + (s % d) /\ p \in Int
      BY <1>1, SMTT(20)
    <2> HIDE DEF p
    <2> DEFINE dq == d * q
               dp == d * p
    <2>2. dq \in Int /\ dp \in Int
      BY <1>1, <1>2, <2>1
    <2>3. dp < dq => dp + d <= dq
      BY <1>1, <1>2, <2>1, NextMultiple
    <2>4. recv = dq + (recv % d)
      BY <1>2
    <2>5. s % d = 0 /\ dp + 0 = dp
      BY <1>6, <2>2
    <2>6. s = dp
      BY <2>1, <2>5
    <2> HIDE DEF dq, dp
    <2> QED
      BY <1>1, <1>2, <1>6, <2>2, <2>3, <2>4, <2>6
  <1>7. WindowStart(recv) = recv - (recv % d)
    BY DEF WindowStart, d
  <1> QED
    BY <1>1, <1>2, <1>3, <1>4, <1>5, <1>6, <1>7 DEF d

\* A bounded, inhabited set of numbers has a greatest one.
Below == {p \in Nat \X Nat : p[1] < p[2]}

LEMMA BelowIs == IsWellFoundedOn(Below, Nat) /\ \A x, y \in Nat : <<x, y>> \in Below <=> x < y
  <1>1. \A x, y \in Nat : <<x, y>> \in Below <=> x < y
    BY DEF Below
  <1>2. IsWellFoundedOn(Below, Nat)
    BY NatLessThanWellFounded DEF OpToRel, Below
  <1> QED
    BY <1>1, <1>2

\* Induction over the naturals, told of a set.
LEMMA NatInductive ==
    ASSUME NEW S, 0 \in S, \A n \in Nat : n \in S => n + 1 \in S
    PROVE  Nat \subseteq S
  <1> DEFINE T == Nat \ S
  <1>1. SUFFICES ASSUME T # {} PROVE FALSE
    OBVIOUS
  <1>2. IsWellFoundedOn(Below, Nat) /\ T \subseteq Nat
    BY BelowIs
  <1>3. PICK x \in T : \A y \in T : <<y, x>> \notin Below
    BY <1>1, <1>2, WFMin
  <1>4. x \in Nat /\ x # 0
    OBVIOUS
  <1>5. x - 1 \in Nat /\ x - 1 < x /\ (x - 1) + 1 = x
    BY <1>4
  <1>6. x - 1 \in S
    BY <1>3, <1>5, BelowIs
  <1> QED
    BY <1>4, <1>5, <1>6

LEMMA MaxOfIs ==
    ASSUME NEW S \in SUBSET Nat, S # {}, NEW m \in Nat, \A x \in S : x <= m
    PROVE  MaxOf(S) \in S /\ \A x \in S : x <= MaxOf(S)
  <1> DEFINE T == {m - x : x \in S}
  <1>1. \A x \in S : m - x \in Nat
    OBVIOUS
  <1>2. T \subseteq Nat /\ T # {} /\ IsWellFoundedOn(Below, Nat)
    BY <1>1, BelowIs
  <1>3. PICK z \in T : \A y \in T : <<y, z>> \notin Below
    BY <1>2, WFMin
  <1>4. PICK x \in S : z = m - x
    BY <1>3
  <1>5. \A y \in S : y <= x
    <2> SUFFICES ASSUME NEW y \in S PROVE y <= x
      OBVIOUS
    <2>1. m - y \in T /\ m - y \in Nat /\ m - x \in Nat
      OBVIOUS
    <2>2. ~(m - y < m - x)
      BY <1>3, <1>4, <2>1, BelowIs
    <2> QED
      BY <2>2
  <1> QED
    BY <1>5 DEF MaxOf

LEMMA MaxOfPair ==
    ASSUME NEW a \in Nat, NEW b \in Nat
    PROVE  MaxOf({a, b}) = IF a < b THEN b ELSE a
  <1>1. MaxOf({a, b}) \in {a, b} /\ \A x \in {a, b} : x <= MaxOf({a, b})
    <2>1. \A x \in {a, b} : x <= a + b
      OBVIOUS
    <2> QED
      BY <2>1, MaxOfIs
  <1> QED
    BY <1>1

LEMMA NewestIs == ASSUME NEW n \in Nat PROVE MaxOf({0} \cup 1 .. n) = n
  <1>1. MaxOf({0} \cup 1 .. n) \in {0} \cup 1 .. n /\ \A x \in {0} \cup 1 .. n : x <= MaxOf({0} \cup 1 .. n)
    <2>1. \A x \in {0} \cup 1 .. n : x <= n
      OBVIOUS
    <2> QED
      BY <2>1, MaxOfIs
  <1>2. n \in {0} \cup 1 .. n
    OBVIOUS
  <1> QED
    BY <1>1, <1>2

-----------------------------------------------------------------------------
(* The frames of a file.                                                   *)

Time == 0 .. MaxTime
Rings == {rs \in [Stream -> Seq(Time)] : \A s \in Stream : Len(rs[s]) <= HotCapacity}
Digest == [rings : Rings, bars : Bars \cup {None}, memory : Nat]
Record == [epoch : Nat, digest : Digest]

RunFrame == [kind : {"run"}, recv : Time]
DefFrame == [kind : {"def"}, stream : Stream]
Sample   == [kind : {"sample"}, stream : Stream, recv : Time, value : Time]
Ticked   == [kind : {"tick"}, recv : Time, record : Record]

Frame == RunFrame \cup DefFrame \cup Sample \cup Ticked

LEMMA FrameIs ==
    ASSUME NEW f \in Frame
    PROVE  /\ f.kind \in {"run", "def", "sample", "tick"}
           /\ f.kind # "def" => f.recv \in Time
           /\ f.kind = "run" => f \in RunFrame
           /\ f.kind = "def" => f \in DefFrame
           /\ f.kind = "sample" => f \in Sample
           /\ f.kind = "tick" => f \in Ticked
  BY DEF Frame, RunFrame, DefFrame, Sample, Ticked

LEMMA FramesMade ==
    ASSUME NEW s \in Stream, NEW t \in Time, NEW v \in Time, NEW rec \in Record
    PROVE  /\ RunStart(t) \in Frame /\ RunStart(t).kind = "run" /\ RunStart(t).recv = t
           /\ Def(s) \in Frame /\ Def(s).kind = "def" /\ Def(s).stream = s
           /\ SampleFrame(s, t, v) \in Frame /\ SampleFrame(s, t, v).kind = "sample"
           /\ SampleFrame(s, t, v).stream = s /\ SampleFrame(s, t, v).recv = t /\ SampleFrame(s, t, v).value = v
           /\ TickFrame(t, rec) \in Frame /\ TickFrame(t, rec).kind = "tick"
           /\ TickFrame(t, rec).recv = t /\ TickFrame(t, rec).record = rec
  <1>1. RunStart(t) \in RunFrame /\ Def(s) \in DefFrame /\ SampleFrame(s, t, v) \in Sample /\ TickFrame(t, rec) \in Ticked
    BY DEF RunStart, Def, SampleFrame, TickFrame, RunFrame, DefFrame, Sample, Ticked
  <1> QED
    BY <1>1 DEF Frame, RunStart, Def, SampleFrame, TickFrame

LEMMA TimeIs == Time \subseteq Nat /\ 0 \in Time /\ MaxTime \in Nat /\ \A t \in Time : t <= MaxTime
  BY CaptureAssumption DEF CaptureAssumption, Time

LEMMA NewestRecvIs ==
    ASSUME NEW q \in Seq(Frame)
    PROVE  /\ NewestRecv(q) \in Time
           /\ \A i \in 1 .. Len(q) : q[i].kind # "def" => q[i].recv <= NewestRecv(q)
           /\ \A m \in Nat : (\A i \in 1 .. Len(q) : q[i].kind # "def" => q[i].recv <= m) => NewestRecv(q) <= m
  <1> DEFINE S == {0} \cup {q[i].recv : i \in {j \in DOMAIN q : q[j].kind # "def"}}
  <1>1. DOMAIN q = 1 .. Len(q) /\ \A i \in DOMAIN q : q[i] \in Frame
    BY ElementOfSeq, LenProperties
  <1>2. S \subseteq Time /\ S # {}
    BY <1>1, FrameIs, TimeIs
  <1>3. S \in SUBSET Nat /\ MaxTime \in Nat /\ \A x \in S : x <= MaxTime
    BY <1>2, TimeIs
  <1>4. NewestRecv(q) = MaxOf(S)
    BY DEF NewestRecv
  <1>5. \A i \in 1 .. Len(q) : q[i].kind # "def" => q[i].recv \in S
    BY <1>1
  <1>6. \A x \in S : x = 0 \/ \E i \in 1 .. Len(q) : q[i].kind # "def" /\ x = q[i].recv
    BY <1>1
  <1> HIDE DEF S
  <1>7. MaxOf(S) \in S /\ \A x \in S : x <= MaxOf(S)
    BY <1>2, <1>3, MaxOfIs
  <1> QED
    <2>1. NewestRecv(q) \in Time
      BY <1>2, <1>4, <1>7
    <2>2. \A i \in 1 .. Len(q) : q[i].kind # "def" => q[i].recv <= NewestRecv(q)
      BY <1>4, <1>5, <1>7
    <2>3. ASSUME NEW m \in Nat, \A i \in 1 .. Len(q) : q[i].kind # "def" => q[i].recv <= m
          PROVE  NewestRecv(q) <= m
      <3>1. NewestRecv(q) = 0 \/ \E i \in 1 .. Len(q) : q[i].kind # "def" /\ NewestRecv(q) = q[i].recv
        BY <1>4, <1>6, <1>7
      <3> QED
        BY <2>3, <3>1
    <2> QED
      BY <2>1, <2>2, <2>3

\* The streams a run of frames defines.
Defs(q) == {s \in Stream : \E j \in 1 .. Len(q) : q[j].kind = "def" /\ q[j].stream = s}

LEMMA AppendFrame ==
    ASSUME NEW q \in Seq(Frame), Defined(q), NEW f \in Frame,
           f.kind = "sample" => f.stream \in Defs(q)
    PROVE  /\ Append(q, f) \in Seq(Frame) /\ Defined(Append(q, f))
           /\ Defs(q) \subseteq Defs(Append(q, f))
           /\ f.kind = "def" => f.stream \in Defs(Append(q, f))
  <1> DEFINE r == Append(q, f)
  <1>1. /\ r \in Seq(Frame) /\ Len(r) = Len(q) + 1 /\ Len(q) \in Nat
        /\ \A i \in 1 .. Len(q) : r[i] = q[i]
        /\ r[Len(q) + 1] = f
    BY AppendProperties, LenProperties
  <1>2. DOMAIN q = 1 .. Len(q) /\ DOMAIN r = 1 .. Len(r)
    BY <1>1, LenProperties
  <1>3. f.kind = "def" => f.stream \in Stream
    BY FrameIs DEF DefFrame
  <1> HIDE DEF r
  <1>4. Defs(q) \subseteq Defs(r)
    BY <1>1 DEF Defs
  <1>5. Defined(r)
    <2> SUFFICES ASSUME NEW i \in 1 .. Len(r), r[i].kind = "sample"
                 PROVE  \E j \in 1 .. (i - 1) : r[j].kind = "def" /\ r[j].stream = r[i].stream
      BY <1>2 DEF Defined
    <2>1. CASE i \in 1 .. Len(q)
      <3>1. PICK j \in 1 .. (i - 1) : q[j].kind = "def" /\ q[j].stream = q[i].stream
        BY <1>1, <1>2, <2>1 DEF Defined
      <3> QED
        BY <1>1, <2>1, <3>1
    <2>2. CASE i = Len(q) + 1
      <3>1. f.stream \in Defs(q) /\ r[i] = f
        BY <1>1, <2>2
      <3>2. PICK j \in 1 .. Len(q) : q[j].kind = "def" /\ q[j].stream = f.stream
        BY <3>1 DEF Defs
      <3> QED
        BY <1>1, <2>2, <3>1, <3>2
    <2> QED
      BY <1>1, <2>1, <2>2
  <1>6. f.kind = "def" => f.stream \in Defs(r)
    BY <1>1, <1>3 DEF Defs
  <1> QED
    BY <1>1, <1>4, <1>5, <1>6 DEF r

LEMMA DefinedPrefix ==
    ASSUME NEW q \in Seq(Frame), Defined(q), NEW n \in 0 .. Len(q)
    PROVE  /\ SubSeq(q, 1, n) \in Seq(Frame) /\ Len(SubSeq(q, 1, n)) = n /\ Defined(SubSeq(q, 1, n))
           /\ \A i \in 1 .. n : SubSeq(q, 1, n)[i] = q[i]
  <1> DEFINE r == SubSeq(q, 1, n)
  <1>1. Len(q) \in Nat /\ DOMAIN q = 1 .. Len(q)
    BY LenProperties
  <1>2. r \in Seq(Frame) /\ Len(r) = n /\ \A i \in 1 .. n : r[i] = q[i]
    <2>1. CASE n = 0
      <3>1. r = << >>
        BY <2>1, SubSeqEmpty
      <3> QED
        BY <2>1, <3>1, EmptySeq
    <2>2. CASE n \in 1 .. Len(q)
      BY <1>1, <2>2, SubSeqProperties
    <2> QED
      BY <1>1, <2>1, <2>2
  <1>3. DOMAIN r = 1 .. n
    BY <1>2, LenProperties
  <1> HIDE DEF r
  <1>4. Defined(r)
    <2> SUFFICES ASSUME NEW i \in 1 .. n, r[i].kind = "sample"
                 PROVE  \E j \in 1 .. (i - 1) : r[j].kind = "def" /\ r[j].stream = r[i].stream
      BY <1>3 DEF Defined
    <2>1. PICK j \in 1 .. (i - 1) : q[j].kind = "def" /\ q[j].stream = q[i].stream
      BY <1>1, <1>2 DEF Defined
    <2> QED
      BY <1>1, <1>2, <2>1
  <1> QED
    BY <1>2, <1>4 DEF r

LEMMA DefinedEmpty == << >> \in Seq(Frame) /\ Defined(<< >>) /\ Len(<< >>) = 0
  <1>1. << >> \in Seq(Frame) /\ Len(<< >>) = 0 /\ DOMAIN << >> = {}
    BY EmptySeq
  <1> QED
    BY <1>1 DEF Defined

\* What is written ends with a frame, which a definition may precede.
LEMMA WrittenIs ==
    ASSUME NEW q \in Seq(Frame), NEW f \in Frame, NEW g \in Frame
    PROVE  /\ q \o <<f>> = Append(q, f)
           /\ q \o (<< >> \o <<f>>) = Append(q, f)
           /\ q \o (<<g>> \o <<f>>) = Append(Append(q, g), f)
  <1>1. <<f>> \in Seq(Frame) /\ <<g>> \in Seq(Frame) /\ << >> \in Seq(Frame)
    OBVIOUS
  <1>2. << >> \o <<f>> = <<f>>
    BY <1>1, ConcatEmptySeq
  <1>3. q \o <<f>> = Append(q, f) /\ q \o <<g>> = Append(q, g)
    BY AppendIsConcat
  <1>4. Append(q, g) \in Seq(Frame)
    BY AppendProperties
  <1>5. Append(q, g) \o <<f>> = Append(Append(q, g), f)
    BY <1>4, AppendIsConcat
  <1>6. q \o (<<g>> \o <<f>>) = (q \o <<g>>) \o <<f>>
    BY <1>1, ConcatAssociative
  <1> QED
    BY <1>2, <1>3, <1>5, <1>6

-----------------------------------------------------------------------------
(* The store, and what each of its operations makes of the files.          *)

Files(K) == UNION {[D -> Seq(Frame)] : D \in SUBSET K}

Shaped(st) ==
    st = [sealed |-> st.sealed, active |-> st.active, synced |-> st.synced, seg |-> st.seg,
          lastRecv |-> st.lastRecv, idx |-> st.idx, runStartPending |-> st.runStartPending,
          closed |-> st.closed, err |-> st.err, linked |-> st.linked]

Name == Nat \X Nat
NameOK(n) == /\ n \in Name
             /\ n[1] % SegmentDuration = 0 /\ n[1] <= n[2] /\ n[2] <= MaxTime

\* At most one file is open or left over; what is synced of it is a prefix; the index of
\* the writer names streams the file defines.
FilesOK(st) ==
    /\ Shaped(st)
    /\ st.sealed \in Files(Name) /\ st.active \in Files(Time)
    /\ st.seg = None \/ st.seg \in Time
    /\ \E s : DOMAIN st.active \subseteq {s}
    /\ st.seg # None => st.seg \in DOMAIN st.active
    /\ \A s \in DOMAIN st.active : /\ s % SegmentDuration = 0 /\ st.synced \in 0 .. Len(st.active[s])
                                   /\ Defined(st.active[s])
    /\ DOMAIN st.active = {} => st.synced = 0
    /\ \A n \in DOMAIN st.sealed : NameOK(n) /\ Defined(st.sealed[n])
    /\ st.idx \subseteq Stream /\ st.lastRecv \in Time
    /\ st.seg # None => st.idx \subseteq Defs(st.active[st.seg])

\* While the process is up, the only file that is not sealed is the open one.
Writing(st) == FilesOK(st) /\ (st.seg = None => DOMAIN st.active = {})

LEMMA FilesAre ==
    ASSUME NEW K, NEW f \in Files(K)
    PROVE  DOMAIN f \subseteq K /\ f = [k \in DOMAIN f |-> f[k]] /\ \A k \in DOMAIN f : f[k] \in Seq(Frame)
  BY DEF Files

LEMMA AreFiles ==
    ASSUME NEW K, NEW f, f = [k \in DOMAIN f |-> f[k]], DOMAIN f \subseteq K, \A k \in DOMAIN f : f[k] \in Seq(Frame)
    PROVE  f \in Files(K)
  <1>1. f \in [DOMAIN f -> Seq(Frame)]
    OBVIOUS
  <1> QED
    BY <1>1 DEF Files

LEMMA WithIs ==
    ASSUME NEW K, NEW f \in Files(K), NEW k \in K, NEW v \in Seq(Frame)
    PROVE  /\ With(f, k, v) \in Files(K)
           /\ \A x : x \in DOMAIN With(f, k, v) <=> x \in DOMAIN f \/ x = k
           /\ With(f, k, v)[k] = v
           /\ \A x \in DOMAIN f : x # k => With(f, k, v)[x] = f[x]
  <1> DEFINE g == With(f, k, v)
  <1>1. DOMAIN f \subseteq K /\ \A x \in DOMAIN f : f[x] \in Seq(Frame)
    BY FilesAre
  <1>2. /\ DOMAIN g = DOMAIN f \cup {k} /\ g = [x \in DOMAIN g |-> g[x]]
        /\ \A x \in DOMAIN g : g[x] = IF x = k THEN v ELSE f[x]
    BY DEF With
  <1> HIDE DEF g
  <1>3. DOMAIN g \subseteq K /\ \A x \in DOMAIN g : g[x] \in Seq(Frame)
    BY <1>1, <1>2
  <1>4. g \in Files(K)
    BY <1>2, <1>3, AreFiles
  <1> QED
    BY <1>2, <1>4 DEF g

LEMMA WithoutIs ==
    ASSUME NEW K, NEW f \in Files(K), NEW D
    PROVE  /\ Without(f, D) \in Files(K)
           /\ \A x : x \in DOMAIN Without(f, D) <=> x \in DOMAIN f /\ x \notin D
           /\ \A x \in DOMAIN f \ D : Without(f, D)[x] = f[x]
  <1> DEFINE g == Without(f, D)
  <1>1. DOMAIN f \subseteq K /\ \A x \in DOMAIN f : f[x] \in Seq(Frame)
    BY FilesAre
  <1>2. /\ DOMAIN g = DOMAIN f \ D /\ g = [x \in DOMAIN g |-> g[x]]
        /\ \A x \in DOMAIN g : g[x] = f[x]
    BY DEF Without
  <1> HIDE DEF g
  <1>3. DOMAIN g \subseteq K /\ \A x \in DOMAIN g : g[x] \in Seq(Frame)
    BY <1>1, <1>2
  <1>4. g \in Files(K)
    BY <1>2, <1>3, AreFiles
  <1> QED
    BY <1>2, <1>4 DEF g

LEMMA NoneIsNoTime == None \notin Nat /\ None \notin Time
  BY WarmAssumption, TimeIs DEF WarmAssumption

LEMMA OpenFile ==
    ASSUME NEW st, FilesOK(st), st.seg # None
    PROVE  /\ st.seg \in Time /\ DOMAIN st.active = {st.seg} /\ st.active[st.seg] \in Seq(Frame)
           /\ Len(st.active[st.seg]) \in Nat /\ st.synced \in 0 .. Len(st.active[st.seg])
           /\ Defined(st.active[st.seg]) /\ st.idx \subseteq Defs(st.active[st.seg])
           /\ st.seg % SegmentDuration = 0
  <1>1. DOMAIN st.active = {st.seg} /\ st.seg \in Time
    BY DEF FilesOK
  <1>2. st.active[st.seg] \in Seq(Frame)
    BY <1>1, FilesAre DEF FilesOK
  <1> QED
    BY <1>1, <1>2, LenProperties DEF FilesOK

\* A seal that goes through, and what it keeps.
Sealing(st) == st.seg # None /\ ~ st.err /\ OpenName(st) \notin DOMAIN st.sealed

Grown(st) == With(st.sealed, OpenName(st), st.active[st.seg])
Expired(st) == IF Retention = 0 THEN {} ELSE {n \in DOMAIN Grown(st) : n[2] < OpenName(st)[2] - Retention}

LEMMA OpenNameIs ==
    ASSUME NEW st, FilesOK(st), st.seg # None
    PROVE  /\ OpenName(st)[1] = st.seg /\ OpenName(st)[2] = IF st.seg < st.lastRecv THEN st.lastRecv ELSE st.seg
           /\ NameOK(OpenName(st))
  <1>1. st.seg \in Nat /\ st.lastRecv \in Nat /\ st.seg <= MaxTime /\ st.lastRecv <= MaxTime /\ st.seg % SegmentDuration = 0
    BY OpenFile, TimeIs DEF FilesOK
  <1>2. OpenName(st) = <<st.seg, IF st.seg < st.lastRecv THEN st.lastRecv ELSE st.seg>>
    BY <1>1, MaxOfPair DEF OpenName, SealedName
  <1> QED
    BY <1>1, <1>2 DEF NameOK, Name

LEMMA SealIs ==
    ASSUME NEW st, Shaped(st)
    PROVE  /\ Shaped(SealLocked(st))
           /\ SealLocked(st).lastRecv = st.lastRecv /\ SealLocked(st).idx = st.idx
           /\ SealLocked(st).runStartPending = st.runStartPending /\ SealLocked(st).closed = st.closed
           /\ SealLocked(st).linked = st.linked
           /\ Sealing(st) => /\ SealLocked(st).seg = None /\ SealLocked(st).synced = 0 /\ SealLocked(st).err = st.err
                             /\ SealLocked(st).active = Without(st.active, {st.seg})
                             /\ SealLocked(st).sealed = Without(Grown(st), Expired(st))
           /\ ~ Sealing(st) => /\ SealLocked(st).seg = st.seg /\ SealLocked(st).active = st.active
                               /\ SealLocked(st).sealed = st.sealed
                               /\ \/ SealLocked(st) = st /\ (st.seg = None \/ st.err)
                                  \/ st.seg # None /\ SealLocked(st).err = TRUE
                                     /\ SealLocked(st).synced = Len(st.active[st.seg])
  <1>1. CASE st.seg = None \/ st.err
    BY <1>1 DEF SealLocked, Sealing
  <1>2. CASE ~(st.seg = None \/ st.err) /\ OpenName(st) \in DOMAIN st.sealed
    <2>1. SealLocked(st) = [st EXCEPT !.err = TRUE, !.synced = Len(st.active[st.seg])]
      BY <1>2 DEF SealLocked
    <2>2. ~ Sealing(st)
      BY <1>2 DEF Sealing
    <2> QED
      BY <1>2, <2>1, <2>2 DEF Shaped
  <1>3. CASE ~(st.seg = None \/ st.err) /\ OpenName(st) \notin DOMAIN st.sealed
    <2>1. Outlived([st EXCEPT !.sealed = Grown(st)], OpenName(st)[2]) = Expired(st)
      BY DEF Outlived, Expired, Shaped
    <2>2. SealLocked(st) = [st EXCEPT !.sealed = Without(Grown(st), Expired(st)),
                                      !.active = Without(st.active, {st.seg}),
                                      !.synced = 0, !.seg = None]
      BY <1>3, <2>1 DEF SealLocked, Grown
    <2>3. Sealing(st)
      BY <1>3 DEF Sealing
    <2> QED
      BY <2>2, <2>3 DEF Shaped
  <1> QED
    BY <1>1, <1>2, <1>3

LEMMA SealKeeps ==
    ASSUME NEW st, Writing(st)
    PROVE  Writing(SealLocked(st))
  <1> DEFINE r == SealLocked(st)
  <1>1. FilesOK(st) /\ Shaped(st) /\ (st.seg = None => DOMAIN st.active = {})
    BY DEF Writing, FilesOK
  <1>2. CASE Sealing(st)
    <2> DEFINE all == Grown(st)
               name == OpenName(st)
    <2>1. /\ Shaped(r) /\ r.lastRecv = st.lastRecv /\ r.idx = st.idx /\ r.seg = None /\ r.synced = 0
          /\ r.active = Without(st.active, {st.seg}) /\ r.sealed = Without(all, Expired(st))
      BY <1>1, <1>2, SealIs
    <2>2. st.seg # None /\ name \notin DOMAIN st.sealed
      BY <1>2 DEF Sealing
    <2>3. DOMAIN st.active = {st.seg} /\ st.active[st.seg] \in Seq(Frame) /\ Defined(st.active[st.seg])
      BY <1>1, <2>2, OpenFile
    <2>4. NameOK(name) /\ name \in Name
      BY <1>1, <2>2, OpenNameIs DEF NameOK
    <2>5. st.sealed \in Files(Name) /\ st.active \in Files(Time)
      BY <1>1 DEF FilesOK
    <2>6. /\ all \in Files(Name) /\ \A n : n \in DOMAIN all <=> n \in DOMAIN st.sealed \/ n = name
          /\ all[name] = st.active[st.seg]
          /\ \A n \in DOMAIN st.sealed : n # name => all[n] = st.sealed[n]
      BY <2>3, <2>4, <2>5, WithIs DEF Grown
    <2>7. /\ r.sealed \in Files(Name)
          /\ \A n \in DOMAIN r.sealed : n \in DOMAIN all /\ r.sealed[n] = all[n]
      BY <2>1, <2>6, WithoutIs
    <2>8. r.active \in Files(Time) /\ DOMAIN r.active = {}
      BY <2>1, <2>3, <2>5, WithoutIs
    <2> HIDE DEF r, all, name
    <2>9. \A n \in DOMAIN r.sealed : NameOK(n) /\ Defined(r.sealed[n])
      BY <1>1, <2>3, <2>4, <2>6, <2>7 DEF FilesOK
    <2>10. r.idx \subseteq Stream /\ r.lastRecv \in Time /\ \E s : DOMAIN r.active \subseteq {s}
      BY <1>1, <2>1, <2>8 DEF FilesOK
    <2>11. Writing(r)
      BY <2>1, <2>7, <2>8, <2>9, <2>10 DEF Writing, FilesOK
    <2> QED
      BY <2>11 DEF r
  <1>3. CASE ~ Sealing(st)
    <2>1. /\ Shaped(r) /\ r.lastRecv = st.lastRecv /\ r.idx = st.idx
          /\ r.seg = st.seg /\ r.active = st.active /\ r.sealed = st.sealed
          /\ \/ r = st
             \/ st.seg # None /\ r.synced = Len(st.active[st.seg])
      BY <1>1, <1>3, SealIs
    <2> HIDE DEF r
    <2>2. CASE st.seg # None /\ r.synced = Len(st.active[st.seg])
      <3>1. DOMAIN st.active = {st.seg} /\ Len(st.active[st.seg]) \in Nat
        BY <1>1, <2>2, OpenFile
      <3>2. \A s \in DOMAIN r.active : r.synced \in 0 .. Len(r.active[s])
        BY <2>1, <2>2, <3>1
      <3>3. DOMAIN r.active # {} /\ r.seg # None /\ \E s : DOMAIN r.active \subseteq {s}
        BY <2>1, <2>2, <3>1
      <3>4. \A s \in DOMAIN r.active : /\ s % SegmentDuration = 0 /\ r.synced \in 0 .. Len(r.active[s])
                                       /\ Defined(r.active[s])
        BY <1>1, <2>1, <3>2 DEF FilesOK
      <3>5. Writing(r)
        BY <1>1, <2>1, <3>3, <3>4 DEF Writing, FilesOK
      <3> QED
        BY <3>5 DEF r
    <2>3. CASE r = st
      BY <2>3 DEF r
    <2> QED
      BY <2>1, <2>2, <2>3
  <1> QED
    BY <1>2, <1>3

\* A new file: with the boundary of the run when it is the first of the process.
Heading(st, recv) == IF st.runStartPending THEN <<RunStart(recv)>> ELSE <<>>

LEMMA HeadingIs ==
    ASSUME NEW st, NEW recv \in Time
    PROVE  /\ Heading(st, recv) \in Seq(Frame) /\ Defined(Heading(st, recv))
           /\ Heading(st, recv) = IF st.runStartPending THEN Append(<< >>, RunStart(recv)) ELSE << >>
  <1>1. << >> \in Seq(Frame) /\ Defined(<< >>)
    BY DefinedEmpty
  <1>2. RunStart(recv) \in Frame /\ RunStart(recv).kind = "run"
    <2>1. RunStart(recv) \in RunFrame /\ RunStart(recv).kind = "run"
      BY DEF RunStart, RunFrame
    <2> QED
      BY <2>1 DEF Frame
  <1>3. Append(<< >>, RunStart(recv)) = <<RunStart(recv)>>
    OBVIOUS
  <1>4. Append(<< >>, RunStart(recv)) \in Seq(Frame) /\ Defined(Append(<< >>, RunStart(recv)))
    BY <1>1, <1>2, AppendFrame
  <1> QED
    BY <1>1, <1>3, <1>4 DEF Heading

LEMMA OpenIs ==
    ASSUME NEW st, Writing(st), st.seg = None, NEW recv \in Time
    PROVE  /\ Writing(OpenSegment(st, recv))
           /\ OpenSegment(st, recv).seg = WindowStart(recv) /\ OpenSegment(st, recv).seg # None
           /\ OpenSegment(st, recv).active[WindowStart(recv)] = Heading(st, recv)
           /\ OpenSegment(st, recv).sealed = st.sealed /\ OpenSegment(st, recv).lastRecv = recv
           /\ OpenSegment(st, recv).synced = 0 /\ OpenSegment(st, recv).idx = {}
           /\ OpenSegment(st, recv).err = st.err /\ OpenSegment(st, recv).closed = st.closed
           /\ OpenSegment(st, recv).linked = st.linked /\ OpenSegment(st, recv).runStartPending = FALSE
  <1> DEFINE r == OpenSegment(st, recv)
             w == WindowStart(recv)
             h == Heading(st, recv)
  <1>1. FilesOK(st) /\ Shaped(st) /\ DOMAIN st.active = {} /\ st.active \in Files(Time)
    BY DEF Writing, FilesOK
  <1>2. /\ Shaped(r) /\ r.seg = w /\ r.active = With(st.active, w, h) /\ r.sealed = st.sealed
        /\ r.lastRecv = recv /\ r.synced = 0 /\ r.idx = {} /\ r.err = st.err /\ r.closed = st.closed
        /\ r.linked = st.linked /\ r.runStartPending = FALSE
    <2>1. r = [st EXCEPT !.active = With(st.active, w, h), !.synced = 0, !.seg = w, !.lastRecv = recv,
                         !.idx = {}, !.runStartPending = FALSE]
      BY DEF OpenSegment, Heading
    <2> HIDE DEF r, w, h
    <2> QED
      BY <1>1, <2>1 DEF Shaped
  <1>3. w \in Time /\ w # None /\ w % SegmentDuration = 0
    <2>1. recv \in Nat /\ recv <= MaxTime
      BY TimeIs
    <2>2. w \in Nat /\ w <= recv /\ w % SegmentDuration = 0
      BY <2>1, WindowIs
    <2>3. w \in Time
      BY <2>1, <2>2, TimeIs DEF Time
    <2> QED
      BY <2>2, <2>3, NoneIsNoTime
  <1>4. h \in Seq(Frame) /\ Defined(h) /\ Len(h) \in Nat
    BY HeadingIs, LenProperties
  <1> HIDE DEF w, h
  <1>5. /\ r.active \in Files(Time) /\ \A x : x \in DOMAIN r.active <=> x = w
        /\ r.active[w] = h
    BY <1>1, <1>2, <1>3, <1>4, WithIs
  <1> HIDE DEF r
  <1>6. \A s \in DOMAIN r.active : /\ s % SegmentDuration = 0 /\ r.synced \in 0 .. Len(r.active[s])
                                   /\ Defined(r.active[s])
    BY <1>2, <1>3, <1>4, <1>5
  <1>7. \E s : DOMAIN r.active \subseteq {s}
    BY <1>5
  <1>8. Writing(r)
    BY <1>1, <1>2, <1>3, <1>5, <1>6, <1>7 DEF Writing, FilesOK
  <1> QED
    BY <1>2, <1>3, <1>5, <1>8 DEF r, w, h

LEMMA EnsureKeeps ==
    ASSUME NEW st, Writing(st), NEW recv \in Time
    PROVE  /\ Writing(EnsureSegment(st, recv))
           /\ ~ Refuses(EnsureSegment(st, recv)) => EnsureSegment(st, recv).seg # None
  <1> DEFINE st1 == IF Rolls(st, recv) THEN SealLocked(st) ELSE st
  <1>1. Writing(st1)
    BY SealKeeps
  <1>2. EnsureSegment(st, recv) = IF Refuses(st1) \/ st1.seg # None THEN st1 ELSE OpenSegment(st1, recv)
    BY DEF EnsureSegment
  <1> HIDE DEF st1
  <1>3. CASE Refuses(st1) \/ st1.seg # None
    BY <1>1, <1>2, <1>3
  <1>4. CASE ~(Refuses(st1) \/ st1.seg # None)
    <2>1. EnsureSegment(st, recv) = OpenSegment(st1, recv) /\ st1.seg = None
      BY <1>2, <1>4
    <2>2. Writing(OpenSegment(st1, recv)) /\ OpenSegment(st1, recv).seg # None
      BY <1>1, <2>1, OpenIs
    <2> QED
      BY <2>1, <2>2
  <1> QED
    BY <1>3, <1>4

\* What one write makes of the file that is open: frames are added at its end.
WroteTo(e, r, q, recv) ==
    /\ Writing(r) /\ r.active[e.seg] = q
    /\ r.sealed = e.sealed /\ r.synced = e.synced /\ r.seg = e.seg /\ r.linked = e.linked
    /\ r.err = e.err /\ r.closed = e.closed /\ r.runStartPending = e.runStartPending
    /\ r.lastRecv = IF e.lastRecv < recv THEN recv ELSE e.lastRecv

LEMMA WrittenKeeps ==
    ASSUME NEW e, Writing(e), e.seg # None, NEW recv \in Time, NEW frames, NEW q \in Seq(Frame),
           e.active[e.seg] \o frames = q, Defined(q), Len(e.active[e.seg]) <= Len(q),
           NEW idx \in SUBSET Stream, idx \subseteq Defs(q), Shaped(e)
    PROVE  WroteTo(e, Written([e EXCEPT !.idx = idx], frames, recv), q, recv)
  <1> DEFINE r == Written([e EXCEPT !.idx = idx], frames, recv)
             k == e.seg
  <1>1. FilesOK(e)
    BY DEF Writing
  <1>2. /\ k \in Time /\ DOMAIN e.active = {k} /\ e.active[k] \in Seq(Frame) /\ e.synced \in 0 .. Len(e.active[k])
        /\ k % SegmentDuration = 0 /\ Len(e.active[k]) \in Nat /\ Len(q) \in Nat
    BY <1>1, OpenFile, LenProperties
  <1>3. e.active \in Files(Time) /\ e.lastRecv \in Time
    BY <1>1 DEF FilesOK
  <1>4. r = [sealed |-> e.sealed, active |-> [e.active EXCEPT ![k] = e.active[k] \o frames],
             synced |-> e.synced, seg |-> k, lastRecv |-> MaxOf({e.lastRecv, recv}), idx |-> idx,
             runStartPending |-> e.runStartPending, closed |-> e.closed, err |-> e.err, linked |-> e.linked]
    <2> DEFINE g == [e EXCEPT !.idx = idx]
    <2>1. r = [g EXCEPT !.active = [g.active EXCEPT ![g.seg] = g.active[g.seg] \o frames],
                        !.lastRecv = MaxOf({g.lastRecv, recv})]
      BY DEF Written
    <2>2. g = [sealed |-> e.sealed, active |-> e.active, synced |-> e.synced, seg |-> e.seg,
               lastRecv |-> e.lastRecv, idx |-> idx, runStartPending |-> e.runStartPending,
               closed |-> e.closed, err |-> e.err, linked |-> e.linked]
      BY DEF Shaped
    <2> HIDE DEF g, r
    <2> QED
      BY <2>1, <2>2
  <1>5. /\ Shaped(r) /\ r.sealed = e.sealed /\ r.synced = e.synced /\ r.seg = k /\ r.idx = idx
        /\ r.linked = e.linked /\ r.err = e.err /\ r.closed = e.closed /\ r.runStartPending = e.runStartPending
        /\ r.active = [e.active EXCEPT ![k] = q] /\ r.lastRecv = MaxOf({e.lastRecv, recv})
    <2> HIDE DEF r
    <2> QED
      BY <1>4 DEF Shaped
  <1> HIDE DEF r
  <1>6. r.lastRecv = (IF e.lastRecv < recv THEN recv ELSE e.lastRecv) /\ r.lastRecv \in Time
    <2>1. e.lastRecv \in Nat /\ recv \in Nat
      BY <1>3, TimeIs
    <2>2. r.lastRecv = (IF e.lastRecv < recv THEN recv ELSE e.lastRecv)
      BY <1>5, <2>1, MaxOfPair
    <2> QED
      BY <1>3, <2>2
  <1>7. /\ r.active = [x \in DOMAIN r.active |-> r.active[x]] /\ DOMAIN r.active = {k}
        /\ r.active[k] = q
    BY <1>2, <1>5
  <1>8. r.active \in Files(Time)
    <2>1. DOMAIN r.active \subseteq Time /\ \A x \in DOMAIN r.active : r.active[x] \in Seq(Frame)
      BY <1>2, <1>7
    <2> QED
      BY <1>7, <2>1, AreFiles
  <1>9. \A s \in DOMAIN r.active : /\ s % SegmentDuration = 0 /\ r.synced \in 0 .. Len(r.active[s])
                                   /\ Defined(r.active[s])
    BY <1>2, <1>5, <1>7
  <1>10. \E s : DOMAIN r.active \subseteq {s}
    BY <1>7
  <1>11. Writing(r)
    <2>1. r.seg \in Time /\ r.seg # None /\ r.seg \in DOMAIN r.active /\ r.idx \subseteq Defs(r.active[r.seg])
      BY <1>2, <1>5, <1>7
    <2>2. DOMAIN r.active # {}
      BY <1>7
    <2>3. r.sealed \in Files(Name) /\ \A n \in DOMAIN r.sealed : NameOK(n) /\ Defined(r.sealed[n])
      BY <1>1, <1>5 DEF FilesOK
    <2>4. r.idx \subseteq Stream /\ Shaped(r)
      BY <1>5
    <2> QED
      BY <1>6, <1>8, <1>9, <1>10, <2>1, <2>2, <2>3, <2>4 DEF Writing, FilesOK
  <1>12. WroteTo(e, r, q, recv)
    BY <1>5, <1>6, <1>7, <1>11 DEF WroteTo
  <1> QED
    BY <1>12 DEF r

\* The stamped frame f, which a definition may precede, is at the end of the open file.
Adds(q, q0, f) ==
    \E p \in Seq(Frame) :
        /\ f \in Frame /\ f.kind # "def" /\ q = Append(p, f)
        /\ p = q0 \/ \E g \in Frame : g.kind = "def" /\ p = Append(q0, g)

Writes(e, r, f) == \E q \in Seq(Frame) : Adds(q, e.active[e.seg], f) /\ WroteTo(e, r, q, f.recv)

LEMMA AppendKeeps ==
    ASSUME NEW st, Writing(st), NEW s \in Stream, NEW recv \in Time, NEW v \in Time
    PROVE  /\ Writing(AppendSample(st, s, recv, v))
           /\ ~ Refuses(EnsureSegment(st, recv)) /\ ~ Refuses(st) =>
                Writes(EnsureSegment(st, recv), AppendSample(st, s, recv, v), SampleFrame(s, recv, v))
  <1> DEFINE e == EnsureSegment(st, recv)
             def == IF s \in e.idx THEN <<>> ELSE <<Def(s)>>
             smp == SampleFrame(s, recv, v)
             q0 == e.active[e.seg]
             q1 == IF s \in e.idx THEN q0 ELSE Append(q0, Def(s))
             q == Append(q1, smp)
             idx == e.idx \cup {s}
  <1>1. CASE Refuses(st) \/ Refuses(e)
    BY <1>1, EnsureKeeps DEF AppendSample
  <1>2. CASE ~ Refuses(st) /\ ~ Refuses(e)
    <2>1. Writing(e) /\ e.seg # None
      BY <1>2, EnsureKeeps
    <2>2. AppendSample(st, s, recv, v) = Written([e EXCEPT !.idx = @ \cup {s}], def \o <<smp>>, recv)
      BY <1>2 DEF AppendSample
    <2> HIDE DEF e
    <2>3. FilesOK(e) /\ Shaped(e) /\ e.idx \subseteq Stream
      BY <2>1 DEF Writing, FilesOK
    <2>4. [e EXCEPT !.idx = @ \cup {s}] = [e EXCEPT !.idx = idx]
      OBVIOUS
    <2>5. /\ smp \in Frame /\ smp.kind = "sample" /\ smp.stream = s /\ smp.recv = recv
          /\ Def(s) \in Frame /\ Def(s).kind = "def" /\ Def(s).stream = s
      <3>1. smp \in Sample /\ Def(s) \in DefFrame
        BY DEF SampleFrame, Def, Sample, DefFrame
      <3> QED
        BY <3>1 DEF Frame, SampleFrame, Def
    <2>6. q0 \in Seq(Frame) /\ Defined(q0) /\ e.idx \subseteq Defs(q0) /\ Len(q0) \in Nat
      BY <2>1, <2>3, OpenFile
    <2> HIDE DEF q0, smp
    <2>7. q0 \o (def \o <<smp>>) = q
      BY <2>5, <2>6, WrittenIs
    <2>8. /\ q1 \in Seq(Frame) /\ Defined(q1) /\ idx \subseteq Defs(q1) /\ Len(q0) <= Len(q1) /\ Len(q1) \in Nat
      <3>1. CASE s \in e.idx
        BY <2>6, <3>1
      <3>2. CASE s \notin e.idx
        <4>1. /\ Append(q0, Def(s)) \in Seq(Frame) /\ Defined(Append(q0, Def(s)))
              /\ Defs(q0) \subseteq Defs(Append(q0, Def(s))) /\ s \in Defs(Append(q0, Def(s)))
          BY <2>5, <2>6, AppendFrame
        <4>2. Len(Append(q0, Def(s))) = Len(q0) + 1
          BY <2>5, <2>6, AppendProperties
        <4> QED
          BY <2>6, <3>2, <4>1, <4>2
      <3> QED
        BY <3>1, <3>2
    <2>12. q1 = q0 \/ \E g \in Frame : g.kind = "def" /\ q1 = Append(q0, g)
      BY <2>5
    <2> HIDE DEF q1, def
    <2>13. Adds(q, q0, smp)
      BY <2>5, <2>8, <2>12 DEF Adds
    <2>9. q \in Seq(Frame) /\ Defined(q) /\ idx \subseteq Defs(q) /\ Len(q) = Len(q1) + 1
      <3>1. smp.stream \in Defs(q1)
        BY <2>5, <2>8
      <3>2. q \in Seq(Frame) /\ Defined(q) /\ Defs(q1) \subseteq Defs(q)
        BY <2>5, <2>8, <3>1, AppendFrame
      <3>3. Len(q) = Len(q1) + 1
        BY <2>5, <2>8, AppendProperties
      <3> QED
        BY <2>8, <3>2, <3>3
    <2>10. idx \in SUBSET Stream /\ Len(q0) <= Len(q)
      BY <2>3, <2>6, <2>8, <2>9
    <2> HIDE DEF q, idx
    <2> DEFINE r == Written([e EXCEPT !.idx = idx], def \o <<smp>>, recv)
    <2>11. WroteTo(e, r, q, recv)
      BY <2>1, <2>3, <2>7, <2>9, <2>10, WrittenKeeps DEF q0
    <2> HIDE DEF r
    <2>15. Writing(r) /\ Writes(e, r, smp)
      BY <2>5, <2>9, <2>11, <2>13 DEF Writes, WroteTo, q0
    <2> QED
      BY <2>2, <2>4, <2>15 DEF e, r, smp
  <1> QED
    BY <1>1, <1>2

LEMMA TickKeeps ==
    ASSUME NEW st, Writing(st), NEW recv \in Time, NEW rec \in Record
    PROVE  /\ Writing(Tick(st, recv, rec))
           /\ ~ Refuses(EnsureSegment(st, recv)) /\ ~ Refuses(st) =>
                Writes(EnsureSegment(st, recv), Tick(st, recv, rec), TickFrame(recv, rec))
  <1> DEFINE e == EnsureSegment(st, recv)
             f == TickFrame(recv, rec)
             q0 == e.active[e.seg]
             q == Append(q0, f)
             idx == e.idx
  <1>1. CASE Refuses(st) \/ Refuses(e)
    BY <1>1, EnsureKeeps DEF Tick
  <1>2. CASE ~ Refuses(st) /\ ~ Refuses(e)
    <2>1. Writing(e) /\ e.seg # None
      BY <1>2, EnsureKeeps
    <2>2. Tick(st, recv, rec) = Written(e, <<f>>, recv)
      BY <1>2 DEF Tick
    <2> HIDE DEF e
    <2>3. FilesOK(e) /\ Shaped(e) /\ e.idx \subseteq Stream
      BY <2>1 DEF Writing, FilesOK
    <2>4. e = [e EXCEPT !.idx = idx]
      BY <2>3 DEF Shaped
    <2>5. f \in Frame /\ f.kind = "tick" /\ f.recv = recv
      <3>1. f \in Ticked
        BY DEF TickFrame, Ticked
      <3> QED
        BY <3>1 DEF Frame, TickFrame
    <2>6. q0 \in Seq(Frame) /\ Defined(q0) /\ idx \subseteq Defs(q0) /\ Len(q0) \in Nat
      BY <2>1, <2>3, OpenFile
    <2> HIDE DEF q0, f
    <2>7. q0 \o <<f>> = q
      BY <2>5, <2>6, WrittenIs
    <2>8. q \in Seq(Frame) /\ Defined(q) /\ idx \subseteq Defs(q) /\ Len(q0) <= Len(q)
      <3>1. q \in Seq(Frame) /\ Defined(q) /\ Defs(q0) \subseteq Defs(q)
        BY <2>5, <2>6, AppendFrame
      <3>2. Len(q) = Len(q0) + 1
        BY <2>5, <2>6, AppendProperties
      <3> QED
        BY <2>6, <3>1, <3>2
    <2>9. idx \in SUBSET Stream
      BY <2>3
    <2>11. Adds(q, q0, f)
      BY <2>5, <2>6 DEF Adds
    <2> HIDE DEF q, idx
    <2> DEFINE r == Written([e EXCEPT !.idx = idx], <<f>>, recv)
    <2>10. WroteTo(e, r, q, recv)
      BY <2>1, <2>3, <2>7, <2>8, <2>9, WrittenKeeps DEF q0
    <2> HIDE DEF r
    <2>13. Writing(r) /\ Writes(e, r, f)
      BY <2>5, <2>8, <2>10, <2>11 DEF Writes, WroteTo, q0
    <2> QED
      BY <2>2, <2>4, <2>13 DEF e, r, f
  <1> QED
    BY <1>1, <1>2

LEMMA SyncKeeps == ASSUME NEW st, Writing(st) PROVE Writing(Sync(st))
  <1> DEFINE r == Sync(st)
  <1>1. CASE st.seg = None \/ st.err
    BY <1>1 DEF Sync
  <1>2. CASE ~(st.seg = None \/ st.err)
    <2>1. FilesOK(st) /\ Shaped(st) /\ st.seg # None
      BY <1>2 DEF Writing, FilesOK
    <2>2. r = [st EXCEPT !.synced = Len(st.active[st.seg])]
      BY <1>2 DEF Sync
    <2>3. DOMAIN st.active = {st.seg} /\ Len(st.active[st.seg]) \in Nat
      BY <2>1, OpenFile
    <2> HIDE DEF r
    <2>4. /\ Shaped(r) /\ r.sealed = st.sealed /\ r.active = st.active /\ r.seg = st.seg /\ r.idx = st.idx
          /\ r.lastRecv = st.lastRecv /\ r.synced = Len(st.active[st.seg])
      BY <2>1, <2>2 DEF Shaped
    <2>5. \A s \in DOMAIN r.active : r.synced \in 0 .. Len(r.active[s])
      BY <2>3, <2>4
    <2>6. DOMAIN r.active # {}
      BY <2>3, <2>4
    <2>7. Writing(r)
      BY <2>1, <2>4, <2>5, <2>6 DEF Writing, FilesOK
    <2> QED
      BY <2>7 DEF r
  <1> QED
    BY <1>1, <1>2

LEMMA CloseKeeps == ASSUME NEW st, Writing(st) PROVE Writing(Close(st))
  <1> DEFINE r == Close(st)
             e == SealLocked(st)
  <1>1. CASE st.closed
    BY <1>1 DEF Close
  <1>2. CASE ~ st.closed
    <2>1. r = [e EXCEPT !.closed = TRUE]
      BY <1>2 DEF Close
    <2>2. Writing(e)
      BY SealKeeps
    <2> HIDE DEF r, e
    <2>3. /\ Shaped(r) /\ r.sealed = e.sealed /\ r.active = e.active /\ r.seg = e.seg /\ r.idx = e.idx
          /\ r.lastRecv = e.lastRecv /\ r.synced = e.synced
      BY <2>1, <2>2 DEF Shaped, Writing, FilesOK
    <2>4. Writing(r)
      BY <2>2, <2>3 DEF Writing, FilesOK
    <2> QED
      BY <2>4 DEF r
  <1> QED
    BY <1>1, <1>2

LEMMA LatchKeeps == ASSUME NEW st, Writing(st) PROVE Writing(Latch(st))
  <1> DEFINE r == Latch(st)
  <1>1. /\ Shaped(r) /\ r.sealed = st.sealed /\ r.active = st.active /\ r.seg = st.seg /\ r.idx = st.idx
        /\ r.lastRecv = st.lastRecv /\ r.synced = st.synced
    <2>1. r = [st EXCEPT !.err = TRUE] /\ Shaped(st)
      BY DEF Latch, Writing, FilesOK
    <2> HIDE DEF r
    <2> QED
      BY <2>1 DEF Shaped
  <1> HIDE DEF r
  <1>2. Writing(r)
    BY <1>1 DEF Writing, FilesOK
  <1> QED
    BY <1>2 DEF r

\* The directory that a crash leaves.
LEMMA NoFilesIs == ASSUME NEW K PROVE NoFiles \in Files(K) /\ DOMAIN NoFiles = {}
  <1>1. DOMAIN NoFiles = {} /\ NoFiles = [k \in DOMAIN NoFiles |-> NoFiles[k]]
    BY DEF NoFiles
  <1> QED
    BY <1>1, AreFiles

LEMMA DeadKeeps ==
    ASSUME NEW st, Writing(st), NEW n \in CanSurvive(st)
    PROVE  /\ FilesOK(Dead(st, n)) /\ Dead(st, n).seg = None
           /\ Dead(st, n).sealed = st.sealed /\ Dead(st, n).linked = FALSE
           /\ st.seg = None => DOMAIN Dead(st, n).active = {}
           /\ st.seg # None => /\ n \in 0 .. Len(st.active[st.seg]) /\ st.synced <= n
                               /\ \A x : x \in DOMAIN Dead(st, n).active <=> x = st.seg
                               /\ Dead(st, n).active[st.seg] = SubSeq(st.active[st.seg], 1, n)
  <1> DEFINE r == Dead(st, n)
             A == IF st.seg = None THEN st.active ELSE With(st.active, st.seg, SubSeq(st.active[st.seg], 1, n))
  <1>1. FilesOK(st) /\ st.active \in Files(Time) /\ st.sealed \in Files(Name)
    BY DEF Writing, FilesOK
  <1>2. r = [sealed |-> st.sealed, active |-> A, synced |-> n, seg |-> None, lastRecv |-> 0, idx |-> {},
             runStartPending |-> TRUE, closed |-> FALSE, err |-> FALSE, linked |-> FALSE]
    <2>1. r = [EmptyStore EXCEPT !.sealed = st.sealed, !.active = A, !.synced = n]
      BY DEF Dead
    <2> HIDE DEF r, A
    <2> QED
      BY <2>1 DEF EmptyStore
  <1>3. CASE st.seg = None
    <2>1. n = 0 /\ A = st.active /\ DOMAIN A = {}
      BY <1>3 DEF CanSurvive, Writing
    <2> HIDE DEF r, A
    <2>2. FilesOK(r)
      BY <1>1, <1>2, <2>1, TimeIs DEF FilesOK, Shaped
    <2> QED
      BY <1>2, <1>3, <2>1, <2>2 DEF r
  <1>4. CASE st.seg # None
    <2>1. /\ st.seg \in Time /\ st.active[st.seg] \in Seq(Frame) /\ Len(st.active[st.seg]) \in Nat
          /\ st.synced \in 0 .. Len(st.active[st.seg]) /\ Defined(st.active[st.seg]) /\ DOMAIN st.active = {st.seg}
          /\ st.seg % SegmentDuration = 0
      BY <1>1, <1>4, OpenFile
    <2>2. n \in 0 .. Len(st.active[st.seg]) /\ st.synced <= n
      BY <1>4, <2>1 DEF CanSurvive
    <2> DEFINE q == SubSeq(st.active[st.seg], 1, n)
    <2>3. q \in Seq(Frame) /\ Len(q) = n /\ Defined(q)
      BY <2>1, <2>2, DefinedPrefix
    <2> HIDE DEF q
    <2>4. A = With(st.active, st.seg, q)
      BY <1>4 DEF q
    <2> HIDE DEF r, A
    <2>5. A \in Files(Time) /\ A[st.seg] = q /\ \A x : x \in DOMAIN A <=> x = st.seg
      BY <1>1, <2>1, <2>3, <2>4, WithIs
    <2>6. \A s \in DOMAIN A : s % SegmentDuration = 0 /\ n \in 0 .. Len(A[s]) /\ Defined(A[s])
      BY <2>1, <2>2, <2>3, <2>5
    <2>7. \E s : DOMAIN A \subseteq {s}
      BY <2>5
    <2>8. FilesOK(r)
      BY <1>1, <1>2, <2>5, <2>6, <2>7, TimeIs DEF FilesOK, Shaped
    <2> QED
      BY <1>2, <1>4, <2>2, <2>5, <2>8 DEF r, q
  <1> QED
    BY <1>3, <1>4

LEMMA DeadWhileSealingKeeps ==
    ASSUME NEW st, Writing(st), st.seg # None, OpenName(st) \notin DOMAIN st.sealed
    PROVE  /\ FilesOK(DeadWhileSealing(st)) /\ DeadWhileSealing(st).seg = None
           /\ DeadWhileSealing(st).linked = TRUE /\ DeadWhileSealing(st).synced = 0
           /\ DeadWhileSealing(st).sealed = Grown(st)
           /\ \A x : x \in DOMAIN DeadWhileSealing(st).active <=> x = st.seg
           /\ DeadWhileSealing(st).active[st.seg] = st.active[st.seg]
  <1> DEFINE r == DeadWhileSealing(st)
             q == st.active[st.seg]
             d == Dead(st, Len(q))
             name == OpenName(st)
  <1>1. FilesOK(st) /\ st.active \in Files(Time) /\ st.sealed \in Files(Name)
    BY DEF Writing, FilesOK
  <1>2. /\ st.seg \in Time /\ q \in Seq(Frame) /\ Len(q) \in Nat /\ st.synced \in 0 .. Len(q) /\ Defined(q)
    BY <1>1, OpenFile
  <1>3. Len(q) \in CanSurvive(st)
    BY <1>2 DEF CanSurvive
  <1>4. /\ FilesOK(d) /\ Shaped(d) /\ d.seg = None /\ d.sealed = st.sealed /\ \A x : x \in DOMAIN d.active <=> x = st.seg
        /\ d.active[st.seg] = SubSeq(q, 1, Len(q))
    BY <1>3, DeadKeeps DEF FilesOK
  <1>5. SubSeq(q, 1, Len(q)) = q
    BY <1>2, SubSeqFull
  <1>6. NameOK(name) /\ name \in Name
    BY <1>1, OpenNameIs DEF NameOK
  <1>7. r = [d EXCEPT !.sealed = With(st.sealed, name, q), !.synced = 0, !.linked = TRUE]
    BY <1>4 DEF DeadWhileSealing
  <1> HIDE DEF r, d
  <1>8. /\ Shaped(r) /\ r.sealed = Grown(st) /\ r.active = d.active /\ r.seg = None /\ r.synced = 0
        /\ r.idx = d.idx /\ r.lastRecv = d.lastRecv /\ r.linked = TRUE
    BY <1>4, <1>7 DEF Shaped, Grown
  <1> HIDE DEF name, q
  <1>9. /\ r.sealed \in Files(Name) /\ r.sealed[name] = q
        /\ \A n \in DOMAIN r.sealed : n # name => n \in DOMAIN st.sealed /\ r.sealed[n] = st.sealed[n]
    <2>1. r.sealed = With(st.sealed, name, q)
      BY <1>8 DEF Grown, name, q
    <2>2. q \in Seq(Frame)
      BY <1>2
    <2>3. /\ With(st.sealed, name, q) \in Files(Name) /\ With(st.sealed, name, q)[name] = q
          /\ \A x : x \in DOMAIN With(st.sealed, name, q) <=> x \in DOMAIN st.sealed \/ x = name
          /\ \A x \in DOMAIN st.sealed : x # name => With(st.sealed, name, q)[x] = st.sealed[x]
      BY <1>1, <1>6, <2>2, WithIs
    <2> QED
      BY <2>1, <2>3
  <1>10. \A n \in DOMAIN r.sealed : NameOK(n) /\ Defined(r.sealed[n])
    BY <1>1, <1>2, <1>6, <1>9 DEF FilesOK
  <1>11. \A s \in DOMAIN r.active : /\ s % SegmentDuration = 0 /\ r.synced \in 0 .. Len(r.active[s])
                                    /\ Defined(r.active[s])
    <2>1. \A s \in DOMAIN d.active : s % SegmentDuration = 0 /\ Defined(d.active[s]) /\ s = st.seg
      BY <1>4 DEF FilesOK
    <2> QED
      BY <1>2, <1>4, <1>5, <1>8, <2>1
  <1>12. FilesOK(r)
    BY <1>4, <1>8, <1>9, <1>10, <1>11 DEF FilesOK
  <1> QED
    BY <1>4, <1>5, <1>8, <1>12 DEF r, q

\* What the next process makes of it.
LEMMA RecoveredNameIs ==
    ASSUME NEW st, FilesOK(st), NEW s \in Leftover(st)
    PROVE  /\ s \in Time /\ st.active[s] \in Seq(Frame) /\ Defined(st.active[s]) /\ DOMAIN st.active = {s}
           /\ Leftover(st) = {s} /\ st.active[s] # << >>
           /\ RecoveredName(st, s)[1] = s /\ NameOK(RecoveredName(st, s))
           /\ RecoveredName(st, s)[2] = IF s < NewestRecv(st.active[s]) THEN NewestRecv(st.active[s]) ELSE s
  <1>1. s \in DOMAIN st.active /\ DOMAIN st.active = {s} /\ Defined(st.active[s]) /\ s % SegmentDuration = 0
        /\ st.active[s] # << >>
    BY DEF FilesOK, Leftover
  <1>2. st.active \in Files(Time)
    BY DEF FilesOK
  <1>3. st.active[s] \in Seq(Frame) /\ s \in Time
    BY <1>1, <1>2, FilesAre
  <1>4. NewestRecv(st.active[s]) \in Time
    BY <1>3, NewestRecvIs
  <1> DEFINE m == NewestRecv(st.active[s])
  <1> HIDE DEF m
  <1>5. s \in Nat /\ m \in Nat /\ s <= MaxTime /\ m <= MaxTime
    BY <1>3, <1>4, TimeIs DEF m
  <1>6. RecoveredName(st, s) = <<s, IF s < m THEN m ELSE s>>
    BY <1>5, MaxOfPair DEF RecoveredName, SealedName, m
  <1>7. Leftover(st) = {s}
    BY <1>1 DEF Leftover
  <1> QED
    BY <1>1, <1>3, <1>5, <1>6, <1>7 DEF NameOK, Name, m

LEMMA RecoveredKeeps ==
    ASSUME NEW st, FilesOK(st), ~ Refused(st)
    PROVE  /\ Writing(Recovered(st)) /\ Recovered(st).seg = None /\ Recovered(st).linked = FALSE
           /\ DOMAIN Recovered(st).active = {} /\ Recovered(st).synced = 0 /\ Recovered(st).runStartPending = TRUE
           /\ \A n \in DOMAIN st.sealed : n \in DOMAIN Recovered(st).sealed /\ Recovered(st).sealed[n] = st.sealed[n]
           /\ \A n \in DOMAIN Recovered(st).sealed : n \in DOMAIN st.sealed \/ \E s \in Leftover(st) : n = RecoveredName(st, s)
           /\ \A s \in Leftover(st) : /\ RecoveredName(st, s) \in DOMAIN Recovered(st).sealed
                                      /\ Recovered(st).sealed[RecoveredName(st, s)] = st.active[s]
  <1> DEFINE r == Recovered(st)
             names == {RecoveredName(st, s) : s \in Leftover(st)}
             S == [n \in DOMAIN st.sealed \cup names |-> IF n \in names THEN st.active[n[1]] ELSE st.sealed[n]]
  <1>1. r = [sealed |-> S, active |-> NoFiles, synced |-> 0, seg |-> None, lastRecv |-> 0, idx |-> {},
             runStartPending |-> TRUE, closed |-> FALSE, err |-> FALSE, linked |-> FALSE]
    <2>1. r = [EmptyStore EXCEPT !.sealed = S]
      BY DEF Recovered
    <2> HIDE DEF r, S
    <2> QED
      BY <2>1 DEF EmptyStore
  <1>2. \A n \in names : n \notin DOMAIN st.sealed
    BY DEF Refused
  <1>3. st.sealed \in Files(Name) /\ \A n \in DOMAIN st.sealed : NameOK(n) /\ Defined(st.sealed[n])
    BY DEF FilesOK
  <1>4. \A n \in names : \E s \in Leftover(st) : n = RecoveredName(st, s)
    OBVIOUS
  <1>5. \A s \in Leftover(st) : RecoveredName(st, s) \in names
    OBVIOUS
  <1>6. /\ S = [n \in DOMAIN S |-> S[n]] /\ DOMAIN S = DOMAIN st.sealed \cup names
        /\ \A n \in DOMAIN S : S[n] = IF n \in names THEN st.active[n[1]] ELSE st.sealed[n]
    OBVIOUS
  <1> HIDE DEF r, names, S
  <1>7. \A n \in names : NameOK(n) /\ st.active[n[1]] \in Seq(Frame) /\ Defined(st.active[n[1]])
    BY <1>4, RecoveredNameIs
  <1>8. \A n \in DOMAIN st.sealed : st.sealed[n] \in Seq(Frame) /\ n \in Name
    BY <1>3, FilesAre
  <1>9. S \in Files(Name) /\ \A n \in DOMAIN S : NameOK(n) /\ Defined(S[n])
    <2>1. \A n \in DOMAIN S : NameOK(n) /\ Defined(S[n]) /\ S[n] \in Seq(Frame)
      BY <1>3, <1>6, <1>7, <1>8
    <2>2. DOMAIN S \subseteq Name
      BY <2>1 DEF NameOK
    <2> QED
      BY <1>6, <2>1, <2>2, AreFiles
  <1>10. NoFiles \in Files(Time) /\ DOMAIN NoFiles = {}
    BY NoFilesIs
  <1>11. Writing(r)
    BY <1>1, <1>9, <1>10, TimeIs DEF Writing, FilesOK, Shaped
  <1>12. \A n \in DOMAIN st.sealed : n \in DOMAIN S /\ S[n] = st.sealed[n]
    BY <1>2, <1>6
  <1>13. \A n \in DOMAIN S : n \in DOMAIN st.sealed \/ \E s \in Leftover(st) : n = RecoveredName(st, s)
    BY <1>4, <1>6
  <1>14. \A s \in Leftover(st) : RecoveredName(st, s) \in DOMAIN S /\ S[RecoveredName(st, s)] = st.active[s]
    BY <1>5, <1>6, RecoveredNameIs
  <1> QED
    BY <1>1, <1>10, <1>11, <1>12, <1>13, <1>14 DEF r

-----------------------------------------------------------------------------
(* The process: what the loops hold between their steps.                   *)

LoopsOK ==
    /\ clock \in Time
    /\ scrape = [phase |-> scrape.phase, recv |-> scrape.recv, todo |-> scrape.todo]
    /\ scrape.recv \in Time /\ scrape.todo \subseteq Stream
    /\ tick = [phase |-> tick.phase, now |-> tick.now, digest |-> tick.digest]
    /\ tick.now \in Time /\ (tick.phase = "capture" => tick.digest \in Digest)
    /\ rings \in Rings /\ bars \in Bars \cup {None}
    /\ ticks \in 0 .. MaxTicks /\ memory \in 0 .. ticks

\* The epochs of the bundle are numbered without a gap, and the process is at the newest.
EpochsOK ==
    \E n \in Nat : /\ barsFiles \in [1 .. n -> Bars]
                   /\ up => epoch = n /\ barsHash = HashOf(n)

StoreOK == IF up THEN Writing(store) ELSE FilesOK(store)

CaptureInv == LoopsOK /\ EpochsOK /\ StoreOK

LEMMA NoRingsIs == NoRings \in Rings
  <1>1. NoRings \in [Stream -> Seq(Time)] /\ \A s \in Stream : NoRings[s] = << >>
    BY DEF NoRings
  <1>2. Len(<< >>) = 0 /\ 0 <= HotCapacity
    BY CaptureAssumption DEF CaptureAssumption
  <1> QED
    BY <1>1, <1>2 DEF Rings

LEMMA PushedIs ==
    ASSUME NEW rs \in Rings, NEW s \in Stream, NEW v \in Time
    PROVE  /\ Pushed(rs, s, v) \in Rings
           /\ Len(rs[s]) \in Nat /\ rs[s] \in Seq(Time)
           /\ Pushed(rs, s, v)[s] = Append(IF Len(rs[s]) < HotCapacity THEN rs[s] ELSE Tail(rs[s]), v)
           /\ \A x \in Stream : x # s => Pushed(rs, s, v)[x] = rs[x]
  <1>1. /\ rs \in [Stream -> Seq(Time)] /\ rs[s] \in Seq(Time) /\ Len(rs[s]) <= HotCapacity
        /\ Len(rs[s]) \in Nat /\ HotCapacity \in Nat \ {0}
        /\ \A x \in Stream : Len(rs[x]) <= HotCapacity
    BY CaptureAssumption, LenProperties DEF Rings, CaptureAssumption
  <1> DEFINE q0 == IF Len(rs[s]) < HotCapacity THEN rs[s] ELSE Tail(rs[s])
             q == Append(q0, v)
  <1>2. q0 \in Seq(Time) /\ Len(q0) \in Nat /\ Len(q0) + 1 <= HotCapacity
    <2>1. CASE Len(rs[s]) < HotCapacity
      BY <1>1, <2>1
    <2>2. CASE ~(Len(rs[s]) < HotCapacity)
      <3>1. rs[s] # << >>
        BY <1>1, <2>2
      <3>2. Tail(rs[s]) \in Seq(Time) /\ Len(Tail(rs[s])) = Len(rs[s]) - 1
        BY <1>1, <3>1, HeadTailProperties
      <3> QED
        BY <1>1, <2>2, <3>2
    <2> QED
      BY <2>1, <2>2
  <1>3. q0 \o <<v>> = q /\ Pushed(rs, s, v) = [rs EXCEPT ![s] = q0 \o <<v>>]
    <2>1. Pushed(rs, s, v) = [rs EXCEPT ![s] = q0 \o <<v>>]
      BY <1>1 DEF Pushed
    <2>2. q0 \o <<v>> = q
      BY <1>2, AppendIsConcat
    <2> QED
      BY <2>1, <2>2
  <1> HIDE DEF q0
  <1>4. q \in Seq(Time) /\ Len(q) <= HotCapacity
    BY <1>2, AppendProperties
  <1> HIDE DEF q
  <1>5. Pushed(rs, s, v) = [rs EXCEPT ![s] = q]
    BY <1>3
  <1>6. [rs EXCEPT ![s] = q] \in Rings /\ [rs EXCEPT ![s] = q][s] = q /\ \A x \in Stream : x # s => [rs EXCEPT ![s] = q][x] = rs[x]
    BY <1>1, <1>4 DEF Rings
  <1> QED
    BY <1>1, <1>5, <1>6 DEF q, q0

LEMMA ViewIs ==
    ASSUME NEW rs \in Rings, NEW b \in Bars \cup {None}, NEW m \in Nat
    PROVE  View(rs, b, m) \in Digest
  BY NoRingsIs, CaptureAssumption DEF View, Digest, CaptureAssumption

LEMMA NewestEpochIs ==
    ASSUME NEW n \in Nat, barsFiles \in [1 .. n -> Bars]
    PROVE  NewestEpoch = n
  BY NewestIs DEF NewestEpoch

LEMMA CaptureInit == Init => CaptureInv
  <1> SUFFICES ASSUME Init PROVE CaptureInv
    OBVIOUS
  <1>1. LoopsOK
    BY NoRingsIs, TimeIs, CaptureAssumption DEF Init, LoopsOK, Idle, IdleTick, CaptureAssumption
  <1>2. EpochsOK
    <2>1. barsFiles \in [1 .. 0 -> Bars]
      BY DEF Init, NoFiles
    <2>2. epoch = 0 /\ barsHash = HashOf(0)
      BY DEF Init, HashOf
    <2> QED
      BY <2>1, <2>2 DEF EpochsOK
  <1>3. StoreOK
    <2>1. store = [sealed |-> NoFiles, active |-> NoFiles, synced |-> 0, seg |-> None, lastRecv |-> 0,
                   idx |-> {}, runStartPending |-> TRUE, closed |-> FALSE, err |-> FALSE, linked |-> FALSE] /\ up
      BY DEF Init, EmptyStore
    <2>2. NoFiles \in Files(Name) /\ NoFiles \in Files(Time) /\ DOMAIN NoFiles = {}
      BY NoFilesIs
    <2>3. Writing(store)
      BY <2>1, <2>2, TimeIs DEF Writing, FilesOK, Shaped
    <2> QED
      BY <2>1, <2>3 DEF StoreOK
  <1> QED
    BY <1>1, <1>2, <1>3 DEF CaptureInv

\* Ending the process keeps the invariant when what it leaves is a directory.
LEMMA DownKeeps ==
    ASSUME CaptureInv, Down, FilesOK(store')
    PROVE  CaptureInv'
  <1>1. LoopsOK'
    BY NoRingsIs, TimeIs DEF CaptureInv, LoopsOK, Down, Idle, IdleTick, count
  <1>2. EpochsOK'
    BY DEF CaptureInv, EpochsOK, Down
  <1> QED
    BY <1>1, <1>2 DEF CaptureInv, StoreOK, Down

LEMMA LaterIs == ASSUME clock \in Time, NEW t \in Later PROVE t \in Time /\ clock <= t
  BY TimeIs DEF Later, Time

LEMMA CaptureKeeps == CaptureInv /\ [Next]_vars => CaptureInv'
  <1> SUFFICES ASSUME CaptureInv, [Next]_vars PROVE CaptureInv'
    OBVIOUS
  <1> USE DEF CaptureInv
  <1>1. CASE Fetch
    <2>1. up /\ UNCHANGED <<store, barsFiles, up, rings, memory, bars, epoch, barsHash, tick, ticks>>
      BY <1>1 DEF Fetch, bundle
    <2>2. clock' \in Time
      BY <1>1, LaterIs DEF Fetch, LoopsOK
    <2>3. PICK S \in Delivery : scrape' = [phase |-> "fetched", recv |-> clock', todo |-> S]
      BY <1>1 DEF Fetch
    <2>4. S \subseteq Stream
      BY <2>3, CaptureAssumption DEF CaptureAssumption
    <2>5. LoopsOK'
      BY <2>1, <2>2, <2>3, <2>4 DEF LoopsOK
    <2>6. EpochsOK' /\ StoreOK'
      BY <2>1 DEF EpochsOK, HashOf, StoreOK
    <2> QED
      BY <2>5, <2>6
  <1>2. ASSUME NEW s \in Stream, IngestSample(s) PROVE CaptureInv'
    <2>1. up /\ UNCHANGED <<barsFiles, clock, up, memory, bars, epoch, barsHash, tick, ticks>>
      BY <1>2 DEF IngestSample, count
    <2>2. scrape.recv \in Time /\ rings \in Rings
      BY DEF LoopsOK
    <2>3. rings' \in Rings
      BY <1>2, <2>2, PushedIs DEF IngestSample
    <2>4. Writing(store')
      BY <1>2, <2>1, <2>2, AppendKeeps DEF IngestSample, StoreOK
    <2>5. /\ scrape' = [phase |-> scrape.phase, recv |-> scrape.recv, todo |-> scrape.todo]'
          /\ scrape'.recv \in Time /\ scrape'.todo \subseteq Stream
      <3>1. CASE scrape.todo = {s}
        <4>1. scrape' = [phase |-> "idle", recv |-> 0, todo |-> {}]
          BY <1>2, <3>1 DEF IngestSample, Idle
        <4> QED
          BY <4>1, TimeIs
      <3>2. CASE scrape.todo # {s}
        <4>1. scrape' = [scrape EXCEPT !.phase = "ingesting", !.todo = scrape.todo \ {s}]
          BY <1>2, <3>2 DEF IngestSample
        <4>2. scrape' = [phase |-> "ingesting", recv |-> scrape.recv, todo |-> scrape.todo \ {s}]
          BY <4>1 DEF LoopsOK
        <4>3. scrape.todo \ {s} \subseteq Stream
          BY DEF LoopsOK
        <4> QED
          BY <2>2, <4>2, <4>3
      <3> QED
        BY <3>1, <3>2
    <2>6. LoopsOK'
      BY <2>1, <2>3, <2>5 DEF LoopsOK
    <2>7. EpochsOK' /\ StoreOK'
      BY <2>1, <2>4 DEF EpochsOK, HashOf, StoreOK
    <2> QED
      BY <2>6, <2>7
  <1>3. CASE TickEvaluate
    <2>1. up /\ ticks < MaxTicks /\ ticks' = ticks + 1 /\ UNCHANGED <<store, barsFiles, up, rings, epoch, barsHash, scrape>>
      BY <1>3 DEF TickEvaluate, bundle
    <2>2. clock' \in Time
      BY <1>3, LaterIs DEF TickEvaluate, LoopsOK
    <2>3. PICK b \in Bars \cup {bars} : /\ bars' = b /\ memory' = Observed(memory, b)
                                        /\ tick' = [phase |-> "capture", now |-> clock', digest |-> View(rings, b, memory)]
      BY <1>3 DEF TickEvaluate
    <2>4. b \in Bars \cup {None} /\ rings \in Rings /\ memory \in Nat /\ memory <= ticks /\ ticks \in Nat
          /\ MaxTicks \in Nat
      BY CaptureAssumption DEF LoopsOK, CaptureAssumption
    <2>5. View(rings, b, memory) \in Digest
      BY <2>4, ViewIs
    <2>6. memory' \in 0 .. ticks' /\ ticks' \in 0 .. MaxTicks
      BY <2>1, <2>3, <2>4 DEF Observed
    <2>7. LoopsOK'
      BY <2>1, <2>2, <2>3, <2>4, <2>5, <2>6 DEF LoopsOK
    <2>8. EpochsOK' /\ StoreOK'
      BY <2>1 DEF EpochsOK, HashOf, StoreOK
    <2> QED
      BY <2>7, <2>8
  <1>4. CASE TickCapture
    <2>1. up /\ tick.phase = "capture" /\ tick' = IdleTick /\ UNCHANGED <<clock, up, rings, memory, bars, scrape, ticks>>
      BY <1>4 DEF TickCapture, count
    <2>2. tick.now \in Time /\ tick.digest \in Digest /\ bars \in Bars \cup {None}
      BY <2>1 DEF LoopsOK
    <2>3. LoopsOK'
      BY <2>1, TimeIs DEF LoopsOK, IdleTick
    <2>4. PICK n \in Nat : barsFiles \in [1 .. n -> Bars] /\ epoch = n /\ barsHash = HashOf(n)
      BY <2>1 DEF EpochsOK
    <2>5. EpochsOK' /\ epoch' \in Nat
      <3>1. CASE NeedsEpoch
        <4>1. barsFiles' = With(barsFiles, n + 1, bars) /\ epoch' = n + 1 /\ barsHash' = bars
          BY <1>4, <2>4, <3>1 DEF TickCapture
        <4>2. bars \in Bars
          BY <2>2, <3>1 DEF NeedsEpoch
        <4>3. 1 .. n \cup {n + 1} = 1 .. (n + 1)
          BY <2>4
        <4>4. barsFiles' \in [1 .. (n + 1) -> Bars] /\ barsFiles'[n + 1] = bars
          BY <2>4, <4>1, <4>2, <4>3 DEF With
        <4>5. HashOf(n + 1)' = bars
          BY <2>4, <4>4 DEF HashOf
        <4> QED
          BY <2>4, <4>1, <4>4, <4>5 DEF EpochsOK
      <3>2. CASE ~ NeedsEpoch
        <4>1. UNCHANGED <<barsFiles, epoch, barsHash>>
          BY <1>4, <3>2 DEF TickCapture
        <4> QED
          BY <2>1, <2>4, <4>1 DEF EpochsOK, HashOf
      <3> QED
        BY <3>1, <3>2
    <2>6. [epoch |-> IF bars = None THEN 0 ELSE epoch', digest |-> tick.digest] \in Record
      BY <2>2, <2>5 DEF Record
    <2>7. Writing(store')
      BY <1>4, <2>1, <2>2, <2>6, TickKeeps DEF TickCapture, StoreOK
    <2>8. StoreOK'
      BY <2>1, <2>7 DEF StoreOK
    <2> QED
      BY <2>3, <2>5, <2>8
  <1>5. CASE TickNotCaptured
    <2>1. tick' = IdleTick /\ UNCHANGED <<store, barsFiles, clock, up, rings, memory, bars, epoch, barsHash, scrape, ticks>>
      BY <1>5 DEF TickNotCaptured, bundle
    <2>2. LoopsOK'
      BY <2>1, TimeIs DEF LoopsOK, IdleTick
    <2>3. EpochsOK' /\ StoreOK'
      BY <2>1 DEF EpochsOK, HashOf, StoreOK
    <2> QED
      BY <2>2, <2>3
  <1>6. CASE FsyncLoop
    <2>1. up /\ store' = Sync(store) /\ UNCHANGED <<barsFiles, clock, up, rings, memory, bars, epoch, barsHash, scrape, tick, ticks>>
      BY <1>6 DEF FsyncLoop, OnlyStore, process, count
    <2>2. Writing(store')
      BY <2>1, SyncKeeps DEF StoreOK
    <2> QED
      BY <2>1, <2>2 DEF LoopsOK, EpochsOK, HashOf, StoreOK
  <1>7. CASE DiskFails
    <2>1. up /\ store' = Latch(store) /\ UNCHANGED <<barsFiles, clock, up, rings, memory, bars, epoch, barsHash, scrape, tick, ticks>>
      BY <1>7 DEF DiskFails, process
    <2>2. Writing(store')
      BY <2>1, LatchKeeps DEF StoreOK
    <2> QED
      BY <2>1, <2>2 DEF LoopsOK, EpochsOK, HashOf, StoreOK
  <1>8. CASE CloseCapture
    <2>1. up /\ store' = Close(store) /\ UNCHANGED <<barsFiles, clock, up, rings, memory, bars, epoch, barsHash, scrape, tick, ticks>>
      BY <1>8 DEF CloseCapture, OnlyStore, process, count
    <2>2. Writing(store')
      BY <2>1, CloseKeeps DEF StoreOK
    <2> QED
      BY <2>1, <2>2 DEF LoopsOK, EpochsOK, HashOf, StoreOK
  <1>9. CASE Crash
    <2>1. PICK n \in CanSurvive(store) : store' = Dead(store, n)
      BY <1>9 DEF Crash
    <2>2. up /\ Down
      BY <1>9 DEF Crash
    <2>3. FilesOK(store')
      BY <2>1, <2>2, DeadKeeps DEF StoreOK
    <2> QED
      BY <2>2, <2>3, DownKeeps
  <1>10. CASE CrashWhileSealing
    <2>1. up /\ store.seg # None /\ OpenName(store) \notin DOMAIN store.sealed /\ store' = DeadWhileSealing(store) /\ Down
      BY <1>10 DEF CrashWhileSealing
    <2>2. FilesOK(store')
      BY <2>1, DeadWhileSealingKeeps DEF StoreOK
    <2> QED
      BY <2>1, <2>2, DownKeeps
  <1>11. CASE Restart
    <2>1. /\ ~ up /\ up' = TRUE /\ ~ Refused(store) /\ store' = Recovered(store)
          /\ epoch' = NewestEpoch /\ barsHash' = HashOf(NewestEpoch)
          /\ UNCHANGED <<barsFiles, clock, rings, memory, bars, scrape, tick, ticks>>
      BY <1>11 DEF Restart
    <2>2. Writing(store')
      BY <2>1, RecoveredKeeps DEF StoreOK
    <2>3. PICK n \in Nat : barsFiles \in [1 .. n -> Bars]
      BY DEF EpochsOK
    <2>4. NewestEpoch = n
      BY <2>3, NewestEpochIs
    <2>5. EpochsOK'
      BY <2>1, <2>3, <2>4 DEF EpochsOK, HashOf
    <2>6. LoopsOK' /\ StoreOK'
      BY <2>1, <2>2 DEF LoopsOK, StoreOK
    <2> QED
      BY <2>5, <2>6
  <1>12. CASE UNCHANGED vars
    BY <1>12 DEF LoopsOK, EpochsOK, HashOf, StoreOK, vars, process, count
  <1> QED
    BY <1>1, <1>2, <1>3, <1>4, <1>5, <1>6, <1>7, <1>8, <1>9, <1>10, <1>11, <1>12 DEF Next

LEMMA CaptureInvAlways == Spec => []CaptureInv
  <1> QED
    BY CaptureInit, CaptureKeeps, PTL DEF Spec

LEMMA InvIsSound == CaptureInv => SegmentsSound
  <1> SUFFICES ASSUME CaptureInv PROVE SegmentsSound
    OBVIOUS
  <1>1. FilesOK(store)
    BY DEF CaptureInv, StoreOK, Writing
  <1>2. Cardinality(DOMAIN store.active) <= 1
    <2>1. PICK s : DOMAIN store.active \subseteq {s}
      BY <1>1 DEF FilesOK
    <2>2. IsFiniteSet({s}) /\ Cardinality({s}) = 1
      BY FS_Singleton
    <2>3. Cardinality(DOMAIN store.active) <= Cardinality({s})
      BY <2>1, <2>2, FS_Subset
    <2> QED
      BY <2>2, <2>3
  <1>3. rings \in [Stream -> UNION {[1 .. n -> 0 .. MaxTime] : n \in 0 .. HotCapacity}]
    <2>1. rings \in [Stream -> Seq(Time)]
      BY DEF CaptureInv, LoopsOK, Rings
    <2>2. \A s \in Stream : rings[s] \in [1 .. Len(rings[s]) -> Time] /\ Len(rings[s]) \in 0 .. HotCapacity
      <3> SUFFICES ASSUME NEW s \in Stream PROVE rings[s] \in [1 .. Len(rings[s]) -> Time] /\ Len(rings[s]) \in 0 .. HotCapacity
        OBVIOUS
      <3>1. rings[s] \in Seq(Time) /\ Len(rings[s]) <= HotCapacity
        BY <2>1 DEF CaptureInv, LoopsOK, Rings
      <3> QED
        BY <3>1, LenProperties, CaptureAssumption DEF CaptureAssumption
    <2> QED
      BY <2>1, <2>2 DEF Time
  <1>4. memory \in 0 .. MaxTicks /\ bars \in Bars \cup {None}
    BY CaptureAssumption DEF CaptureInv, LoopsOK, CaptureAssumption
  <1>5. DOMAIN barsFiles = 1 .. NewestEpoch /\ (up => epoch = NewestEpoch)
    <2>1. PICK n \in Nat : barsFiles \in [1 .. n -> Bars] /\ (up => epoch = n)
      BY DEF CaptureInv, EpochsOK
    <2> QED
      BY <2>1, NewestEpochIs
  <1>6. DefinedBeforeUsed
    BY <1>1 DEF FilesOK, DefinedBeforeUsed
  <1>7. \A n \in DOMAIN store.sealed : n[1] % SegmentDuration = 0 /\ n[1] <= n[2] /\ n[2] <= MaxTime
    BY <1>1 DEF FilesOK, NameOK
  <1> QED
    BY <1>1, <1>2, <1>3, <1>4, <1>5, <1>6, <1>7 DEF SegmentsSound, CaptureTypeOK, FilesOK

\* Whatever a roll, a failed write, a crash in the middle of a seal or a recovery leaves in
\* the directory can be read back: one file at most is not sealed, its name is a window's
\* start, what is synced of it is a prefix, and no file has a sample before its stream's
\* definition (internal/qss/warm.go).
THEOREM SegmentsAreSound == Spec => []SegmentsSound
  <1> QED
    BY CaptureInvAlways, InvIsSound, PTL

-----------------------------------------------------------------------------
(* Functions computed along a sequence.                                    *)

Stepped(h, n, S, a, step) ==
    h \in [0 .. n -> S] /\ h[0] = a /\ \A i \in 1 .. n : h[i] = step[i][h[i - 1]]

LEMMA StepsExist ==
    ASSUME NEW n \in Nat, NEW S, NEW a \in S, NEW step \in [1 .. n -> [S -> S]]
    PROVE  \E h : Stepped(h, n, S, a, step)
  <1> DEFINE Good(h, k) == /\ h \in [0 .. k -> S] /\ h[0] = a
                           /\ \A i \in 1 .. k : h[i] = step[i][h[i - 1]]
             T == {k \in Nat : k > n \/ \E h : Good(h, k)}
  <1>1. 0 \in T
    <2>1. Good([i \in 0 .. 0 |-> a], 0)
      OBVIOUS
    <2> QED
      BY <2>1
  <1>2. ASSUME NEW k \in Nat, k \in T PROVE k + 1 \in T
    <2>1. CASE k + 1 > n
      BY <2>1
    <2>2. CASE k + 1 <= n
      <3>1. PICK h : Good(h, k)
        BY <1>2, <2>2
      <3> DEFINE g == [i \in 0 .. (k + 1) |-> IF i = k + 1 THEN step[k + 1][h[k]] ELSE h[i]]
      <3>2. h[k] \in S /\ step[k + 1] \in [S -> S]
        BY <2>2, <3>1
      <3>3. step[k + 1][h[k]] \in S
        BY <3>2
      <3>4. g \in [0 .. (k + 1) -> S] /\ g[0] = a
        BY <3>1, <3>3
      <3>5. ASSUME NEW i \in 1 .. (k + 1) PROVE g[i] = step[i][g[i - 1]]
        <4>1. CASE i = k + 1
          BY <4>1
        <4>2. CASE i # k + 1
          <5>1. i \in 1 .. k /\ g[i] = h[i] /\ g[i - 1] = h[i - 1]
            BY <4>2
          <5> QED
            BY <3>1, <5>1
        <4> QED
          BY <4>1, <4>2
      <3>6. Good(g, k + 1)
        BY <3>4, <3>5
      <3> HIDE DEF g, Good
      <3>7. \E x : Good(x, k + 1)
        BY <3>6
      <3> QED
        BY <3>7
    <2> QED
      BY <2>1, <2>2
  <1> HIDE DEF T
  <1>3. n \in T
    BY <1>1, <1>2, NatInductive
  <1> QED
    BY <1>3 DEF T, Stepped

\* Two functions that begin and go on alike.
Alike(g, h, m) == g[0] = h[0] /\ \A i \in 1 .. m : g[i - 1] = h[i - 1] => g[i] = h[i]

LEMMA StepsUnique ==
    ASSUME NEW m \in Nat, NEW g, NEW h, Alike(g, h, m)
    PROVE  \A i \in 0 .. m : g[i] = h[i]
  <1> DEFINE T == {k \in Nat : k \in 0 .. m => g[k] = h[k]}
  <1>1. 0 \in T
    BY DEF Alike
  <1>2. ASSUME NEW k \in Nat, k \in T PROVE k + 1 \in T
    <2> SUFFICES ASSUME k + 1 \in 0 .. m PROVE g[k + 1] = h[k + 1]
      OBVIOUS
    <2>1. k + 1 \in 1 .. m /\ (k + 1) - 1 = k /\ k \in 0 .. m
      OBVIOUS
    <2>2. g[k] = h[k]
      BY <1>2, <2>1
    <2> QED
      BY <2>1, <2>2 DEF Alike
  <1> HIDE DEF T
  <1>3. Nat \subseteq T
    BY <1>1, <1>2, NatInductive
  <1> QED
    BY <1>3 DEF T

LEMMA ConcatAppend ==
    ASSUME NEW S, NEW q \in Seq(S), NEW p \in Seq(S), NEW f \in S
    PROVE  q \o Append(p, f) = Append(q \o p, f)
  <1>1. Append(p, f) = p \o <<f>> /\ <<f>> \in Seq(S)
    BY AppendIsConcat
  <1>2. q \o p \in Seq(S)
    BY ConcatProperties
  <1>3. Append(q \o p, f) = (q \o p) \o <<f>>
    BY <1>2, AppendIsConcat
  <1> QED
    BY <1>1, <1>3, ConcatAssociative

\* The entries of a file, frame after frame.
LEMMA EntriesFold ==
    ASSUME NEW q \in Seq(Frame)
    PROVE  \E h \in [0 .. Len(q) -> Seq(Frame)] :
               /\ h[0] = << >> /\ Entries(q) = h[Len(q)]
               /\ \A i \in 1 .. Len(q) : h[i] = IF q[i].kind = "def" THEN h[i - 1] ELSE Append(h[i - 1], q[i])
  <1> DEFINE S == Seq(Frame)
             n == Len(q)
             step == [i \in 1 .. n |-> [x \in S |-> IF q[i].kind = "def" THEN x ELSE Append(x, q[i])]]
             F(h) == [i \in 0 .. n |->
                        IF i = 0 THEN << >>
                        ELSE IF q[i].kind = "def" THEN h[i - 1] ELSE Append(h[i - 1], q[i])]
  <1>1. n \in Nat /\ << >> \in S /\ \A i \in 1 .. n : q[i] \in Frame
    BY LenProperties, EmptySeq, ElementOfSeq
  <1>2. step \in [1 .. n -> [S -> S]]
    <2>1. \A i \in 1 .. n : \A x \in S : Append(x, q[i]) \in S
      BY <1>1, AppendProperties
    <2> QED
      BY <2>1
  <1> HIDE DEF n
  <1>3. PICK h \in [0 .. n -> S] : h[0] = << >> /\ \A i \in 1 .. n : h[i] = step[i][h[i - 1]]
    <2> HIDE DEF step, S, F
    <2>1. \E h : Stepped(h, n, S, << >>, step)
      BY <1>1, <1>2, StepsExist
    <2> QED
      BY <2>1 DEF Stepped
  <1>4. \A i \in 1 .. n : h[i - 1] \in S /\ h[i] = IF q[i].kind = "def" THEN h[i - 1] ELSE Append(h[i - 1], q[i])
    <2> SUFFICES ASSUME NEW i \in 1 .. n
                 PROVE  h[i - 1] \in S /\ h[i] = IF q[i].kind = "def" THEN h[i - 1] ELSE Append(h[i - 1], q[i])
      OBVIOUS
    <2>1. i - 1 \in 0 .. n
      BY <1>1
    <2>2. h[i - 1] \in S
      BY <2>1
    <2>3. step[i] = [x \in S |-> IF q[i].kind = "def" THEN x ELSE Append(x, q[i])]
      OBVIOUS
    <2> QED
      BY <1>3, <2>2, <2>3
  <1>5. h = F(h)
    <2>1. \A i \in 0 .. n : h[i] = F(h)[i]
      <3> SUFFICES ASSUME NEW i \in 0 .. n PROVE h[i] = F(h)[i]
        OBVIOUS
      <3>1. i = 0 \/ i \in 1 .. n
        BY <1>1
      <3> QED
        BY <1>3, <1>4, <3>1
    <2>2. h = [i \in 0 .. n |-> h[i]] /\ F(h) = [i \in 0 .. n |-> F(h)[i]]
      OBVIOUS
    <2> HIDE DEF F
    <2> QED
      BY <2>1, <2>2
  <1> DEFINE kept == CHOOSE g : g = F(g)
  <1>6. Entries(q) = kept[n]
    BY DEF Entries, n
  <1>7. kept = F(kept)
    <2> HIDE DEF F
    <2> QED
      BY <1>5
  <1> HIDE DEF kept
  <1>8. kept[0] = << >> /\ \A i \in 1 .. n : kept[i] = IF q[i].kind = "def" THEN kept[i - 1] ELSE Append(kept[i - 1], q[i])
    <2>1. \A i \in 0 .. n : kept[i] = F(kept)[i]
      BY <1>7
    <2> QED
      BY <1>1, <2>1
  <1>9. \A i \in 0 .. n : kept[i] = h[i]
    <2>1. Alike(kept, h, n)
      BY <1>3, <1>4, <1>8 DEF Alike
    <2> QED
      BY <1>1, <2>1, StepsUnique
  <1>10. Entries(q) = h[n]
    BY <1>1, <1>6, <1>9
  <1> QED
    BY <1>3, <1>4, <1>10 DEF n

LEMMA EntriesIs ==
    ASSUME NEW q \in Seq(Frame)
    PROVE  /\ Entries(q) \in Seq(Frame) /\ Len(Entries(q)) <= Len(q)
           /\ \A f \in Frame : Entries(Append(q, f)) = IF f.kind = "def" THEN Entries(q) ELSE Append(Entries(q), f)
  <1>1. Len(q) \in Nat
    BY LenProperties
  <1>2. PICK h \in [0 .. Len(q) -> Seq(Frame)] :
               /\ h[0] = << >> /\ Entries(q) = h[Len(q)]
               /\ \A i \in 1 .. Len(q) : h[i] = IF q[i].kind = "def" THEN h[i - 1] ELSE Append(h[i - 1], q[i])
    BY EntriesFold
  <1>3. Entries(q) \in Seq(Frame)
    BY <1>1, <1>2
  <1>4. Len(Entries(q)) <= Len(q)
    <2> DEFINE T == {k \in Nat : k \in 0 .. Len(q) => Len(h[k]) <= k}
    <2>1. 0 \in T
      BY <1>2, EmptySeq
    <2>2. ASSUME NEW k \in Nat, k \in T PROVE k + 1 \in T
      <3> SUFFICES ASSUME k + 1 \in 0 .. Len(q) PROVE Len(h[k + 1]) <= k + 1
        OBVIOUS
      <3>1. k + 1 \in 1 .. Len(q) /\ (k + 1) - 1 = k /\ k \in 0 .. Len(q)
        BY <1>1
      <3>2. q[k + 1] \in Frame /\ h[k] \in Seq(Frame) /\ Len(h[k]) <= k
        BY <2>2, <3>1, ElementOfSeq
      <3>3. Len(h[k]) \in Nat /\ Len(Append(h[k], q[k + 1])) = Len(h[k]) + 1
        BY <3>2, LenProperties, AppendProperties
      <3>4. h[k + 1] = h[k] \/ h[k + 1] = Append(h[k], q[k + 1])
        BY <1>2, <3>1
      <3> QED
        BY <3>2, <3>3, <3>4
    <2> HIDE DEF T
    <2>3. Len(q) \in T
      BY <1>1, <2>1, <2>2, NatInductive
    <2> QED
      BY <1>1, <1>2, <2>3 DEF T
  <1>5. ASSUME NEW f \in Frame
        PROVE  Entries(Append(q, f)) = IF f.kind = "def" THEN Entries(q) ELSE Append(Entries(q), f)
    <2> DEFINE r == Append(q, f)
    <2>1. r \in Seq(Frame) /\ Len(r) = Len(q) + 1 /\ r[Len(q) + 1] = f /\ \A i \in 1 .. Len(q) : r[i] = q[i]
      BY AppendProperties
    <2> HIDE DEF r
    <2>2. PICK g \in [0 .. Len(r) -> Seq(Frame)] :
               /\ g[0] = << >> /\ Entries(r) = g[Len(r)]
               /\ \A i \in 1 .. Len(r) : g[i] = IF r[i].kind = "def" THEN g[i - 1] ELSE Append(g[i - 1], r[i])
      BY <2>1, EntriesFold
    <2>3. Alike(g, h, Len(q))
      BY <1>1, <1>2, <2>1, <2>2 DEF Alike
    <2>4. g[Len(q)] = h[Len(q)]
      BY <1>1, <2>3, StepsUnique
    <2>5. Len(r) \in 1 .. Len(r) /\ Len(r) - 1 = Len(q)
      BY <1>1, <2>1
    <2>6. g[Len(r)] = IF f.kind = "def" THEN g[Len(q)] ELSE Append(g[Len(q)], f)
      BY <2>1, <2>2, <2>5
    <2> QED
      BY <1>2, <2>2, <2>4, <2>6 DEF r
  <1> QED
    BY <1>3, <1>4, <1>5

LEMMA EntriesOfNone == Entries(<< >>) = << >>
  <1>1. << >> \in Seq(Frame) /\ Len(<< >>) = 0
    BY EmptySeq
  <1>2. PICK h \in [0 .. 0 -> Seq(Frame)] : h[0] = << >> /\ Entries(<< >>) = h[0]
    BY <1>1, EntriesFold
  <1> QED
    BY <1>2

LEMMA EntriesConcat ==
    ASSUME NEW q \in Seq(Frame), NEW r \in Seq(Frame)
    PROVE  Entries(q \o r) = Entries(q) \o Entries(r)
  <1> DEFINE T == {k \in Nat : \A s \in Seq(Frame) : Len(s) = k => Entries(q \o s) = Entries(q) \o Entries(s)}
  <1>1. Entries(q) \in Seq(Frame)
    BY EntriesIs
  <1>2. 0 \in T
    <2> SUFFICES ASSUME NEW s \in Seq(Frame), Len(s) = 0 PROVE Entries(q \o s) = Entries(q) \o Entries(s)
      OBVIOUS
    <2>1. s = << >>
      BY EmptySeq
    <2> QED
      BY <1>1, <2>1, EntriesOfNone, ConcatEmptySeq
  <1>3. ASSUME NEW k \in Nat, k \in T PROVE k + 1 \in T
    <2> SUFFICES ASSUME NEW s \in Seq(Frame), Len(s) = k + 1 PROVE Entries(q \o s) = Entries(q) \o Entries(s)
      OBVIOUS
    <2>1. s # << >>
      BY EmptySeq
    <2>2. PICK p \in Seq(Frame), f \in Frame : s = Append(p, f)
      BY <2>1, SequenceEmptyOrAppend
    <2>3. Len(p) = k
      BY <2>2, AppendProperties, LenProperties
    <2>4. Entries(q \o p) = Entries(q) \o Entries(p) /\ Entries(p) \in Seq(Frame) /\ q \o p \in Seq(Frame)
      BY <1>3, <2>3, EntriesIs, ConcatProperties
    <2>5. q \o s = Append(q \o p, f)
      BY <2>2, <2>4, ConcatAppend
    <2>6. Entries(q \o s) = IF f.kind = "def" THEN Entries(q \o p) ELSE Append(Entries(q \o p), f)
      BY <2>4, <2>5, EntriesIs
    <2>7. Entries(s) = IF f.kind = "def" THEN Entries(p) ELSE Append(Entries(p), f)
      BY <2>2, EntriesIs
    <2>8. Entries(q) \o Append(Entries(p), f) = Append(Entries(q) \o Entries(p), f)
      BY <1>1, <2>4, ConcatAppend
    <2> QED
      BY <2>4, <2>6, <2>7, <2>8
  <1> HIDE DEF T
  <1>4. Len(r) \in T
    BY <1>2, <1>3, NatInductive, LenProperties
  <1> QED
    BY <1>4 DEF T

\* The files laid end to end.
LEMMA FlattenFold ==
    ASSUME NEW ss \in Seq(Seq(Frame))
    PROVE  \E h \in [0 .. Len(ss) -> Seq(Frame)] :
               /\ h[0] = << >> /\ FlattenSeq(ss) = h[Len(ss)]
               /\ \A i \in 1 .. Len(ss) : h[i] = h[i - 1] \o ss[i]
  <1> DEFINE S == Seq(Frame)
             n == Len(ss)
             step == [i \in 1 .. n |-> [x \in S |-> x \o ss[i]]]
             F(g) == [i \in 1 .. n |-> IF i = 1 THEN ss[i] ELSE g[i - 1] \o ss[i]]
  <1>1. n \in Nat /\ << >> \in S /\ \A i \in 1 .. n : ss[i] \in S
    BY LenProperties, EmptySeq, ElementOfSeq
  <1>2. step \in [1 .. n -> [S -> S]]
    <2>1. \A i \in 1 .. n : \A x \in S : x \o ss[i] \in S
      BY <1>1, ConcatProperties
    <2> QED
      BY <2>1
  <1> HIDE DEF n
  <1>3. PICK h \in [0 .. n -> S] : h[0] = << >> /\ \A i \in 1 .. n : h[i] = step[i][h[i - 1]]
    <2> HIDE DEF step, S, F
    <2>1. \E h : Stepped(h, n, S, << >>, step)
      BY <1>1, <1>2, StepsExist
    <2> QED
      BY <2>1 DEF Stepped
  <1>4. \A i \in 1 .. n : h[i - 1] \in S /\ h[i] = h[i - 1] \o ss[i]
    <2> SUFFICES ASSUME NEW i \in 1 .. n PROVE h[i - 1] \in S /\ h[i] = h[i - 1] \o ss[i]
      OBVIOUS
    <2>1. i - 1 \in 0 .. n
      BY <1>1
    <2>2. h[i - 1] \in S
      BY <2>1
    <2>3. step[i] = [x \in S |-> x \o ss[i]]
      OBVIOUS
    <2> QED
      BY <1>3, <2>2, <2>3
  <1>5. CASE n = 0
    <2>1. ss = << >> /\ FlattenSeq(ss) = ss
      BY <1>5, EmptySeq DEF FlattenSeq, n
    <2>2. FlattenSeq(ss) = h[n]
      BY <1>3, <1>5, <2>1
    <2> QED
      BY <1>3, <1>4, <2>2 DEF n
  <1>6. CASE n # 0
    <2> DEFINE k == [i \in 1 .. n |-> h[i]]
    <2>1. k = F(k)
      <3>1. \A i \in 1 .. n : k[i] = F(k)[i]
        <4> SUFFICES ASSUME NEW i \in 1 .. n PROVE k[i] = F(k)[i]
          OBVIOUS
        <4>1. F(k)[i] = IF i = 1 THEN ss[i] ELSE k[i - 1] \o ss[i]
          OBVIOUS
        <4>2. k[i] = h[i] /\ (i # 1 => k[i - 1] = h[i - 1])
          BY <1>1
        <4> HIDE DEF F, k
        <4>3. h[i] = h[i - 1] \o ss[i]
          BY <1>4
        <4>4. i = 1 => h[i - 1] \o ss[i] = ss[i]
          <5>1. i = 1 => h[i - 1] = << >>
            BY <1>3
          <5>2. << >> \o ss[i] = ss[i]
            BY <1>1, ConcatEmptySeq
          <5> QED
            BY <5>1, <5>2
        <4> QED
          BY <4>1, <4>2, <4>3, <4>4
      <3>2. k = [i \in 1 .. n |-> k[i]] /\ F(k) = [i \in 1 .. n |-> F(k)[i]]
        OBVIOUS
      <3> HIDE DEF F, k
      <3> QED
        BY <3>1, <3>2
    <2> HIDE DEF k
    <2> DEFINE flat == CHOOSE g : g = F(g)
    <2>2. FlattenSeq(ss) = flat[n]
      BY <1>6 DEF FlattenSeq, n
    <2>3. flat = F(flat)
      <3> HIDE DEF F
      <3> QED
        BY <2>1
    <2> HIDE DEF flat
    <2>4. \A i \in 1 .. n : flat[i] = IF i = 1 THEN ss[i] ELSE flat[i - 1] \o ss[i]
      <3>1. \A i \in 1 .. n : flat[i] = F(flat)[i]
        BY <2>3
      <3> QED
        BY <3>1
    <2> DEFINE from == [i \in 0 .. n |-> IF i = 0 THEN << >> ELSE flat[i]]
    <2>5. \A i \in 1 .. n : from[i - 1] = h[i - 1] => from[i] = h[i]
      <3> SUFFICES ASSUME NEW i \in 1 .. n, from[i - 1] = h[i - 1] PROVE from[i] = h[i]
        OBVIOUS
      <3>1. from[i] = flat[i] /\ (i # 1 => from[i - 1] = flat[i - 1])
        BY <1>1
      <3> HIDE DEF from
      <3>2. flat[i] = IF i = 1 THEN ss[i] ELSE flat[i - 1] \o ss[i]
        BY <2>4
      <3>3. h[i] = h[i - 1] \o ss[i]
        BY <1>4
      <3>4. i = 1 => h[i - 1] \o ss[i] = ss[i]
        <4>1. i = 1 => h[i - 1] = << >>
          BY <1>3
        <4>2. << >> \o ss[i] = ss[i]
          BY <1>1, ConcatEmptySeq
        <4> QED
          BY <4>1, <4>2
      <3> QED
        BY <3>1, <3>2, <3>3, <3>4
    <2>6. from[0] = h[0] /\ from[n] = flat[n]
      BY <1>1, <1>3, <1>6
    <2> HIDE DEF from
    <2>7. Alike(from, h, n)
      BY <2>5, <2>6 DEF Alike
    <2>8. from[n] = h[n]
      BY <1>1, <2>7, StepsUnique
    <2> QED
      BY <1>3, <1>4, <2>2, <2>6, <2>8 DEF n
  <1> QED
    BY <1>5, <1>6

LEMMA FlattenIs ==
    ASSUME NEW ss \in Seq(Seq(Frame))
    PROVE  /\ FlattenSeq(ss) \in Seq(Frame)
           /\ \A x \in Seq(Frame) : FlattenSeq(Append(ss, x)) = FlattenSeq(ss) \o x
  <1>1. Len(ss) \in Nat
    BY LenProperties
  <1>2. PICK h \in [0 .. Len(ss) -> Seq(Frame)] :
               /\ h[0] = << >> /\ FlattenSeq(ss) = h[Len(ss)]
               /\ \A i \in 1 .. Len(ss) : h[i] = h[i - 1] \o ss[i]
    BY FlattenFold
  <1>3. FlattenSeq(ss) \in Seq(Frame)
    BY <1>1, <1>2
  <1>4. ASSUME NEW x \in Seq(Frame) PROVE FlattenSeq(Append(ss, x)) = FlattenSeq(ss) \o x
    <2> DEFINE r == Append(ss, x)
    <2>1. r \in Seq(Seq(Frame)) /\ Len(r) = Len(ss) + 1 /\ r[Len(ss) + 1] = x /\ \A i \in 1 .. Len(ss) : r[i] = ss[i]
      BY AppendProperties
    <2> HIDE DEF r
    <2>2. PICK g \in [0 .. Len(r) -> Seq(Frame)] :
               /\ g[0] = << >> /\ FlattenSeq(r) = g[Len(r)]
               /\ \A i \in 1 .. Len(r) : g[i] = g[i - 1] \o r[i]
      BY <2>1, FlattenFold
    <2>3. Alike(g, h, Len(ss))
      <3>1. ASSUME NEW i \in 1 .. Len(ss), g[i - 1] = h[i - 1] PROVE g[i] = h[i]
        <4>1. i \in 1 .. Len(r)
          BY <1>1, <2>1
        <4>2. g[i] = g[i - 1] \o r[i] /\ r[i] = ss[i] /\ h[i] = h[i - 1] \o ss[i]
          BY <1>2, <2>1, <2>2, <4>1
        <4> QED
          BY <3>1, <4>2
      <3> QED
        BY <1>2, <2>2, <3>1 DEF Alike
    <2>4. g[Len(ss)] = h[Len(ss)]
      <3>1. \A i \in 0 .. Len(ss) : g[i] = h[i]
        BY <1>1, <2>3, StepsUnique, Zenon
      <3> QED
        BY <1>1, <3>1
    <2>5. Len(r) \in 1 .. Len(r) /\ Len(r) - 1 = Len(ss)
      BY <1>1, <2>1
    <2>6. g[Len(r)] = g[Len(ss)] \o x
      BY <2>1, <2>2, <2>5
    <2> QED
      BY <1>2, <2>2, <2>4, <2>6 DEF r
  <1> QED
    BY <1>3, <1>4

LEMMA FlattenOfNone == FlattenSeq(<< >>) = << >>
  <1>1. << >> \in Seq(Seq(Frame)) /\ Len(<< >>) = 0
    BY EmptySeq
  <1> QED
    BY <1>1 DEF FlattenSeq

LEMMA FramesConcat ==
    ASSUME NEW a \in Seq(Frame), NEW b \in Seq(Frame), NEW c \in Seq(Frame)
    PROVE  /\ a \o (b \o c) = (a \o b) \o c
           /\ a \o b \in Seq(Frame) /\ Len(a \o b) = Len(a) + Len(b) /\ Len(a) \in Nat /\ Len(b) \in Nat
           /\ a \o << >> = a /\ << >> \o a = a
  <1>1. (a \o b) \o c = a \o (b \o c)
    BY ConcatAssociative
  <1>2. a \o b \in Seq(Frame) /\ Len(a \o b) = Len(a) + Len(b)
    BY ConcatProperties
  <1>3. a \o << >> = a /\ << >> \o a = a
    BY ConcatEmptySeq
  <1> QED
    BY <1>1, <1>2, <1>3, LenProperties

LEMMA FlattenConcat ==
    ASSUME NEW q \in Seq(Seq(Frame)), NEW r \in Seq(Seq(Frame))
    PROVE  FlattenSeq(q \o r) = FlattenSeq(q) \o FlattenSeq(r)
  <1> DEFINE T == {k \in Nat : \A s \in Seq(Seq(Frame)) : Len(s) = k => FlattenSeq(q \o s) = FlattenSeq(q) \o FlattenSeq(s)}
  <1>1. FlattenSeq(q) \in Seq(Frame)
    BY FlattenIs
  <1>2. 0 \in T
    <2> SUFFICES ASSUME NEW s \in Seq(Seq(Frame)), Len(s) = 0 PROVE FlattenSeq(q \o s) = FlattenSeq(q) \o FlattenSeq(s)
      OBVIOUS
    <2>1. s = << >>
      BY EmptySeq
    <2>2. q \o s = q
      BY <2>1, ConcatEmptySeq
    <2>3. FlattenSeq(q) \o << >> = FlattenSeq(q)
      BY <1>1, ConcatEmptySeq
    <2> QED
      BY <2>1, <2>2, <2>3, FlattenOfNone
  <1>3. ASSUME NEW k \in Nat, k \in T PROVE k + 1 \in T
    <2> SUFFICES ASSUME NEW s \in Seq(Seq(Frame)), Len(s) = k + 1 PROVE FlattenSeq(q \o s) = FlattenSeq(q) \o FlattenSeq(s)
      OBVIOUS
    <2>1. s # << >>
      BY EmptySeq
    <2>2. PICK p \in Seq(Seq(Frame)), x \in Seq(Frame) : s = Append(p, x)
      BY <2>1, SequenceEmptyOrAppend
    <2>3. Len(p) = k
      BY <2>2, AppendProperties, LenProperties
    <2>4. FlattenSeq(q \o p) = FlattenSeq(q) \o FlattenSeq(p) /\ FlattenSeq(p) \in Seq(Frame) /\ q \o p \in Seq(Seq(Frame))
      BY <1>3, <2>3, FlattenIs, ConcatProperties
    <2>5. q \o s = Append(q \o p, x)
      BY <2>2, <2>4, ConcatAppend
    <2>6. FlattenSeq(q \o s) = FlattenSeq(q \o p) \o x
      BY <2>4, <2>5, FlattenIs
    <2>7. FlattenSeq(s) = FlattenSeq(p) \o x
      BY <2>2, FlattenIs
    <2>8. FlattenSeq(q) \o (FlattenSeq(p) \o x) = (FlattenSeq(q) \o FlattenSeq(p)) \o x
      BY <1>1, <2>2, <2>4, FramesConcat
    <2> QED
      BY <2>4, <2>6, <2>7, <2>8
  <1> HIDE DEF T
  <1>4. Len(r) \in T
    BY <1>2, <1>3, NatInductive, LenProperties
  <1> QED
    BY <1>4 DEF T

-----------------------------------------------------------------------------
(* The order of the sealed segments.                                       *)

LEMMA PrecedesIs ==
    ASSUME NEW a \in Name, NEW b \in Name
    PROVE  /\ a[1] \in Nat /\ a[2] \in Nat
           /\ ~ Precedes(a, a)
           /\ Precedes(a, b) => ~ Precedes(b, a)
           /\ a # b => Precedes(a, b) \/ Precedes(b, a)
  <1>1. a[1] \in Nat /\ a[2] \in Nat /\ b[1] \in Nat /\ b[2] \in Nat /\ a = <<a[1], a[2]>> /\ b = <<b[1], b[2]>>
    BY DEF Name
  <1>2. a # b => a[1] # b[1] \/ a[2] # b[2]
    BY <1>1
  <1> QED
    BY <1>1, <1>2 DEF Precedes

\* q lists the names of N in their order.
Listed(q, N) ==
    /\ q \in Seq(Name)
    /\ \A i, j \in 1 .. Len(q) : i < j => Precedes(q[i], q[j])
    /\ \A n : n \in N <=> \E i \in 1 .. Len(q) : n = q[i]

LEMMA CountIs ==
    ASSUME NEW n \in Nat, NEW T, NEW f \in [1 .. n -> T],
           \A i, j \in 1 .. n : f[i] = f[j] => i = j, \A t \in T : \E i \in 1 .. n : f[i] = t
    PROVE  Cardinality(T) = n
  <1>1. f \in Bijection(1 .. n, T)
    BY DEF Bijection, Injection, Surjection, IsInjective
  <1>2. ExistsBijection(1 .. n, T)
    BY <1>1 DEF ExistsBijection
  <1> QED
    BY <1>2, FS_CountingElements

LEMMA ListIs ==
    ASSUME NEW st, NEW q, Listed(q, DOMAIN st.sealed)
    PROVE  ListSegments(st) = q
  <1> DEFINE N == DOMAIN st.sealed
             n == Len(q)
             rank(x) == Cardinality({m \in N : Precedes(m, x)})
  <1>1. q \in Seq(Name) /\ n \in Nat /\ q = [i \in 1 .. n |-> q[i]] /\ \A i \in 1 .. n : q[i] \in Name
    BY LenProperties, ElementOfSeq DEF Listed
  <1>2. \A i, j \in 1 .. n : (i < j <=> Precedes(q[i], q[j])) /\ (q[i] = q[j] => i = j)
    <2> SUFFICES ASSUME NEW i \in 1 .. n, NEW j \in 1 .. n
                 PROVE  (i < j <=> Precedes(q[i], q[j])) /\ (q[i] = q[j] => i = j)
      OBVIOUS
    <2>1. q[i] \in Name /\ q[j] \in Name
      BY <1>1
    <2>2. /\ ~ Precedes(q[i], q[i]) /\ ~ Precedes(q[j], q[j])
          /\ Precedes(q[i], q[j]) => ~ Precedes(q[j], q[i])
      BY <2>1, PrecedesIs
    <2>3. (i < j => Precedes(q[i], q[j])) /\ (j < i => Precedes(q[j], q[i]))
      BY DEF Listed
    <2> QED
      BY <2>2, <2>3
  <1>3. \A x : x \in N <=> \E i \in 1 .. n : x = q[i]
    BY DEF Listed
  <1> HIDE DEF n, N
  <1>4. Cardinality(N) = n
    <2>1. [i \in 1 .. n |-> q[i]] \in [1 .. n -> N]
      BY <1>3
    <2> DEFINE f == [i \in 1 .. n |-> q[i]]
    <2>2. \A i, j \in 1 .. n : f[i] = f[j] => i = j
      BY <1>2
    <2>3. \A t \in N : \E i \in 1 .. n : f[i] = t
      BY <1>3
    <2> HIDE DEF f
    <2>4. f \in [1 .. n -> N]
      BY <2>1 DEF f
    <2> QED
      BY <1>1, <2>2, <2>3, <2>4, CountIs
  <1>5. ASSUME NEW i \in 1 .. n PROVE rank(q[i]) = i - 1
    <2> DEFINE T == {m \in N : Precedes(m, q[i])}
               f == [j \in 1 .. (i - 1) |-> q[j]]
    <2>1. i - 1 \in Nat /\ \A j \in 1 .. (i - 1) : j \in 1 .. n /\ j < i
      BY <1>1
    <2>2. f \in [1 .. (i - 1) -> T]
      BY <1>2, <1>3, <2>1
    <2>3. \A j, k \in 1 .. (i - 1) : f[j] = f[k] => j = k
      BY <1>2, <2>1
    <2>4. \A t \in T : \E j \in 1 .. (i - 1) : f[j] = t
      <3> SUFFICES ASSUME NEW t \in T PROVE \E j \in 1 .. (i - 1) : f[j] = t
        OBVIOUS
      <3>1. PICK j \in 1 .. n : t = q[j]
        BY <1>3
      <3>2. j < i
        BY <1>2, <3>1
      <3>3. j \in 1 .. (i - 1)
        BY <1>1, <3>2
      <3> QED
        BY <3>1, <3>3
    <2> HIDE DEF f, T
    <2>5. Cardinality(T) = i - 1
      BY <2>1, <2>2, <2>3, <2>4, CountIs
    <2> QED
      BY <2>5 DEF T
  <1> HIDE DEF rank
  <1>6. ASSUME NEW i \in 1 .. n PROVE (CHOOSE x \in N : rank(x) = i - 1) = q[i]
    <2>1. q[i] \in N /\ rank(q[i]) = i - 1
      BY <1>3, <1>5
    <2>2. \A x \in N : rank(x) = i - 1 => x = q[i]
      <3> SUFFICES ASSUME NEW x \in N, rank(x) = i - 1 PROVE x = q[i]
        OBVIOUS
      <3>1. PICK k \in 1 .. n : x = q[k]
        BY <1>3
      <3>2. rank(x) = k - 1
        BY <1>5, <3>1
      <3>3. k = i
        BY <1>1, <3>2
      <3> QED
        BY <3>1, <3>3
    <2> QED
      BY <2>1, <2>2
  <1>7. ListSegments(st) = [i \in 1 .. n |-> CHOOSE x \in N : rank(x) = i - 1]
    BY <1>4 DEF ListSegments, N, rank
  <1> QED
    BY <1>1, <1>6, <1>7

FilesOf(q, S) == [i \in 1 .. Len(q) |-> S[q[i]]]

LEMMA FilesOfIs ==
    ASSUME NEW S \in Files(Name), NEW q \in Seq(Name), \A i \in 1 .. Len(q) : q[i] \in DOMAIN S
    PROVE  /\ FilesOf(q, S) \in Seq(Seq(Frame)) /\ Len(FilesOf(q, S)) = Len(q)
           /\ \A i \in 1 .. Len(q) : FilesOf(q, S)[i] = S[q[i]]
  <1>1. Len(q) \in Nat /\ \A i \in 1 .. Len(q) : S[q[i]] \in Seq(Frame)
    BY LenProperties, FilesAre
  <1>2. FilesOf(q, S) \in [1 .. Len(q) -> Seq(Frame)]
    BY <1>1 DEF FilesOf
  <1>3. FilesOf(q, S) \in Seq(Seq(Frame)) /\ DOMAIN FilesOf(q, S) = 1 .. Len(q)
    BY <1>1, <1>2
  <1>4. Len(FilesOf(q, S)) = Len(q)
    BY <1>1, <1>3, LenProperties
  <1> QED
    BY <1>3, <1>4 DEF FilesOf

LEMMA SealedFramesIs ==
    ASSUME NEW st, st.sealed \in Files(Name), NEW q, Listed(q, DOMAIN st.sealed)
    PROVE  SealedFrames(st) = FlattenSeq(FilesOf(q, st.sealed)) /\ SealedFrames(st) \in Seq(Frame)
           /\ FilesOf(q, st.sealed) \in Seq(Seq(Frame))
  <1>1. q \in Seq(Name) /\ DOMAIN q = 1 .. Len(q) /\ \A i \in 1 .. Len(q) : q[i] \in DOMAIN st.sealed
    BY LenProperties DEF Listed
  <1>2. ListSegments(st) = q
    BY ListIs
  <1>3. SealedFrames(st) = FlattenSeq([i \in DOMAIN q |-> st.sealed[q[i]]])
    BY <1>2 DEF SealedFrames
  <1>4. SealedFrames(st) = FlattenSeq(FilesOf(q, st.sealed))
    BY <1>1, <1>3 DEF FilesOf
  <1>5. FilesOf(q, st.sealed) \in Seq(Seq(Frame))
    BY <1>1, FilesOfIs
  <1> QED
    BY <1>4, <1>5, FlattenIs

\* One more segment, after all others.
LEMMA ListedMore ==
    ASSUME NEW N, NEW q, Listed(q, N), NEW k \in Name, \A n \in N : Precedes(n, k),
           NEW M, \A n : n \in M <=> n \in N \/ n = k
    PROVE  Listed(Append(q, k), M)
  <1> DEFINE r == Append(q, k)
  <1>1. q \in Seq(Name) /\ Len(q) \in Nat
    BY LenProperties DEF Listed
  <1>2. r \in Seq(Name) /\ Len(r) = Len(q) + 1 /\ r[Len(q) + 1] = k /\ \A i \in 1 .. Len(q) : r[i] = q[i]
    BY <1>1, AppendProperties
  <1> HIDE DEF r
  <1>3. \A i, j \in 1 .. Len(r) : i < j => Precedes(r[i], r[j])
    <2> SUFFICES ASSUME NEW i \in 1 .. Len(r), NEW j \in 1 .. Len(r), i < j PROVE Precedes(r[i], r[j])
      OBVIOUS
    <2>1. i \in 1 .. Len(q) /\ r[i] = q[i] /\ q[i] \in N
      BY <1>1, <1>2 DEF Listed
    <2>2. CASE j \in 1 .. Len(q)
      BY <1>2, <2>1, <2>2 DEF Listed
    <2>3. CASE j = Len(q) + 1
      BY <1>2, <2>1, <2>3
    <2> QED
      BY <1>1, <1>2, <2>2, <2>3
  <1>4. \A n : n \in M <=> \E i \in 1 .. Len(r) : n = r[i]
    <2> SUFFICES ASSUME NEW n PROVE n \in M <=> \E i \in 1 .. Len(r) : n = r[i]
      OBVIOUS
    <2>1. n \in N <=> \E i \in 1 .. Len(q) : n = q[i]
      BY DEF Listed
    <2>2. Len(q) + 1 \in 1 .. Len(r) /\ \A i \in 1 .. Len(q) : i \in 1 .. Len(r)
      BY <1>1, <1>2
    <2>3. \A i \in 1 .. Len(r) : i = Len(q) + 1 \/ i \in 1 .. Len(q)
      BY <1>1, <1>2
    <2> QED
      BY <1>2, <2>1, <2>2, <2>3
  <1> QED
    BY <1>2, <1>3, <1>4 DEF r, Listed

\* The segments that retention deletes come before all it keeps.
Trimmed(q, N, M) ==
    \E a, b \in Seq(Name) : q = a \o b /\ Listed(b, M) /\ \A i \in 1 .. Len(a) : a[i] \in N

LEMMA ListedFewer ==
    ASSUME NEW N, NEW q, Listed(q, N), NEW M, M \subseteq N,
           \A m \in M : \A n \in N : Precedes(m, n) => n \in M
    PROVE  Trimmed(q, N, M)
  <1> DEFINE d == MaxOf({0} \cup {i \in 1 .. Len(q) : q[i] \notin M})
             D == {0} \cup {i \in 1 .. Len(q) : q[i] \notin M}
  <1>1. q \in Seq(Name) /\ Len(q) \in Nat /\ \A i \in 1 .. Len(q) : q[i] \in N /\ q[i] \in Name
    BY LenProperties, ElementOfSeq DEF Listed
  <1>2. d \in D /\ \A x \in D : x <= d
    <2>1. D \in SUBSET Nat /\ D # {} /\ \A x \in D : x <= Len(q)
      BY <1>1
    <2> HIDE DEF D
    <2>2. MaxOf(D) \in D /\ \A x \in D : x <= MaxOf(D)
      BY <1>1, <2>1, MaxOfIs
    <2> QED
      BY <2>2 DEF D
  <1> HIDE DEF d
  <1>3. d \in 0 .. Len(q) /\ (d # 0 => q[d] \notin M) /\ \A i \in 1 .. Len(q) : i > d => q[i] \in M
    <2>1. d \in 0 .. Len(q) /\ (d # 0 => q[d] \notin M)
      BY <1>1, <1>2
    <2>2. \A i \in 1 .. Len(q) : q[i] \notin M => i <= d
      BY <1>2
    <2> QED
      BY <1>1, <2>1, <2>2
  <1> HIDE DEF D
  <1>4. \A i \in 1 .. Len(q) : i <= d => q[i] \notin M
    <2> SUFFICES ASSUME NEW i \in 1 .. Len(q), i <= d, q[i] \in M PROVE FALSE
      OBVIOUS
    <2>1. d \in 1 .. Len(q) /\ q[d] \notin M
      BY <1>1, <1>3
    <2>2. i < d
      BY <1>3, <2>1
    <2>3. Precedes(q[i], q[d]) /\ q[d] \in N
      BY <1>1, <2>1, <2>2 DEF Listed
    <2> QED
      BY <2>1, <2>3
  <1> DEFINE a == SubSeq(q, 1, d)
             b == SubSeq(q, d + 1, Len(q))
  <1>5. a \in Seq(Name) /\ Len(a) = d /\ \A i \in 1 .. Len(a) : a[i] = q[i]
    <2>1. \A i \in 1 .. d : q[i] \in Name
      BY <1>1, <1>3
    <2> QED
      BY <1>3, <2>1, SubSeqProperties
  <1>6. b \in Seq(Name) /\ Len(b) = Len(q) - d /\ \A i \in 1 .. Len(b) : b[i] = q[d + i]
    <2>1. \A i \in (d + 1) .. Len(q) : q[i] \in Name
      BY <1>1, <1>3
    <2>2. b \in Seq(Name) /\ Len(b) = (IF d + 1 <= Len(q) THEN Len(q) - (d + 1) + 1 ELSE 0)
          /\ \A i \in 1 .. (Len(q) - (d + 1) + 1) : b[i] = q[(d + 1) + i - 1]
      BY <1>1, <1>3, <2>1, SubSeqProperties
    <2>3. Len(b) = Len(q) - d
      BY <1>1, <1>3, <2>2
    <2>4. \A i \in 1 .. Len(b) : i \in 1 .. (Len(q) - (d + 1) + 1) /\ (d + 1) + i - 1 = d + i
      BY <1>1, <1>3, <2>3
    <2> QED
      BY <2>2, <2>3, <2>4
  <1>7. q = a \o b
    <2>1. SubSeq(q, 1, d) \o SubSeq(q, d + 1, Len(q)) = SubSeq(q, 1, Len(q))
      <3>1. 1 \in 1 .. (Len(q) + 1) /\ d \in (1 - 1) .. Len(q) /\ Len(q) \in d .. Len(q)
        BY <1>1, <1>3
      <3> QED
        BY <1>1, <3>1, ConcatAdjacentSubSeq
    <2> QED
      BY <1>1, <2>1, SubSeqFull
  <1> HIDE DEF a, b
  <1>8. \A i \in 1 .. Len(b) : d + i \in 1 .. Len(q) /\ d + i > d
    BY <1>1, <1>3, <1>6
  <1>9. Listed(b, M)
    <2>1. \A i, j \in 1 .. Len(b) : i < j => Precedes(b[i], b[j])
      <3> SUFFICES ASSUME NEW i \in 1 .. Len(b), NEW j \in 1 .. Len(b), i < j PROVE Precedes(b[i], b[j])
        OBVIOUS
      <3>1. d + i < d + j /\ d + i \in 1 .. Len(q) /\ d + j \in 1 .. Len(q)
        BY <1>3, <1>8
      <3>2. Precedes(q[d + i], q[d + j])
        BY <3>1 DEF Listed
      <3> QED
        BY <1>6, <3>2
    <2>2. ASSUME NEW n, n \in M PROVE \E i \in 1 .. Len(b) : n = b[i]
      <3>1. PICK i \in 1 .. Len(q) : n = q[i]
        BY <2>2 DEF Listed
      <3>2. i > d
        BY <1>3, <1>4, <2>2, <3>1
      <3>3. i - d \in 1 .. Len(b) /\ d + (i - d) = i
        BY <1>1, <1>3, <1>6, <3>2
      <3>4. n = b[i - d]
        BY <1>6, <3>1, <3>3
      <3> QED
        BY <3>3, <3>4
    <2>3. ASSUME NEW n, NEW i \in 1 .. Len(b), n = b[i] PROVE n \in M
      <3>1. b[i] = q[d + i] /\ d + i \in 1 .. Len(q) /\ d + i > d
        BY <1>6, <1>8
      <3> QED
        BY <1>3, <2>3, <3>1
    <2> QED
      BY <1>6, <2>1, <2>2, <2>3 DEF Listed
  <1>10. \A i \in 1 .. Len(a) : a[i] \in N
    BY <1>1, <1>3, <1>5
  <1> QED
    BY <1>5, <1>6, <1>7, <1>9, <1>10 DEF Trimmed

LEMMA FilesOfMore ==
    ASSUME NEW S \in Files(Name), NEW q, Listed(q, DOMAIN S), NEW k \in Name, NEW x \in Seq(Frame),
           NEW R \in Files(Name), \A n : n \in DOMAIN R <=> n \in DOMAIN S \/ n = k,
           R[k] = x, \A n \in DOMAIN S : R[n] = S[n]
    PROVE  FilesOf(Append(q, k), R) = Append(FilesOf(q, S), x)
  <1> DEFINE r == Append(q, k)
  <1>1. q \in Seq(Name) /\ Len(q) \in Nat /\ \A i \in 1 .. Len(q) : q[i] \in DOMAIN S
    BY LenProperties DEF Listed
  <1>2. r \in Seq(Name) /\ Len(r) = Len(q) + 1 /\ r[Len(q) + 1] = k /\ \A i \in 1 .. Len(q) : r[i] = q[i]
    BY <1>1, AppendProperties
  <1> HIDE DEF r
  <1>3. /\ FilesOf(q, S) \in Seq(Seq(Frame)) /\ Len(FilesOf(q, S)) = Len(q)
        /\ \A i \in 1 .. Len(q) : FilesOf(q, S)[i] = S[q[i]]
    BY <1>1, FilesOfIs
  <1>4. \A i \in 1 .. Len(r) : r[i] \in DOMAIN R
    BY <1>1, <1>2
  <1>5. /\ FilesOf(r, R) \in Seq(Seq(Frame)) /\ Len(FilesOf(r, R)) = Len(r)
        /\ \A i \in 1 .. Len(r) : FilesOf(r, R)[i] = R[r[i]]
    BY <1>2, <1>4, FilesOfIs
  <1> DEFINE u == FilesOf(q, S)
             v == FilesOf(r, R)
             w == Append(u, x)
  <1>6. w \in Seq(Seq(Frame)) /\ Len(w) = Len(q) + 1 /\ w[Len(q) + 1] = x /\ \A i \in 1 .. Len(q) : w[i] = u[i]
    BY <1>3, AppendProperties
  <1> HIDE DEF u, v, w
  <1>7. \A i \in 1 .. Len(v) : v[i] = w[i]
    <2> SUFFICES ASSUME NEW i \in 1 .. Len(v) PROVE v[i] = w[i]
      OBVIOUS
    <2>1. CASE i = Len(q) + 1
      BY <1>2, <1>5, <1>6, <2>1 DEF v
    <2>2. CASE i \in 1 .. Len(q)
      BY <1>1, <1>2, <1>3, <1>5, <1>6, <2>2 DEF u, v
    <2> QED
      BY <1>1, <1>2, <1>5, <2>1, <2>2 DEF v
  <1>8. v = w
    BY <1>2, <1>5, <1>6, <1>7, SeqEqual DEF v
  <1> QED
    BY <1>8 DEF u, v, w, r

LEMMA FilesOfConcat ==
    ASSUME NEW S \in Files(Name), NEW a \in Seq(Name), NEW b \in Seq(Name),
           \A i \in 1 .. Len(a) : a[i] \in DOMAIN S, \A i \in 1 .. Len(b) : b[i] \in DOMAIN S
    PROVE  FilesOf(a \o b, S) = FilesOf(a, S) \o FilesOf(b, S)
  <1> DEFINE q == a \o b
             u == FilesOf(q, S)
             v == FilesOf(a, S)
             w == FilesOf(b, S)
             t == v \o w
  <1>1. Len(a) \in Nat /\ Len(b) \in Nat
    BY LenProperties
  <1>2. q \in Seq(Name) /\ Len(q) = Len(a) + Len(b)
        /\ \A i \in 1 .. Len(a) + Len(b) : q[i] = IF i <= Len(a) THEN a[i] ELSE b[i - Len(a)]
    BY ConcatProperties
  <1> HIDE DEF q
  <1>3. \A i \in 1 .. Len(q) : q[i] \in DOMAIN S
    <2> SUFFICES ASSUME NEW i \in 1 .. Len(q) PROVE q[i] \in DOMAIN S
      OBVIOUS
    <2>1. i <= Len(a) => i \in 1 .. Len(a)
      BY <1>1
    <2>2. ~(i <= Len(a)) => i - Len(a) \in 1 .. Len(b)
      BY <1>1, <1>2
    <2> QED
      BY <1>1, <1>2, <2>1, <2>2
  <1>4. u \in Seq(Seq(Frame)) /\ Len(u) = Len(q) /\ \A i \in 1 .. Len(q) : u[i] = S[q[i]]
    BY <1>2, <1>3, FilesOfIs
  <1>5. v \in Seq(Seq(Frame)) /\ Len(v) = Len(a) /\ \A i \in 1 .. Len(a) : v[i] = S[a[i]]
    BY FilesOfIs
  <1>6. w \in Seq(Seq(Frame)) /\ Len(w) = Len(b) /\ \A i \in 1 .. Len(b) : w[i] = S[b[i]]
    BY FilesOfIs
  <1> HIDE DEF u, v, w
  <1>7. t \in Seq(Seq(Frame)) /\ Len(t) = Len(v) + Len(w)
        /\ \A i \in 1 .. Len(v) + Len(w) : t[i] = IF i <= Len(v) THEN v[i] ELSE w[i - Len(v)]
    BY <1>5, <1>6, ConcatProperties
  <1> HIDE DEF t
  <1>8. \A i \in 1 .. Len(u) : u[i] = t[i]
    <2> SUFFICES ASSUME NEW i \in 1 .. Len(u) PROVE u[i] = t[i]
      OBVIOUS
    <2>1. CASE i <= Len(a)
      <3>1. i \in 1 .. Len(a) /\ i \in 1 .. Len(q) /\ i \in 1 .. Len(v) + Len(w)
        BY <1>1, <1>4, <1>5, <1>6, <1>2, <2>1
      <3>2. q[i] = a[i] /\ u[i] = S[q[i]] /\ t[i] = v[i] /\ v[i] = S[a[i]]
        BY <1>2, <1>4, <1>5, <1>7, <2>1, <3>1
      <3> QED
        BY <3>2
    <2>2. CASE ~(i <= Len(a))
      <3>1. i - Len(a) \in 1 .. Len(b)
        BY <1>1, <1>2, <1>4, <2>2
      <3>2. i \in 1 .. Len(q) /\ i \in 1 .. Len(v) + Len(w) /\ ~(i <= Len(v)) /\ i - Len(v) = i - Len(a)
        BY <1>1, <1>4, <1>5, <1>6, <1>2, <2>2
      <3>3. q[i] = b[i - Len(a)] /\ u[i] = S[q[i]] /\ t[i] = w[i - Len(a)] /\ w[i - Len(a)] = S[b[i - Len(a)]]
        <4>1. q[i] = b[i - Len(a)]
          BY <1>2, <2>2, <3>2
        <4>2. t[i] = w[i - Len(v)]
          BY <1>7, <3>2
        <4> QED
          BY <1>4, <1>6, <3>1, <3>2, <4>1, <4>2
      <3> QED
        BY <3>3
    <2> QED
      BY <2>1, <2>2
  <1>9. u = t
    BY <1>2, <1>4, <1>5, <1>6, <1>7, <1>8, SeqEqual
  <1> QED
    BY <1>9 DEF u, v, w, t, q

-----------------------------------------------------------------------------
(* The log of a store, and what DurableLog lets happen to it.              *)

ExtendRel(old, vol, new, after) ==
    \E forgotten \in 0 .. (Len(old) - vol) :
        LET added == Len(new) - (Len(old) - forgotten) IN
        /\ added \in 0 .. 2
        /\ IsPrefix(SubSeq(old, forgotten + 1, Len(old)), new)
        /\ after \in 0 .. (vol + added)

LoseRel(old, vol, new) == IsPrefix(new, old) /\ Len(old) - Len(new) <= vol

LEMMA PrefixIs ==
    ASSUME NEW a \in Seq(Frame), NEW b \in Seq(Frame)
    PROVE  IsPrefix(a, a \o b) /\ SubSeq(a \o b, Len(a) + 1, Len(a \o b)) = b
  <1> DEFINE q == a \o b
  <1>1. Len(a) \in Nat /\ Len(b) \in Nat
    BY LenProperties
  <1>2. q \in Seq(Frame) /\ Len(q) = Len(a) + Len(b)
        /\ \A i \in 1 .. Len(a) + Len(b) : q[i] = IF i <= Len(a) THEN a[i] ELSE b[i - Len(a)]
    BY ConcatProperties
  <1> HIDE DEF q
  <1>3. SubSeq(q, 1, Len(a)) = a
    <2>1. \A i \in 1 .. Len(a) : q[i] \in Frame
      BY <1>1, <1>2, ElementOfSeq
    <2>2. /\ SubSeq(q, 1, Len(a)) \in Seq(Frame)
          /\ Len(SubSeq(q, 1, Len(a))) = (IF 1 <= Len(a) THEN Len(a) - 1 + 1 ELSE 0)
          /\ \A i \in 1 .. (Len(a) - 1 + 1) : SubSeq(q, 1, Len(a))[i] = q[1 + i - 1]
      BY <1>1, <2>1, SubSeqProperties
    <2> DEFINE p == SubSeq(q, 1, Len(a))
    <2>3. p \in Seq(Frame) /\ Len(p) = Len(a)
      BY <1>1, <2>2
    <2>4. \A i \in 1 .. Len(p) : p[i] = a[i]
      BY <1>1, <1>2, <2>2, <2>3
    <2> HIDE DEF p
    <2>5. p = a
      BY <2>3, <2>4, SeqEqual
    <2> QED
      BY <2>5 DEF p
  <1>4. SubSeq(a, 1, Len(a)) = a
    BY SubSeqFull
  <1>5. IsPrefix(a, q)
    BY <1>1, <1>2, <1>3, <1>4 DEF IsPrefix
  <1>6. SubSeq(q, Len(a) + 1, Len(q)) = b
    <2> DEFINE p == SubSeq(q, Len(a) + 1, Len(q))
    <2>1. \A i \in (Len(a) + 1) .. Len(q) : q[i] \in Frame
      BY <1>1, <1>2, ElementOfSeq
    <2>2. /\ p \in Seq(Frame)
          /\ Len(p) = (IF Len(a) + 1 <= Len(q) THEN Len(q) - (Len(a) + 1) + 1 ELSE 0)
          /\ \A i \in 1 .. (Len(q) - (Len(a) + 1) + 1) : p[i] = q[(Len(a) + 1) + i - 1]
      BY <1>1, <1>2, <2>1, SubSeqProperties
    <2> HIDE DEF p
    <2>3. Len(p) = Len(b)
      BY <1>1, <1>2, <2>2
    <2>4. \A i \in 1 .. Len(p) : p[i] = b[i]
      <3> SUFFICES ASSUME NEW i \in 1 .. Len(p) PROVE p[i] = b[i]
        OBVIOUS
      <3>1. i \in 1 .. (Len(q) - (Len(a) + 1) + 1) /\ (Len(a) + 1) + i - 1 = Len(a) + i
            /\ Len(a) + i \in 1 .. Len(a) + Len(b) /\ ~(Len(a) + i <= Len(a)) /\ (Len(a) + i) - Len(a) = i
        BY <1>1, <1>2, <2>3
      <3>2. p[i] = q[Len(a) + i]
        BY <2>2, <3>1
      <3>3. q[Len(a) + i] = b[(Len(a) + i) - Len(a)]
        BY <1>2, <3>1
      <3> QED
        BY <3>1, <3>2, <3>3
    <2>5. p = b
      BY <2>2, <2>3, <2>4, SeqEqual
    <2> QED
      BY <2>5 DEF p
  <1> QED
    BY <1>5, <1>6 DEF q

LEMMA Extends ==
    ASSUME NEW a \in Seq(Frame), NEW b \in Seq(Frame), NEW c \in Seq(Frame), Len(c) <= 2,
           NEW vol \in Nat, vol <= Len(b), NEW after \in Nat, after <= vol + Len(c)
    PROVE  ExtendRel(a \o b, vol, b \o c, after)
  <1> DEFINE old == a \o b
             new == b \o c
  <1>1. Len(a) \in Nat /\ Len(b) \in Nat /\ Len(c) \in Nat
    BY LenProperties
  <1>2. Len(old) = Len(a) + Len(b) /\ Len(new) = Len(b) + Len(c)
    BY ConcatProperties
  <1>3. SubSeq(old, Len(a) + 1, Len(old)) = b /\ IsPrefix(b, new)
    BY PrefixIs
  <1> HIDE DEF old, new
  <1>4. Len(a) \in 0 .. (Len(old) - vol) /\ Len(new) - (Len(old) - Len(a)) = Len(c)
    BY <1>1, <1>2
  <1>5. ExtendRel(old, vol, new, after)
    <2>1. Len(c) \in 0 .. 2 /\ after \in 0 .. (vol + Len(c))
      <3> DEFINE l == Len(c)
      <3>1. l \in Nat /\ l <= 2 /\ after <= vol + l
        BY <1>1
      <3> HIDE DEF l
      <3>2. l \in 0 .. 2 /\ after \in 0 .. (vol + l)
        BY <3>1
      <3> QED
        BY <3>2 DEF l
    <2>2. \E forgotten \in 0 .. (Len(old) - vol) :
            /\ Len(new) - (Len(old) - forgotten) \in 0 .. 2
            /\ IsPrefix(SubSeq(old, forgotten + 1, Len(old)), new)
            /\ after \in 0 .. (vol + (Len(new) - (Len(old) - forgotten)))
      <3> SUFFICES /\ Len(a) \in 0 .. (Len(old) - vol)
                   /\ Len(new) - (Len(old) - Len(a)) \in 0 .. 2
                   /\ IsPrefix(SubSeq(old, Len(a) + 1, Len(old)), new)
                   /\ after \in 0 .. (vol + (Len(new) - (Len(old) - Len(a))))
        OBVIOUS
      <3>1. Len(new) - (Len(old) - Len(a)) \in 0 .. 2 /\ after \in 0 .. (vol + (Len(new) - (Len(old) - Len(a))))
        BY <1>4, <2>1
      <3>2. IsPrefix(SubSeq(old, Len(a) + 1, Len(old)), new)
        BY <1>3
      <3> QED
        BY <1>4, <3>1, <3>2
    <2> QED
      BY <2>2 DEF ExtendRel
  <1> QED
    BY <1>5 DEF old, new

LEMMA Loses ==
    ASSUME NEW a \in Seq(Frame), NEW b \in Seq(Frame), NEW vol \in Nat, Len(b) <= vol
    PROVE  LoseRel(a \o b, vol, a)
  <1>1. Len(a) \in Nat /\ Len(b) \in Nat /\ Len(a \o b) = Len(a) + Len(b) /\ IsPrefix(a, a \o b)
    BY LenProperties, ConcatProperties, PrefixIs
  <1> QED
    BY <1>1 DEF LoseRel

LEMMA Split ==
    ASSUME NEW q \in Seq(Frame), NEW k \in 0 .. Len(q)
    PROVE  /\ SubSeq(q, 1, k) \in Seq(Frame) /\ SubSeq(q, k + 1, Len(q)) \in Seq(Frame)
           /\ SubSeq(q, 1, k) \o SubSeq(q, k + 1, Len(q)) = q
  <1>1. Len(q) \in Nat /\ \A i \in 1 .. Len(q) : q[i] \in Frame
    BY LenProperties, ElementOfSeq
  <1>2. SubSeq(q, 1, k) \in Seq(Frame)
    <2>1. \A i \in 1 .. k : q[i] \in Frame
      BY <1>1
    <2> QED
      BY <1>1, <2>1, SubSeqProperties
  <1>3. SubSeq(q, k + 1, Len(q)) \in Seq(Frame)
    <2>1. \A i \in (k + 1) .. Len(q) : q[i] \in Frame
      BY <1>1
    <2> QED
      BY <1>1, <2>1, SubSeqProperties
  <1>4. SubSeq(q, 1, k) \o SubSeq(q, k + 1, Len(q)) = SubSeq(q, 1, Len(q))
    <2>1. 1 \in 1 .. (Len(q) + 1) /\ k \in (1 - 1) .. Len(q) /\ Len(q) \in k .. Len(q)
      BY <1>1
    <2> QED
      BY <1>1, <2>1, ConcatAdjacentSubSeq
  <1> QED
    BY <1>2, <1>3, <1>4, SubSeqFull

LEMMA OpenFramesIs ==
    ASSUME NEW st, FilesOK(st)
    PROVE  /\ OpenFrames(st) \in Seq(Frame)
           /\ st.linked \/ DOMAIN st.active = {} => OpenFrames(st) = << >>
           /\ ~ st.linked => \A s \in DOMAIN st.active : OpenFrames(st) = st.active[s]
  <1>1. CASE st.linked \/ DOMAIN st.active = {}
    BY <1>1, DefinedEmpty DEF OpenFrames
  <1>2. CASE ~(st.linked \/ DOMAIN st.active = {})
    <2> DEFINE s == CHOOSE x \in DOMAIN st.active : TRUE
    <2>1. s \in DOMAIN st.active /\ \A x \in DOMAIN st.active : x = s
      BY <1>2 DEF FilesOK
    <2>2. OpenFrames(st) = st.active[s]
      BY <1>2 DEF OpenFrames
    <2> HIDE DEF s
    <2>3. st.active[s] \in Seq(Frame)
      BY <2>1, FilesAre DEF FilesOK
    <2> QED
      BY <1>2, <2>1, <2>2, <2>3
  <1> QED
    BY <1>1, <1>2

LEMMA VolatileIs ==
    ASSUME NEW st, FilesOK(st)
    PROVE  /\ VolatileEntries(st) \in Nat /\ VolatileEntries(st) <= Len(Entries(OpenFrames(st)))
           /\ st.linked \/ DOMAIN st.active = {} => VolatileEntries(st) = 0
           /\ ~ st.linked => /\ st.synced \in 0 .. Len(OpenFrames(st))
                             /\ VolatileEntries(st) = Len(Entries(OpenFrames(st))) - Len(Entries(SubSeq(OpenFrames(st), 1, st.synced)))
                             /\ st.synced = Len(OpenFrames(st)) => VolatileEntries(st) = 0
  <1> DEFINE q == OpenFrames(st)
             k == st.synced
  <1>1. q \in Seq(Frame) /\ Len(q) \in Nat /\ Entries(q) \in Seq(Frame) /\ Len(Entries(q)) \in Nat
    BY OpenFramesIs, EntriesIs, LenProperties
  <1>2. VolatileEntries(st) = Len(Entries(SubSeq(q, k + 1, Len(q))))
    BY DEF VolatileEntries
  <1>3. CASE st.linked
    <2>1. q = << >> /\ Len(q) = 0
      BY <1>3, OpenFramesIs, EmptySeq
    <2>2. k \in Nat
      <3>1. CASE DOMAIN st.active = {}
        BY <3>1 DEF FilesOK
      <3>2. CASE DOMAIN st.active # {}
        <4>1. PICK s \in DOMAIN st.active : k \in 0 .. Len(st.active[s]) /\ st.active[s] \in Seq(Frame)
          BY <3>2, FilesAre DEF FilesOK
        <4>2. Len(st.active[s]) \in Nat
          BY <4>1, LenProperties
        <4> QED
          BY <4>1, <4>2
      <3> QED
        BY <3>1, <3>2
    <2> HIDE DEF q, k
    <2>3. SubSeq(q, k + 1, Len(q)) = << >>
      BY <2>1, <2>2, SubSeqEmpty
    <2>4. VolatileEntries(st) = 0
      BY <1>2, <2>3, EntriesOfNone, EmptySeq
    <2> QED
      BY <1>1, <1>3, <2>4 DEF q
  <1>4. CASE ~ st.linked
    <2>1. k \in 0 .. Len(q)
      <3>1. CASE DOMAIN st.active = {}
        <4>1. q = << >> /\ k = 0
          BY <3>1, OpenFramesIs DEF FilesOK
        <4> QED
          BY <1>1, <4>1
      <3>2. CASE DOMAIN st.active # {}
        <4>1. PICK s \in DOMAIN st.active : k \in 0 .. Len(st.active[s])
          BY <3>2 DEF FilesOK
        <4>2. q = st.active[s]
          BY <1>4, OpenFramesIs
        <4> QED
          BY <4>1, <4>2
      <3> QED
        BY <3>1, <3>2
    <2> DEFINE a == SubSeq(q, 1, k)
               b == SubSeq(q, k + 1, Len(q))
    <2> HIDE DEF q, k
    <2>2. a \in Seq(Frame) /\ b \in Seq(Frame) /\ a \o b = q
      BY <1>1, <2>1, Split
    <2> HIDE DEF a, b
    <2>3. Entries(q) = Entries(a) \o Entries(b) /\ Entries(a) \in Seq(Frame) /\ Entries(b) \in Seq(Frame)
      BY <2>2, EntriesConcat, EntriesIs
    <2>4. Len(Entries(q)) = Len(Entries(a)) + Len(Entries(b)) /\ Len(Entries(a)) \in Nat /\ Len(Entries(b)) \in Nat
      BY <2>3, ConcatProperties, LenProperties
    <2>5. VolatileEntries(st) = Len(Entries(b))
      BY <1>2 DEF b
    <2>6. k = Len(q) => Len(Entries(b)) = 0
      <3>1. k = Len(q) => b = << >>
        BY <1>1, SubSeqEmpty DEF b
      <3> QED
        BY <3>1, EntriesOfNone, EmptySeq
    <2>7. DOMAIN st.active = {} => k = Len(q)
      BY <1>1, <2>1, OpenFramesIs, EmptySeq DEF q, FilesOK, k
    <2>8. VolatileEntries(st) = Len(Entries(q)) - Len(Entries(a)) /\ VolatileEntries(st) <= Len(Entries(q))
      BY <2>4, <2>5
    <2> QED
      BY <1>4, <2>1, <2>4, <2>5, <2>6, <2>7, <2>8 DEF q, k, a
  <1> QED
    BY <1>3, <1>4

Ordered(st) == \E q : Listed(q, DOMAIN st.sealed)

LEMMA LogIs ==
    ASSUME NEW st, FilesOK(st), Ordered(st)
    PROVE  /\ SealedFrames(st) \in Seq(Frame) /\ Entries(SealedFrames(st)) \in Seq(Frame)
           /\ Entries(OpenFrames(st)) \in Seq(Frame) /\ EntryLog(st) \in Seq(Frame)
           /\ EntryLog(st) = Entries(SealedFrames(st)) \o Entries(OpenFrames(st))
           /\ VolatileEntries(st) <= Len(EntryLog(st))
  <1>1. PICK q : Listed(q, DOMAIN st.sealed)
    BY DEF Ordered
  <1>2. SealedFrames(st) \in Seq(Frame) /\ OpenFrames(st) \in Seq(Frame)
    BY <1>1, SealedFramesIs, OpenFramesIs DEF FilesOK
  <1> DEFINE a == SealedFrames(st)
             b == OpenFrames(st)
  <1>3. EntryLog(st) = Entries(a \o b)
    BY DEF EntryLog
  <1> HIDE DEF a, b
  <1>4. a \in Seq(Frame) /\ b \in Seq(Frame)
    BY <1>2 DEF a, b
  <1>5. EntryLog(st) = Entries(a) \o Entries(b) /\ Entries(a) \in Seq(Frame) /\ Entries(b) \in Seq(Frame)
    BY <1>3, <1>4, EntriesConcat, EntriesIs
  <1>6. EntryLog(st) \in Seq(Frame) /\ Len(EntryLog(st)) = Len(Entries(a)) + Len(Entries(b))
        /\ Len(Entries(a)) \in Nat /\ Len(Entries(b)) \in Nat
    BY <1>5, ConcatProperties, LenProperties
  <1>7. VolatileEntries(st) \in Nat /\ VolatileEntries(st) <= Len(Entries(b))
    BY VolatileIs DEF b
  <1> QED
    BY <1>4, <1>5, <1>6, <1>7 DEF a, b

-----------------------------------------------------------------------------
(* What keeps the sealed segments in the order they were written: a file   *)
(* ends after every sealed segment, or begins a run after they ended.      *)

Behind(n, s, q) ==
    \/ n[2] < s
    \/ q # << >> /\ q[1].kind = "run" /\ n[1] <= s /\ n[2] <= q[1].recv

Ends(names) == \A m, n \in names : Precedes(m, n) => m[2] <= n[2]

AfterSealed(st) ==
    \A s \in DOMAIN st.active : st.seg # None \/ st.active[s] # << >> =>
        \A n \in DOMAIN st.sealed : Behind(n, s, st.active[s])

\* The name the open file will be sealed under is the one its frames give; the run has begun with it.
Stamped(st) ==
    st.seg # None => /\ st.active[st.seg] # << >> /\ st.lastRecv = NewestRecv(st.active[st.seg])
                     /\ st.lastRecv < st.seg + SegmentDuration
                     /\ ~ st.runStartPending

LogOK(st) ==
    /\ Ordered(st) /\ Ends(DOMAIN st.sealed)
    /\ ~ st.linked => AfterSealed(st)
    /\ st.linked => \A s \in Leftover(st) : RecoveredName(st, s) \in DOMAIN st.sealed
    /\ Stamped(st)

\* No stamp in the directory is later than t.
Until(st, t) ==
    /\ \A n \in DOMAIN st.sealed : n[2] <= t
    /\ \A s \in DOMAIN st.active : s <= t /\ NewestRecv(st.active[s]) <= t

\* A writer that has no file yet begins a run, after all that is sealed.
MayOpen(st, recv) ==
    st.seg = None /\ ~ Refuses(st) => st.runStartPending /\ \A n \in DOMAIN st.sealed : n[2] <= recv

LEMMA WindowAfter ==
    ASSUME NEW recv \in Nat, NEW s \in Nat, s % SegmentDuration = 0, s <= recv
    PROVE  s <= WindowStart(recv)
  <1> DEFINE d == SegmentDuration
             w == WindowStart(recv)
             p == s \div d
             q == w \div d
             dq == d * q
             dp == d * p
  <1>1. d \in Nat \ {0}
    BY WarmAssumption DEF WarmAssumption
  <1>2. w \in Nat /\ w % d = 0 /\ recv < w + d
    BY WindowIs
  <1>3. s % d = 0
    OBVIOUS
  <1> HIDE DEF d, w
  <1>4. s = d * p + (s % d) /\ p \in Int
    BY <1>1, SMTT(20)
  <1>5. w = d * q + (w % d) /\ q \in Int
    BY <1>1, <1>2, SMTT(20)
  <1> HIDE DEF p, q
  <1>6. dq \in Int /\ dp \in Int
    BY <1>1, <1>4, <1>5
  <1>7. dq < dp => dq + d <= dp
    BY <1>1, <1>4, <1>5, NextMultiple
  <1>8. s = dp + (s % d) /\ w = dq + (w % d)
    BY <1>4, <1>5
  <1> HIDE DEF dq, dp
  <1>9. s = dp /\ w = dq
    BY <1>2, <1>3, <1>6, <1>8
  <1>10. s <= w
    BY <1>1, <1>2, <1>6, <1>7, <1>9
  <1> QED
    BY <1>10 DEF w

LEMMA PrefixOfMore ==
    ASSUME NEW q \in Seq(Frame), NEW r \in Seq(Frame), NEW k \in 0 .. Len(q)
    PROVE  SubSeq(q \o r, 1, k) = SubSeq(q, 1, k)
  <1> DEFINE t == q \o r
             u == SubSeq(t, 1, k)
             v == SubSeq(q, 1, k)
  <1>1. Len(q) \in Nat /\ Len(r) \in Nat /\ k \in Nat
    BY LenProperties
  <1>2. t \in Seq(Frame) /\ Len(t) = Len(q) + Len(r)
        /\ \A i \in 1 .. Len(q) + Len(r) : t[i] = IF i <= Len(q) THEN q[i] ELSE r[i - Len(q)]
    BY ConcatProperties
  <1> HIDE DEF t
  <1>3. \A i \in 1 .. k : t[i] = q[i] /\ q[i] \in Frame /\ t[i] \in Frame
    BY <1>1, <1>2, ElementOfSeq
  <1>4. /\ u \in Seq(Frame) /\ Len(u) = (IF 1 <= k THEN k - 1 + 1 ELSE 0)
        /\ \A i \in 1 .. (k - 1 + 1) : u[i] = t[1 + i - 1]
    BY <1>1, <1>2, <1>3, SubSeqProperties
  <1>5. /\ v \in Seq(Frame) /\ Len(v) = (IF 1 <= k THEN k - 1 + 1 ELSE 0)
        /\ \A i \in 1 .. (k - 1 + 1) : v[i] = q[1 + i - 1]
    BY <1>1, <1>3, SubSeqProperties
  <1> HIDE DEF u, v
  <1>6. Len(u) = k /\ Len(v) = k
    BY <1>1, <1>4, <1>5
  <1>7. \A i \in 1 .. Len(u) : u[i] = v[i]
    BY <1>1, <1>3, <1>4, <1>5, <1>6
  <1>8. u = v
    BY <1>4, <1>5, <1>6, <1>7, SeqEqual
  <1> QED
    BY <1>8 DEF u, v, t

LEMMA NewestOfMore ==
    ASSUME NEW q \in Seq(Frame), NEW f \in Frame
    PROVE  /\ NewestRecv(q) \in Time
           /\ f.kind = "def" => NewestRecv(Append(q, f)) = NewestRecv(q)
           /\ f.kind # "def" => NewestRecv(Append(q, f)) = IF NewestRecv(q) < f.recv THEN f.recv ELSE NewestRecv(q)
  <1> DEFINE r == Append(q, f)
             N == NewestRecv(q)
             R == NewestRecv(r)
  <1>1. r \in Seq(Frame) /\ Len(q) \in Nat /\ Len(r) = Len(q) + 1 /\ r[Len(q) + 1] = f
        /\ \A i \in 1 .. Len(q) : r[i] = q[i]
    BY AppendProperties, LenProperties
  <1> HIDE DEF r
  <1>2. /\ N \in Time /\ \A i \in 1 .. Len(q) : q[i].kind # "def" => q[i].recv <= N
        /\ \A m \in Nat : (\A i \in 1 .. Len(q) : q[i].kind # "def" => q[i].recv <= m) => N <= m
    BY NewestRecvIs
  <1>3. /\ R \in Time /\ \A i \in 1 .. Len(r) : r[i].kind # "def" => r[i].recv <= R
        /\ \A m \in Nat : (\A i \in 1 .. Len(r) : r[i].kind # "def" => r[i].recv <= m) => R <= m
    BY <1>1, NewestRecvIs
  <1> HIDE DEF N, R
  <1>4. N \in Nat /\ R \in Nat /\ (f.kind # "def" => f.recv \in Nat)
    BY <1>2, <1>3, TimeIs, FrameIs
  <1>5. N <= R
    <2>1. \A i \in 1 .. Len(q) : i \in 1 .. Len(r) /\ r[i] = q[i]
      BY <1>1
    <2> QED
      BY <1>2, <1>3, <1>4, <2>1
  <1>6. f.kind # "def" => f.recv <= R
    <2>1. Len(q) + 1 \in 1 .. Len(r)
      BY <1>1
    <2> QED
      BY <1>1, <1>3, <2>1
  <1>7. \A i \in 1 .. Len(r) : (i = Len(q) + 1 /\ r[i] = f) \/ (i \in 1 .. Len(q) /\ r[i] = q[i])
    <2> SUFFICES ASSUME NEW i \in 1 .. Len(r) PROVE (i = Len(q) + 1 /\ r[i] = f) \/ (i \in 1 .. Len(q) /\ r[i] = q[i])
      OBVIOUS
    <2>1. i = Len(q) + 1 \/ i \in 1 .. Len(q)
      BY <1>1
    <2>2. CASE i = Len(q) + 1
      BY <1>1, <2>2
    <2>3. CASE i \in 1 .. Len(q)
      BY <1>1, <2>3
    <2> QED
      BY <2>1, <2>2, <2>3
  <1>8. CASE f.kind = "def"
    <2>1. \A i \in 1 .. Len(r) : r[i].kind # "def" => r[i].recv <= N
      BY <1>2, <1>7, <1>8
    <2>2. R <= N
      BY <1>3, <1>4, <2>1
    <2> QED
      BY <1>2, <1>4, <1>5, <1>8, <2>2 DEF N, R, r
  <1>9. CASE f.kind # "def"
    <2> DEFINE m == IF N < f.recv THEN f.recv ELSE N
    <2>1. m \in Nat /\ N <= m /\ f.recv <= m
      BY <1>4, <1>9
    <2>2. ASSUME NEW i \in 1 .. Len(r), r[i].kind # "def" PROVE r[i].recv <= m
      <3>1. CASE i = Len(q) + 1 /\ r[i] = f
        BY <2>1, <3>1
      <3>2. CASE i \in 1 .. Len(q) /\ r[i] = q[i]
        <4>1. q[i].recv <= N /\ q[i] \in Frame
          BY <1>2, <2>2, <3>2, ElementOfSeq
        <4>2. q[i].recv \in Nat
          BY <2>2, <3>2, <4>1, FrameIs, TimeIs
        <4> HIDE DEF m
        <4> QED
          BY <1>4, <2>1, <3>2, <4>1, <4>2
      <3> QED
        BY <1>7, <3>1, <3>2
    <2>3. m <= R
      BY <1>4, <1>5, <1>6, <1>9
    <2> HIDE DEF m
    <2>4. R <= m
      BY <1>3, <2>1, <2>2
    <2>5. R = m
      BY <1>4, <2>1, <2>3, <2>4
    <2> QED
      BY <1>2, <1>9, <2>5 DEF N, R, r, m
  <1> QED
    BY <1>8, <1>9

LEMMA NewestOfPrefix ==
    ASSUME NEW q \in Seq(Frame), Defined(q), NEW n \in 0 .. Len(q)
    PROVE  NewestRecv(SubSeq(q, 1, n)) <= NewestRecv(q)
  <1> DEFINE p == SubSeq(q, 1, n)
  <1>1. p \in Seq(Frame) /\ Len(p) = n /\ Len(q) \in Nat /\ \A i \in 1 .. n : p[i] = q[i]
    BY DefinedPrefix, LenProperties
  <1> HIDE DEF p
  <1>2. NewestRecv(q) \in Nat /\ \A i \in 1 .. Len(q) : q[i].kind # "def" => q[i].recv <= NewestRecv(q)
    BY NewestRecvIs, TimeIs
  <1>3. \A i \in 1 .. Len(p) : i \in 1 .. Len(q) /\ p[i] = q[i]
    BY <1>1
  <1>4. \A i \in 1 .. Len(p) : p[i].kind # "def" => p[i].recv <= NewestRecv(q)
    BY <1>2, <1>3
  <1>5. NewestRecv(p) <= NewestRecv(q)
    BY <1>1, <1>2, <1>4, NewestRecvIs
  <1> QED
    BY <1>5 DEF p

LEMMA BehindMore ==
    ASSUME NEW n, NEW s, NEW q \in Seq(Frame), Behind(n, s, q), NEW f \in Frame
    PROVE  Behind(n, s, Append(q, f))
  <1>1. Append(q, f) \in Seq(Frame) /\ Len(Append(q, f)) = Len(q) + 1 /\ Len(q) \in Nat
        /\ \A i \in 1 .. Len(q) : Append(q, f)[i] = q[i]
    BY AppendProperties, LenProperties
  <1>2. Append(q, f) # << >>
    BY <1>1, EmptySeq
  <1>3. q # << >> => 1 \in 1 .. Len(q)
    BY <1>1, EmptySeq
  <1> QED
    BY <1>1, <1>2, <1>3 DEF Behind

LEMMA BehindPrefix ==
    ASSUME NEW n, NEW s, NEW q \in Seq(Frame), Defined(q), Behind(n, s, q), NEW k \in 0 .. Len(q),
           SubSeq(q, 1, k) # << >>
    PROVE  Behind(n, s, SubSeq(q, 1, k))
  <1>1. SubSeq(q, 1, k) \in Seq(Frame) /\ Len(SubSeq(q, 1, k)) = k /\ \A i \in 1 .. k : SubSeq(q, 1, k)[i] = q[i]
    BY DefinedPrefix
  <1>2. k \in Nat /\ k # 0 /\ Len(q) \in Nat
    BY <1>1, EmptySeq, LenProperties
  <1>3. 1 \in 1 .. k
    BY <1>2
  <1> QED
    BY <1>1, <1>3 DEF Behind

\* A file that is not empty is sealed after all that its beginning came after.
LEMMA ComesAfter ==
    ASSUME NEW n, NameOK(n), NEW k, NameOK(k), n # k, NEW q \in Seq(Frame), Behind(n, k[1], q), NewestRecv(q) <= k[2]
    PROVE  Precedes(n, k) /\ n[2] <= k[2]
  <1>1. n \in Name /\ k \in Name /\ n[1] \in Nat /\ n[2] \in Nat /\ k[1] \in Nat /\ k[2] \in Nat
        /\ n[1] <= n[2] /\ k[1] <= k[2]
    BY DEF NameOK, Name
  <1>2. n[1] # k[1] \/ n[2] # k[2]
    BY <1>1 DEF Name
  <1>3. CASE n[2] < k[1]
    BY <1>1, <1>3 DEF Precedes
  <1>4. CASE q # << >> /\ q[1].kind = "run" /\ n[1] <= k[1] /\ n[2] <= q[1].recv
    <2>1. 1 \in 1 .. Len(q) /\ q[1] \in Frame
      BY <1>4, EmptySeq, LenProperties, ElementOfSeq
    <2>2. q[1].recv <= NewestRecv(q) /\ q[1].recv \in Nat /\ NewestRecv(q) \in Nat
      BY <1>4, <2>1, NewestRecvIs, FrameIs, TimeIs
    <2>3. n[2] <= k[2]
      BY <1>1, <1>4, <2>2
    <2> QED
      BY <1>1, <1>2, <1>4, <2>3 DEF Precedes
  <1> QED
    BY <1>3, <1>4 DEF Behind

-----------------------------------------------------------------------------
(* What each operation makes of the log.                                   *)

LEMMA SameFrames ==
    ASSUME NEW st, FilesOK(st), Ordered(st), NEW r, r.sealed = st.sealed
    PROVE  Ordered(r) /\ SealedFrames(r) = SealedFrames(st)
  <1>1. PICK q : Listed(q, DOMAIN st.sealed)
    BY DEF Ordered
  <1>2. st.sealed \in Files(Name) /\ r.sealed \in Files(Name) /\ Listed(q, DOMAIN r.sealed)
    BY <1>1 DEF FilesOK
  <1>3. SealedFrames(st) = FlattenSeq(FilesOf(q, st.sealed))
    BY <1>1, <1>2, SealedFramesIs
  <1>4. SealedFrames(r) = FlattenSeq(FilesOf(q, r.sealed))
    BY <1>2, SealedFramesIs
  <1>5. Ordered(r)
    BY <1>2 DEF Ordered
  <1> QED
    BY <1>3, <1>4, <1>5

LEMMA SameOpen ==
    ASSUME NEW st, FilesOK(st), NEW r, FilesOK(r), r.active = st.active, r.linked = st.linked
    PROVE  OpenFrames(r) = OpenFrames(st)
  <1>1. CASE st.linked \/ DOMAIN st.active = {}
    <2>1. OpenFrames(st) = << >>
      BY <1>1, OpenFramesIs
    <2>2. r.linked \/ DOMAIN r.active = {}
      BY <1>1
    <2>3. OpenFrames(r) = << >>
      BY <2>2, OpenFramesIs
    <2> QED
      BY <2>1, <2>3
  <1>2. CASE ~ (st.linked \/ DOMAIN st.active = {})
    <2>1. PICK s : s \in DOMAIN st.active
      BY <1>2
    <2>2. OpenFrames(st) = st.active[s]
      BY <1>2, <2>1, OpenFramesIs
    <2>3. ~ r.linked /\ s \in DOMAIN r.active
      BY <1>2, <2>1
    <2>4. OpenFrames(r) = r.active[s]
      BY <2>3, OpenFramesIs
    <2> QED
      BY <2>2, <2>4
  <1> QED
    BY <1>1, <1>2

\* An operation may forget the oldest entries and append the entries C.
Grows(st, r, C) ==
    \E A, B \in Seq(Frame) :
        /\ EntryLog(st) = A \o B /\ EntryLog(r) = B \o C /\ C \in Seq(Frame)
        /\ VolatileEntries(st) <= Len(B) /\ VolatileEntries(r) <= VolatileEntries(st) + Len(C)

Appends(st, r, C) ==
    /\ C \in Seq(Frame) /\ EntryLog(r) = EntryLog(st) \o C
    /\ VolatileEntries(r) <= VolatileEntries(st) + Len(C)

LEMMA AppendsGrows ==
    ASSUME NEW st, FilesOK(st), Ordered(st), NEW r, NEW C, Appends(st, r, C)
    PROVE  Grows(st, r, C)
  <1>1. EntryLog(st) \in Seq(Frame) /\ VolatileEntries(st) <= Len(EntryLog(st))
    BY LogIs
  <1>2. C \in Seq(Frame) /\ EntryLog(r) = EntryLog(st) \o C
        /\ VolatileEntries(r) <= VolatileEntries(st) + Len(C)
    BY DEF Appends
  <1>3. << >> \o EntryLog(st) = EntryLog(st) /\ << >> \in Seq(Frame)
    BY <1>1, FramesConcat, DefinedEmpty
  <1> QED
    BY <1>1, <1>2, <1>3 DEF Grows

LEMMA GrowsMore ==
    ASSUME NEW st, FilesOK(st), NEW m, FilesOK(m), NEW r, FilesOK(r), NEW C, NEW D,
           Grows(st, m, C), Appends(m, r, D)
    PROVE  Grows(st, r, C \o D)
  <1>1. PICK A \in Seq(Frame), B \in Seq(Frame) :
            /\ EntryLog(st) = A \o B /\ EntryLog(m) = B \o C /\ C \in Seq(Frame)
            /\ VolatileEntries(st) <= Len(B) /\ VolatileEntries(m) <= VolatileEntries(st) + Len(C)
    BY DEF Grows
  <1>2. D \in Seq(Frame) /\ EntryLog(r) = EntryLog(m) \o D
        /\ VolatileEntries(r) <= VolatileEntries(m) + Len(D)
    BY DEF Appends
  <1>3. A \in Seq(Frame) /\ B \in Seq(Frame) /\ C \in Seq(Frame) /\ D \in Seq(Frame)
    BY <1>1, <1>2
  <1> DEFINE E == C \o D
  <1>4. EntryLog(r) = B \o E /\ E \in Seq(Frame) /\ Len(E) = Len(C) + Len(D) /\ Len(C) \in Nat /\ Len(D) \in Nat
    <2>1. B \o (C \o D) = (B \o C) \o D
      BY <1>3, FramesConcat
    <2>2. C \o D \in Seq(Frame) /\ Len(C \o D) = Len(C) + Len(D) /\ Len(C) \in Nat /\ Len(D) \in Nat
      BY <1>3, FramesConcat
    <2>3. EntryLog(r) = B \o (C \o D)
      BY <1>1, <1>2, <2>1
    <2> QED
      BY <2>2, <2>3
  <1> HIDE DEF E
  <1>5. VolatileEntries(st) \in Nat /\ VolatileEntries(m) \in Nat /\ VolatileEntries(r) \in Nat
    BY VolatileIs
  <1>6. VolatileEntries(r) <= VolatileEntries(st) + Len(E)
    <2> DEFINE v == VolatileEntries(st)
               w == VolatileEntries(m)
               x == VolatileEntries(r)
               c == Len(C)
               d == Len(D)
               e == Len(E)
    <2>1. v \in Nat /\ w \in Nat /\ x \in Nat /\ c \in Nat /\ d \in Nat /\ e = c + d
          /\ w <= v + c /\ x <= w + d
      BY <1>1, <1>2, <1>4, <1>5
    <2> HIDE DEF v, w, x, c, d, e
    <2>2. x <= v + e
      BY <2>1
    <2> QED
      BY <2>2 DEF v, x, e
  <1> QED
    BY <1>1, <1>3, <1>4, <1>6 DEF Grows, E

\* The same files give the same log, and what is synced more is volatile less.
LEMMA SameLog ==
    ASSUME NEW st, FilesOK(st), Ordered(st), NEW r, FilesOK(r), r.sealed = st.sealed, r.active = st.active,
           r.linked = st.linked, r.synced = st.synced \/ \A s \in DOMAIN st.active : r.synced = Len(st.active[s])
    PROVE  Ordered(r) /\ EntryLog(r) = EntryLog(st) /\ Appends(st, r, << >>)
  <1>1. Ordered(r) /\ SealedFrames(r) = SealedFrames(st)
    BY SameFrames
  <1>2. OpenFrames(r) = OpenFrames(st)
    BY SameOpen
  <1>3. EntryLog(r) = EntryLog(st)
    BY <1>1, <1>2, LogIs
  <1>4. VolatileEntries(r) <= VolatileEntries(st)
    <2>1. VolatileEntries(st) \in Nat /\ VolatileEntries(r) \in Nat
      BY VolatileIs
    <2>2. CASE r.synced = st.synced
      BY <1>2, <2>1, <2>2 DEF VolatileEntries
    <2>3. CASE st.linked \/ DOMAIN st.active = {}
      <3>1. r.linked \/ DOMAIN r.active = {}
        BY <2>3
      <3> QED
        BY <2>1, <3>1, VolatileIs
    <2>4. CASE ~ (st.linked \/ DOMAIN st.active = {}) /\ \A s \in DOMAIN st.active : r.synced = Len(st.active[s])
      <3>1. PICK s : s \in DOMAIN st.active
        BY <2>4
      <3>2. OpenFrames(st) = st.active[s] /\ r.synced = Len(st.active[s]) /\ ~ r.linked
        BY <2>4, <3>1, OpenFramesIs
      <3>3. r.synced = Len(OpenFrames(r))
        BY <1>2, <3>2
      <3>4. VolatileEntries(r) = 0
        BY <3>2, <3>3, VolatileIs
      <3> QED
        BY <2>1, <3>4
    <2> QED
      BY <2>2, <2>3, <2>4
  <1>5. EntryLog(st) \o << >> = EntryLog(st) /\ << >> \in Seq(Frame) /\ Len(<< >>) = 0
    BY LogIs, FramesConcat, DefinedEmpty
  <1>6. VolatileEntries(r) \in Nat /\ VolatileEntries(st) \in Nat
    BY VolatileIs
  <1>7. VolatileEntries(r) <= VolatileEntries(st) + Len(<< >>)
    BY <1>4, <1>5, <1>6
  <1> QED
    BY <1>1, <1>3, <1>5, <1>7 DEF Appends

\* One more segment, sealed last.
LEMMA GrownLog ==
    ASSUME NEW st, st.sealed \in Files(Name), Ordered(st), NEW k \in Name, NEW x \in Seq(Frame),
           NEW r, r.sealed \in Files(Name), \A n : n \in DOMAIN r.sealed <=> n \in DOMAIN st.sealed \/ n = k,
           r.sealed[k] = x, \A n \in DOMAIN st.sealed : r.sealed[n] = st.sealed[n],
           \A n \in DOMAIN st.sealed : Precedes(n, k)
    PROVE  Ordered(r) /\ SealedFrames(r) = SealedFrames(st) \o x
  <1>1. PICK q : Listed(q, DOMAIN st.sealed)
    BY DEF Ordered
  <1>2. Listed(Append(q, k), DOMAIN r.sealed)
    BY <1>1, ListedMore
  <1>3. FilesOf(Append(q, k), r.sealed) = Append(FilesOf(q, st.sealed), x)
    BY <1>1, FilesOfMore
  <1>4. SealedFrames(st) = FlattenSeq(FilesOf(q, st.sealed)) /\ FilesOf(q, st.sealed) \in Seq(Seq(Frame))
    BY <1>1, SealedFramesIs
  <1>5. SealedFrames(r) = FlattenSeq(FilesOf(Append(q, k), r.sealed))
    BY <1>2, SealedFramesIs
  <1>6. SealedFrames(r) = SealedFrames(st) \o x
    BY <1>3, <1>4, <1>5, FlattenIs
  <1> QED
    BY <1>2, <1>6 DEF Ordered

\* The oldest segments deleted.
ForgotOldest(st, r) == \E A, B \in Seq(Frame) : SealedFrames(st) = A \o B /\ SealedFrames(r) = B

LEMMA KeptLog ==
    ASSUME NEW st, st.sealed \in Files(Name), Ordered(st),
           NEW r, r.sealed \in Files(Name), DOMAIN r.sealed \subseteq DOMAIN st.sealed,
           \A n \in DOMAIN r.sealed : r.sealed[n] = st.sealed[n],
           \A m \in DOMAIN r.sealed : \A n \in DOMAIN st.sealed : Precedes(m, n) => n \in DOMAIN r.sealed
    PROVE  Ordered(r) /\ ForgotOldest(st, r)
  <1>1. PICK q : Listed(q, DOMAIN st.sealed)
    BY DEF Ordered
  <1>2. PICK a \in Seq(Name), b \in Seq(Name) :
            q = a \o b /\ Listed(b, DOMAIN r.sealed) /\ \A i \in 1 .. Len(a) : a[i] \in DOMAIN st.sealed
    <2> DEFINE N == DOMAIN st.sealed
               M == DOMAIN r.sealed
    <2>1. Listed(q, N) /\ M \subseteq N /\ \A m \in M : \A n \in N : Precedes(m, n) => n \in M
      BY <1>1
    <2> HIDE DEF N, M
    <2>2. Trimmed(q, N, M)
      BY <2>1, ListedFewer
    <2> QED
      BY <2>2 DEF N, M, Trimmed
  <1>3. a \in Seq(Name) /\ b \in Seq(Name) /\ \A i \in 1 .. Len(b) : b[i] \in DOMAIN r.sealed /\ b[i] \in DOMAIN st.sealed
    BY <1>2 DEF Listed
  <1>4. FilesOf(q, st.sealed) = FilesOf(a, st.sealed) \o FilesOf(b, st.sealed)
    BY <1>2, <1>3, FilesOfConcat
  <1>5. FilesOf(b, st.sealed) = FilesOf(b, r.sealed)
    BY <1>3 DEF FilesOf
  <1>6. FilesOf(a, st.sealed) \in Seq(Seq(Frame)) /\ FilesOf(b, st.sealed) \in Seq(Seq(Frame))
    BY <1>2, <1>3, FilesOfIs
  <1>7. SealedFrames(st) = FlattenSeq(FilesOf(q, st.sealed))
    BY <1>1, SealedFramesIs
  <1>8. SealedFrames(r) = FlattenSeq(FilesOf(b, r.sealed))
    BY <1>2, SealedFramesIs
  <1>9. SealedFrames(st) = FlattenSeq(FilesOf(a, st.sealed)) \o FlattenSeq(FilesOf(b, st.sealed))
    BY <1>4, <1>6, <1>7, FlattenConcat
  <1>10. SealedFrames(st) = FlattenSeq(FilesOf(a, st.sealed)) \o SealedFrames(r)
    BY <1>5, <1>8, <1>9
  <1>11. FlattenSeq(FilesOf(a, st.sealed)) \in Seq(Frame) /\ SealedFrames(r) \in Seq(Frame)
    BY <1>5, <1>6, <1>8, FlattenIs
  <1> QED
    BY <1>2, <1>10, <1>11 DEF Ordered, ForgotOldest

\* Sealing appends the open file to what retention leaves of the sealed ones.
LEMMA SealSplit ==
    ASSUME NEW st, Writing(st), LogOK(st), ~ st.linked, Sealing(st)
    PROVE  /\ Ordered(SealLocked(st)) /\ Ends(DOMAIN SealLocked(st).sealed)
           /\ \A n \in DOMAIN SealLocked(st).sealed : n[2] <= OpenName(st)[2]
           /\ \E A, B \in Seq(Frame) : /\ SealedFrames(st) = A \o B
                                       /\ SealedFrames(SealLocked(st)) = B \o st.active[st.seg]
  <1> DEFINE r == SealLocked(st)
             k == OpenName(st)
             x == st.active[st.seg]
             X == Expired(st)
             h == [sealed |-> Without(st.sealed, X)]
  <1>1. /\ FilesOK(st) /\ Shaped(st) /\ st.sealed \in Files(Name) /\ x \in Seq(Frame) /\ st.seg # None
        /\ NameOK(k) /\ k[1] = st.seg /\ k[2] = (IF st.seg < st.lastRecv THEN st.lastRecv ELSE st.seg)
        /\ st.seg \in Nat /\ st.lastRecv \in Nat /\ DOMAIN st.active = {st.seg} /\ k \notin DOMAIN st.sealed
    BY OpenFile, OpenNameIs, TimeIs DEF Writing, FilesOK, Sealing
  <1>2. r.sealed = Without(With(st.sealed, k, x), X)
    BY <1>1, SealIs DEF Grown
  <1>3. k \in Name /\ k[2] \in Nat
    BY <1>1 DEF NameOK, Name
  <1>4. \A n \in DOMAIN st.sealed : NameOK(n) /\ Precedes(n, k) /\ n[2] <= k[2]
    <2> SUFFICES ASSUME NEW n \in DOMAIN st.sealed PROVE NameOK(n) /\ Precedes(n, k) /\ n[2] <= k[2]
      OBVIOUS
    <2>1. NameOK(n) /\ n # k
      BY <1>1 DEF FilesOK
    <2>2. Behind(n, k[1], x)
      BY <1>1 DEF LogOK, AfterSealed
    <2>3. NewestRecv(x) <= k[2]
      BY <1>1 DEF LogOK, Stamped
    <2> QED
      BY <1>1, <2>1, <2>2, <2>3, ComesAfter
  <1>5. /\ k \notin X
        /\ \A n : n \in X <=> Retention # 0 /\ (n \in DOMAIN st.sealed \/ n = k) /\ n[2] < k[2] - Retention
    <2>1. \A n : n \in DOMAIN Grown(st) <=> n \in DOMAIN st.sealed \/ n = k
      BY <1>1, <1>3, WithIs DEF Grown
    <2>2. ~ (k[2] < k[2] - Retention)
      BY <1>3, WarmAssumption DEF WarmAssumption
    <2> HIDE DEF k
    <2> QED
      BY <2>1, <2>2 DEF Expired, k
  <1> HIDE DEF X, x, k
  <1>6. /\ With(st.sealed, k, x) \in Files(Name)
        /\ \A n : n \in DOMAIN With(st.sealed, k, x) <=> n \in DOMAIN st.sealed \/ n = k
        /\ With(st.sealed, k, x)[k] = x
        /\ \A n \in DOMAIN st.sealed : n # k => With(st.sealed, k, x)[n] = st.sealed[n]
    BY <1>1, <1>3, WithIs
  <1>7. /\ r.sealed \in Files(Name)
        /\ \A n : n \in DOMAIN r.sealed <=> (n \in DOMAIN st.sealed \/ n = k) /\ n \notin X
        /\ \A n \in DOMAIN r.sealed : r.sealed[n] = With(st.sealed, k, x)[n]
    BY <1>2, <1>6, WithoutIs
  <1>8. /\ h.sealed \in Files(Name)
        /\ \A n : n \in DOMAIN h.sealed <=> n \in DOMAIN st.sealed /\ n \notin X
        /\ \A n \in DOMAIN h.sealed : h.sealed[n] = st.sealed[n]
    BY <1>1, WithoutIs
  <1> HIDE DEF h, r
  <1>9. \A m \in DOMAIN h.sealed : \A n \in DOMAIN st.sealed : Precedes(m, n) => n \in DOMAIN h.sealed
    <2> SUFFICES ASSUME NEW m \in DOMAIN h.sealed, NEW n \in DOMAIN st.sealed, Precedes(m, n)
                 PROVE  n \in DOMAIN h.sealed
      OBVIOUS
    <2>1. m \in DOMAIN st.sealed /\ m \notin X
      BY <1>8
    <2>2. m[2] <= n[2] /\ m[2] \in Nat /\ n[2] \in Nat
      BY <1>4, <2>1 DEF LogOK, Ends, NameOK, Name
    <2>3. Retention # 0 => ~ (m[2] < k[2] - Retention)
      BY <1>5, <2>1
    <2>4. n \notin X
      BY <1>3, <1>5, <2>2, <2>3, WarmAssumption DEF WarmAssumption
    <2> QED
      BY <1>8, <2>4
  <1>10. Ordered(st)
    BY DEF LogOK
  <1>11. Ordered(h) /\ ForgotOldest(st, h)
    <2>1. DOMAIN h.sealed \subseteq DOMAIN st.sealed
      BY <1>8
    <2> QED
      BY <1>1, <1>8, <1>9, <1>10, <2>1, KeptLog
  <1>12. Ordered(r) /\ SealedFrames(r) = SealedFrames(h) \o x
    <2>1. \A n : n \in DOMAIN r.sealed <=> n \in DOMAIN h.sealed \/ n = k
      BY <1>5, <1>7, <1>8
    <2>2. r.sealed[k] = x
      BY <1>6, <1>7, <2>1
    <2>3. \A n \in DOMAIN h.sealed : r.sealed[n] = h.sealed[n]
      BY <1>1, <1>6, <1>7, <1>8, <2>1 DEF k
    <2>4. \A n \in DOMAIN h.sealed : Precedes(n, k)
      BY <1>4, <1>8
    <2>5. x \in Seq(Frame)
      BY <1>1
    <2> QED
      BY <1>3, <1>7, <1>8, <1>11, <2>1, <2>2, <2>3, <2>4, <2>5, GrownLog
  <1>13. Ends(DOMAIN r.sealed)
    <2> SUFFICES ASSUME NEW m \in DOMAIN r.sealed, NEW n \in DOMAIN r.sealed, Precedes(m, n) PROVE m[2] <= n[2]
      BY DEF Ends
    <2>1. (m \in DOMAIN st.sealed \/ m = k) /\ (n \in DOMAIN st.sealed \/ n = k)
      BY <1>7
    <2>2. CASE n = k
      BY <1>3, <1>4, <2>1, <2>2
    <2>3. CASE n \in DOMAIN st.sealed /\ m \in DOMAIN st.sealed
      BY <2>3 DEF LogOK, Ends
    <2>4. CASE n \in DOMAIN st.sealed /\ m = k
      <3>1. Precedes(n, k) /\ n \in Name
        BY <1>4, <2>4 DEF NameOK
      <3> QED
        BY <1>3, <2>4, <3>1, PrecedesIs
    <2> QED
      BY <2>1, <2>2, <2>3, <2>4
  <1>14. \A n \in DOMAIN r.sealed : n[2] <= k[2]
    BY <1>3, <1>4, <1>7
  <1> QED
    BY <1>11, <1>12, <1>13, <1>14 DEF r, x, k, ForgotOldest

\* What is not about the files' contents carries over.
LEMMA SameOK ==
    ASSUME NEW st, FilesOK(st), LogOK(st), ~ st.linked, NEW r, r.sealed = st.sealed, r.active = st.active,
           r.seg = st.seg, r.lastRecv = st.lastRecv, r.linked = st.linked, r.runStartPending = st.runStartPending
    PROVE  LogOK(r) /\ \A t : Until(st, t) => Until(r, t)
  <1>1. Ordered(r)
    BY SameFrames DEF LogOK
  <1>2. AfterSealed(r) /\ Stamped(r) /\ Ends(DOMAIN r.sealed)
    BY DEF LogOK, AfterSealed, Stamped
  <1>3. \A t : Until(st, t) => Until(r, t)
    BY DEF Until
  <1> QED
    BY <1>1, <1>2, <1>3 DEF LogOK

LEMMA SealLog ==
    ASSUME NEW st, Writing(st), LogOK(st), ~ st.linked
    PROVE  /\ Grows(st, SealLocked(st), << >>) /\ LogOK(SealLocked(st)) /\ ~ SealLocked(st).linked
           /\ \A t \in Nat : Until(st, t) => Until(SealLocked(st), t)
  <1> DEFINE r == SealLocked(st)
             x == st.active[st.seg]
             S == SealedFrames(st)
             O == OpenFrames(st)
  <1>1. FilesOK(st) /\ Shaped(st) /\ Ordered(st) /\ Writing(r) /\ FilesOK(r) /\ ~ r.linked
    BY SealKeeps, SealIs DEF Writing, FilesOK, LogOK
  <1>2. CASE Sealing(st)
    <2>1. /\ r.seg = None /\ r.active = Without(st.active, {st.seg}) /\ st.seg # None
          /\ DOMAIN st.active = {st.seg} /\ x \in Seq(Frame) /\ st.active \in Files(Time)
      BY <1>1, <1>2, SealIs, OpenFile DEF Sealing, FilesOK
    <2>2. DOMAIN r.active = {}
      BY <2>1, WithoutIs
    <2>3. PICK A \in Seq(Frame), B \in Seq(Frame) : S = A \o B /\ SealedFrames(r) = B \o x
      BY <1>2, SealSplit
    <2>4. /\ Ordered(r) /\ Ends(DOMAIN r.sealed)
          /\ \A n \in DOMAIN r.sealed : n[2] <= OpenName(st)[2]
      BY <1>2, SealSplit
    <2>5. O = x /\ OpenFrames(r) = << >> /\ VolatileEntries(r) = 0
      BY <1>1, <2>1, <2>2, OpenFramesIs, VolatileIs
    <2>6. /\ EntryLog(st) = Entries(S) \o Entries(O) /\ EntryLog(r) = Entries(SealedFrames(r)) \o Entries(OpenFrames(r))
          /\ VolatileEntries(st) \in Nat /\ VolatileEntries(st) <= Len(Entries(O))
      BY <1>1, <2>4, LogIs, VolatileIs
    <2> HIDE DEF r, x, S, O
    <2> DEFINE a == Entries(A)
               b == Entries(B)
               c == Entries(x)
    <2>7. A \in Seq(Frame) /\ B \in Seq(Frame) /\ x \in Seq(Frame)
      BY <2>1, <2>3
    <2>8. a \in Seq(Frame) /\ b \in Seq(Frame) /\ c \in Seq(Frame)
      BY <2>7, EntriesIs
    <2>9. Entries(A \o B) = a \o b /\ Entries(B \o x) = b \o c
      BY <2>7, EntriesConcat
    <2> HIDE DEF a, b
    <2>10. EntryLog(st) = (a \o b) \o c /\ EntryLog(r) = (b \o c) \o << >>
      BY <2>3, <2>5, <2>6, <2>9, EntriesOfNone
    <2>11. a \o (b \o c) = (a \o b) \o c
      BY <2>8, FramesConcat
    <2>12. b \o c \in Seq(Frame) /\ Len(b \o c) = Len(b) + Len(c) /\ Len(b) \in Nat /\ Len(c) \in Nat
      BY <2>8, FramesConcat
    <2>13. VolatileEntries(st) <= Len(b \o c)
      <3>1. VolatileEntries(st) <= Len(c)
        BY <2>5, <2>6
      <3> HIDE DEF c
      <3> QED
        BY <2>6, <2>12, <3>1
    <2> DEFINE bc == b \o c
    <2>14. EntryLog(st) = a \o bc /\ EntryLog(r) = bc \o << >> /\ bc \in Seq(Frame) /\ VolatileEntries(st) <= Len(bc)
      BY <2>10, <2>11, <2>12, <2>13
    <2> HIDE DEF bc, c
    <2>15. << >> \in Seq(Frame) /\ VolatileEntries(r) <= VolatileEntries(st) + Len(<< >>)
      BY <2>5, <2>6, DefinedEmpty
    <2>16. Grows(st, r, << >>)
      BY <2>8, <2>14, <2>15 DEF Grows
    <2>17. LogOK(r)
      BY <1>1, <2>1, <2>2, <2>4 DEF LogOK, AfterSealed, Stamped
    <2>18. ASSUME NEW t \in Nat, Until(st, t) PROVE Until(r, t)
      <3>1. st.seg <= t /\ NewestRecv(x) <= t
        BY <2>1, <2>18 DEF Until, x
      <3>2. st.lastRecv <= t
        BY <2>1, <3>1 DEF LogOK, Stamped, x
      <3>3. OpenName(st)[2] <= t
        BY <1>1, <2>1, <3>1, <3>2, OpenNameIs
      <3>4. OpenName(st)[2] \in Nat /\ \A n \in DOMAIN r.sealed : n[2] \in Nat
        BY <1>1, <2>1, OpenNameIs DEF NameOK, Name, FilesOK
      <3>5. \A n \in DOMAIN r.sealed : n[2] <= t
        BY <2>4, <3>3, <3>4
      <3> QED
        BY <2>2, <3>5 DEF Until
    <2> QED
      BY <1>1, <2>16, <2>17, <2>18 DEF r
  <1>3. CASE ~ Sealing(st)
    <2>1. /\ r.seg = st.seg /\ r.active = st.active /\ r.sealed = st.sealed /\ r.lastRecv = st.lastRecv
          /\ r.linked = st.linked /\ r.runStartPending = st.runStartPending
          /\ r.synced = st.synced \/ (st.seg # None /\ r.synced = Len(st.active[st.seg]))
      BY <1>1, <1>3, SealIs
    <2>2. r.synced = st.synced \/ \A s \in DOMAIN st.active : r.synced = Len(st.active[s])
      BY <1>1, <2>1, OpenFile
    <2> HIDE DEF r
    <2>3. Appends(st, r, << >>)
      BY <1>1, <2>1, <2>2, SameLog
    <2>4. Grows(st, r, << >>)
      BY <1>1, <2>3, AppendsGrows
    <2>5. LogOK(r) /\ \A t : Until(st, t) => Until(r, t)
      BY <1>1, <2>1, SameOK
    <2> QED
      BY <1>1, <2>4, <2>5 DEF r
  <1> QED
    BY <1>2, <1>3

\* A new file begins with the run's boundary, or with nothing.
LEMMA HeadingLog ==
    ASSUME NEW st, NEW recv \in Time
    PROVE  /\ Heading(st, recv) \in Seq(Frame) /\ Entries(Heading(st, recv)) = Heading(st, recv)
           /\ Len(Heading(st, recv)) <= 1
           /\ NewestRecv(Heading(st, recv)) \in Time /\ NewestRecv(Heading(st, recv)) <= recv
           /\ st.runStartPending => /\ Heading(st, recv) # << >> /\ Heading(st, recv)[1].kind = "run"
                                    /\ Heading(st, recv)[1].recv = recv
  <1> DEFINE q == Heading(st, recv)
  <1>1. q \in Seq(Frame) /\ q = IF st.runStartPending THEN <<RunStart(recv)>> ELSE << >>
    BY HeadingIs DEF Heading
  <1>2. RunStart(recv).kind = "run" /\ RunStart(recv).recv = recv
    BY DEF RunStart
  <1>3. Len(q) <= 1 /\ Len(q) \in Nat /\ \A i \in 1 .. Len(q) : q[i].recv = recv
    <2>1. CASE st.runStartPending
      <3>1. q = <<RunStart(recv)>>
        BY <1>1, <2>1
      <3>2. Len(<<RunStart(recv)>>) = 1 /\ <<RunStart(recv)>>[1] = RunStart(recv)
        OBVIOUS
      <3> HIDE DEF q
      <3> QED
        BY <1>2, <3>1, <3>2
    <2>2. CASE ~ st.runStartPending
      <3>1. q = << >> /\ Len(<< >>) = 0
        BY <1>1, <2>2
      <3> HIDE DEF q
      <3> QED
        BY <3>1
    <2> QED
      BY <2>1, <2>2
  <1>4. st.runStartPending => q # << >> /\ q[1].kind = "run" /\ q[1].recv = recv
    <2>1. ASSUME st.runStartPending PROVE q # << >> /\ q[1] = RunStart(recv)
      BY <1>1, <2>1
    <2> QED
      BY <1>2, <2>1
  <1>5. Entries(q) = q
    <2>1. /\ << >> \in Seq(Frame) /\ RunStart(recv) \in Frame
          /\ q = IF st.runStartPending THEN Append(<< >>, RunStart(recv)) ELSE << >>
      BY HeadingIs, EmptySeq DEF RunStart, RunFrame, Frame
    <2> HIDE DEF q
    <2>2. Entries(Append(<< >>, RunStart(recv))) = Append(<< >>, RunStart(recv))
      BY <1>2, <2>1, EntriesIs, EntriesOfNone
    <2> QED
      BY <2>1, <2>2, EntriesOfNone
  <1> HIDE DEF q
  <1>6. recv \in Nat /\ NewestRecv(q) \in Time /\ NewestRecv(q) <= recv
    <2>1. recv \in Nat /\ \A i \in 1 .. Len(q) : q[i].kind # "def" => q[i].recv <= recv
      BY <1>3, TimeIs
    <2> QED
      BY <1>1, <2>1, NewestRecvIs
  <1> QED
    BY <1>1, <1>3, <1>4, <1>5, <1>6 DEF q

LEMMA OpenLog ==
    ASSUME NEW st, Writing(st), Ordered(st), ~ st.linked, st.seg = None, NEW recv \in Time
    PROVE  /\ Ordered(OpenSegment(st, recv)) /\ Appends(st, OpenSegment(st, recv), Heading(st, recv))
           /\ DOMAIN OpenSegment(st, recv).active = {WindowStart(recv)}
           /\ \A t \in Nat : Until(st, t) /\ recv <= t => Until(OpenSegment(st, recv), t)
  <1> DEFINE e == OpenSegment(st, recv)
             w == WindowStart(recv)
             q == Heading(st, recv)
             a == Entries(SealedFrames(st))
             c == q
  <1>1. /\ FilesOK(st) /\ FilesOK(e) /\ DOMAIN st.active = {} /\ e.seg = w /\ e.seg # None /\ e.active[w] = q
        /\ e.sealed = st.sealed /\ ~ e.linked /\ e.synced = 0
    <2>1. /\ Writing(e) /\ e.seg = w /\ e.seg # None /\ e.active[w] = q
          /\ e.sealed = st.sealed /\ e.linked = st.linked /\ e.synced = 0
      BY OpenIs
    <2> HIDE DEF e, w, q
    <2>2. ~ e.linked
      BY <2>1
    <2> QED
      BY <2>1, <2>2 DEF Writing
  <1>2. DOMAIN e.active = {w}
    BY <1>1, OpenFile
  <1>3. w \in Nat /\ w <= recv
    BY WindowIs, TimeIs
  <1>4. q \in Seq(Frame) /\ Entries(q) = c /\ NewestRecv(q) \in Time /\ NewestRecv(q) <= recv
    BY HeadingLog
  <1> HIDE DEF e, w, q
  <1>5. Ordered(e) /\ SealedFrames(e) = SealedFrames(st)
    BY <1>1, SameFrames
  <1>6. OpenFrames(st) = << >> /\ VolatileEntries(st) = 0 /\ OpenFrames(e) = q
    BY <1>1, <1>2, OpenFramesIs, VolatileIs
  <1>7. EntryLog(st) = a \o << >> /\ EntryLog(e) = a \o c /\ a \in Seq(Frame)
    BY <1>1, <1>4, <1>5, <1>6, LogIs, EntriesOfNone
  <1>8. VolatileEntries(e) <= Len(c)
    BY <1>1, <1>4, <1>6, VolatileIs
  <1>9. Len(c) \in Nat /\ VolatileEntries(e) \in Nat
    BY <1>1, <1>4, VolatileIs, LenProperties
  <1>14. c \in Seq(Frame)
    BY <1>4
  <1> HIDE DEF a, c
  <1>10. EntryLog(e) = EntryLog(st) \o c
    BY <1>7, <1>14, FramesConcat
  <1>11. VolatileEntries(e) <= VolatileEntries(st) + Len(c)
    BY <1>6, <1>8, <1>9
  <1>12. Appends(st, e, c)
    BY <1>10, <1>11, <1>14 DEF Appends
  <1>13. ASSUME NEW t \in Nat, Until(st, t), recv <= t PROVE Until(e, t)
    <2>1. recv \in Nat /\ NewestRecv(q) \in Nat
      BY <1>4, TimeIs
    <2>2. w <= t /\ NewestRecv(q) <= t
      BY <1>3, <1>4, <1>13, <2>1
    <2> QED
      BY <1>1, <1>2, <1>13, <2>2 DEF Until
  <1> QED
    BY <1>2, <1>5, <1>12, <1>13 DEF e, w, c, q

\* The open file is ready for a frame stamped recv.
Ready(e, recv) ==
    /\ Ordered(e) /\ Ends(DOMAIN e.sealed) /\ ~ e.linked /\ e.seg # None /\ AfterSealed(e) /\ ~ e.runStartPending
    /\ e.lastRecv < e.seg + SegmentDuration /\ recv < e.seg + SegmentDuration
    /\ (IF NewestRecv(e.active[e.seg]) < recv THEN recv ELSE NewestRecv(e.active[e.seg])) =
       (IF e.lastRecv < recv THEN recv ELSE e.lastRecv)

LEMMA OpenReady ==
    ASSUME NEW st, Writing(st), Ordered(st), Ends(DOMAIN st.sealed), ~ st.linked, st.seg = None, NEW recv \in Time,
           \A n \in DOMAIN st.sealed : Behind(n, WindowStart(recv), Heading(st, recv))
    PROVE  Ready(OpenSegment(st, recv), recv)
  <1> DEFINE e == OpenSegment(st, recv)
             w == WindowStart(recv)
             q == Heading(st, recv)
  <1>1. /\ e.seg = w /\ e.seg # None /\ e.active[w] = q /\ e.sealed = st.sealed /\ ~ e.linked /\ e.lastRecv = recv
        /\ ~ e.runStartPending /\ Ordered(e) /\ DOMAIN e.active = {w}
    <2>1. /\ e.seg = w /\ e.seg # None /\ e.active[w] = q
          /\ e.sealed = st.sealed /\ e.linked = st.linked /\ e.lastRecv = recv /\ ~ e.runStartPending
      BY OpenIs
    <2>2. Ordered(e) /\ DOMAIN e.active = {w}
      BY OpenLog
    <2> HIDE DEF e, w, q
    <2>3. ~ e.linked
      BY <2>1
    <2> QED
      BY <2>1, <2>2, <2>3
  <1>2. AfterSealed(e)
    BY <1>1 DEF AfterSealed
  <1>3. recv \in Nat /\ recv < w + SegmentDuration
    BY WindowIs, TimeIs
  <1>4. NewestRecv(q) \in Nat /\ NewestRecv(q) <= recv
    BY HeadingLog, TimeIs
  <1> HIDE DEF e, w, q
  <1>5. (IF NewestRecv(q) < recv THEN recv ELSE NewestRecv(q)) = recv
    BY <1>3, <1>4
  <1>6. Ready(e, recv)
    BY <1>1, <1>2, <1>3, <1>5 DEF Ready
  <1> QED
    BY <1>6 DEF e

LEMMA EnsureLog ==
    ASSUME NEW st, Writing(st), LogOK(st), ~ st.linked, ~ Refuses(st), NEW recv \in Time, MayOpen(st, recv)
    PROVE  /\ ~ EnsureSegment(st, recv).linked
           /\ Refuses(EnsureSegment(st, recv)) => /\ LogOK(EnsureSegment(st, recv))
                                                  /\ Grows(st, EnsureSegment(st, recv), << >>)
           /\ ~ Refuses(EnsureSegment(st, recv)) => /\ Ready(EnsureSegment(st, recv), recv)
                                                    /\ Grows(st, EnsureSegment(st, recv), Heading(st, recv))
           /\ \A t \in Nat : Until(st, t) /\ recv <= t => Until(EnsureSegment(st, recv), t)
  <1> DEFINE e == EnsureSegment(st, recv)
             m == SealLocked(st)
  <1>1. FilesOK(st) /\ Shaped(st) /\ Writing(m) /\ FilesOK(m) /\ Ordered(st) /\ Ends(DOMAIN st.sealed)
    BY SealKeeps DEF Writing, FilesOK, LogOK
  <1>2. Writing(e) /\ FilesOK(e)
    BY EnsureKeeps DEF Writing
  <1>3. recv \in Nat /\ SegmentDuration \in Nat
    BY TimeIs, WarmAssumption DEF WarmAssumption
  <1>4. CASE Rolls(st, recv)
    <2>1. st.seg # None /\ recv - st.seg >= SegmentDuration /\ ~ st.err /\ ~ st.closed
      BY <1>4 DEF Rolls, Refuses
    <2>2. e = IF Refuses(m) \/ m.seg # None THEN m ELSE OpenSegment(m, recv)
      BY <1>4 DEF EnsureSegment
    <2>3. Grows(st, m, << >>) /\ LogOK(m) /\ ~ m.linked /\ \A t \in Nat : Until(st, t) => Until(m, t)
      BY SealLog
    <2>4. CASE Sealing(st)
      <3>1. m.seg = None /\ ~ Refuses(m)
        BY <1>1, <2>1, <2>4, SealIs DEF Refuses
      <3>2. e = OpenSegment(m, recv)
        BY <2>2, <3>1
      <3>3. ~ e.linked /\ ~ Refuses(e)
        <4> HIDE DEF m, e
        <4>1. e.linked = m.linked /\ e.err = m.err /\ e.closed = m.closed
          BY <1>1, <3>1, <3>2, OpenIs
        <4> QED
          BY <2>3, <3>1, <4>1 DEF Refuses
      <3>4. \A n \in DOMAIN m.sealed : n[2] <= OpenName(st)[2]
        BY <2>4, SealSplit
      <3>5. /\ st.seg \in Nat /\ st.seg % SegmentDuration = 0 /\ st.lastRecv \in Nat
            /\ st.lastRecv < st.seg + SegmentDuration
        BY <1>1, <2>1, OpenFile, TimeIs DEF LogOK, Stamped, FilesOK
      <3>6. st.seg + SegmentDuration <= WindowStart(recv) /\ WindowStart(recv) \in Nat
        BY <1>3, <2>1, <3>5, WindowIs
      <3>7. OpenName(st)[2] < WindowStart(recv) /\ OpenName(st)[2] \in Nat
        <4>1. OpenName(st)[2] = IF st.seg < st.lastRecv THEN st.lastRecv ELSE st.seg
          BY <1>1, <2>1, OpenNameIs
        <4>2. SegmentDuration # 0
          BY WarmAssumption DEF WarmAssumption
        <4> QED
          BY <1>3, <3>5, <3>6, <4>1, <4>2
      <3>8. \A n \in DOMAIN m.sealed : Behind(n, WindowStart(recv), Heading(m, recv))
        <4> SUFFICES ASSUME NEW n \in DOMAIN m.sealed PROVE n[2] < WindowStart(recv)
          BY DEF Behind
        <4>1. n[2] \in Nat /\ n[2] <= OpenName(st)[2]
          BY <1>1, <3>4 DEF FilesOK, NameOK, Name
        <4> QED
          BY <3>6, <3>7, <4>1
      <3>9. Ordered(m) /\ Ends(DOMAIN m.sealed)
        BY <2>3 DEF LogOK
      <3>14. m.runStartPending = st.runStartPending
        BY <1>1, SealIs
      <3> HIDE DEF m, e
      <3>10. Ready(e, recv)
        BY <1>1, <2>3, <3>1, <3>2, <3>8, <3>9, OpenReady
      <3>11. Appends(m, e, Heading(m, recv)) /\ \A t \in Nat : Until(m, t) /\ recv <= t => Until(e, t)
        BY <1>1, <2>3, <3>1, <3>2, <3>9, OpenLog
      <3>12. Grows(st, e, << >> \o Heading(m, recv))
        BY <1>1, <1>2, <2>3, <3>11, GrowsMore
      <3>13. Grows(st, e, Heading(st, recv))
        <4>1. Heading(m, recv) = Heading(st, recv) /\ Heading(st, recv) \in Seq(Frame)
          BY <3>14, HeadingIs DEF Heading
        <4>2. << >> \o Heading(st, recv) = Heading(st, recv)
          BY <4>1, FramesConcat
        <4> QED
          BY <3>12, <4>1, <4>2
      <3> QED
        BY <2>3, <3>3, <3>10, <3>11, <3>13 DEF e
    <2>5. CASE ~ Sealing(st)
      <3>1. m.err = TRUE /\ Refuses(m)
        BY <1>1, <2>1, <2>5, SealIs DEF Refuses
      <3>2. e = m
        BY <2>2, <3>1
      <3> HIDE DEF m, e
      <3> QED
        BY <2>3, <3>1, <3>2 DEF e
    <2> QED
      BY <2>4, <2>5
  <1>5. CASE ~ Rolls(st, recv) /\ st.seg # None
    <2>1. e = st
      BY <1>5 DEF EnsureSegment
    <2>2. /\ st.seg \in Nat /\ st.lastRecv = NewestRecv(st.active[st.seg]) /\ st.lastRecv < st.seg + SegmentDuration
          /\ st.lastRecv \in Nat /\ AfterSealed(st) /\ ~ st.runStartPending
      BY <1>1, <1>5, OpenFile, TimeIs DEF LogOK, Stamped, FilesOK
    <2>3. recv < st.seg + SegmentDuration
      BY <1>3, <1>5, <2>2 DEF Rolls
    <2>4. Ready(st, recv)
      BY <1>1, <1>5, <2>2, <2>3 DEF Ready
    <2>5. EntryLog(st) = EntryLog(st) \o << >> /\ << >> \in Seq(Frame) /\ Len(<< >>) = 0
      BY <1>1, LogIs, FramesConcat, DefinedEmpty
    <2>6. VolatileEntries(st) \in Nat
      BY <1>1, VolatileIs
    <2>7. VolatileEntries(st) <= VolatileEntries(st) + Len(<< >>)
      BY <2>5, <2>6
    <2>8. Heading(st, recv) = << >>
      BY <2>2 DEF Heading
    <2>9. Grows(st, st, Heading(st, recv))
      BY <1>1, <2>5, <2>7, <2>8, AppendsGrows DEF Appends
    <2> HIDE DEF e
    <2> QED
      BY <2>1, <2>4, <2>9 DEF e
  <1>6. CASE ~ Rolls(st, recv) /\ st.seg = None
    <2>1. e = OpenSegment(st, recv)
      BY <1>6 DEF EnsureSegment
    <2>2. st.runStartPending /\ \A n \in DOMAIN st.sealed : n[2] <= recv
      BY <1>6 DEF MayOpen
    <2>3. \A n \in DOMAIN st.sealed : Behind(n, WindowStart(recv), Heading(st, recv))
      <3> SUFFICES ASSUME NEW n \in DOMAIN st.sealed PROVE Behind(n, WindowStart(recv), Heading(st, recv))
        OBVIOUS
      <3>1. n[1] \in Nat /\ n[2] \in Nat /\ n[1] % SegmentDuration = 0 /\ n[1] <= n[2] /\ n[2] <= recv
        BY <1>1, <2>2 DEF FilesOK, NameOK, Name
      <3>2. n[1] <= recv
        BY <1>3, <3>1
      <3>3. n[1] <= WindowStart(recv)
        BY <1>3, <3>1, <3>2, WindowAfter
      <3>4. Heading(st, recv) # << >> /\ Heading(st, recv)[1].kind = "run" /\ Heading(st, recv)[1].recv = recv
        BY <2>2, HeadingLog
      <3> QED
        BY <3>1, <3>3, <3>4 DEF Behind
    <2> HIDE DEF e
    <2>4. Ready(e, recv)
      BY <1>1, <1>6, <2>1, <2>3, OpenReady
    <2>5. Appends(st, e, Heading(st, recv)) /\ \A t \in Nat : Until(st, t) /\ recv <= t => Until(e, t)
      BY <1>1, <1>6, <2>1, OpenLog
    <2>6. Grows(st, e, Heading(st, recv))
      BY <1>1, <2>5, AppendsGrows
    <2>7. ~ e.linked /\ ~ Refuses(e)
      <3>1. e.linked = st.linked /\ e.err = st.err /\ e.closed = st.closed
        BY <1>6, <2>1, OpenIs
      <3> QED
        BY <3>1 DEF Refuses
    <2> QED
      BY <2>4, <2>5, <2>6, <2>7 DEF e
  <1> QED
    BY <1>4, <1>5, <1>6

\* A write appends one entry.
LEMMA WriteLog ==
    ASSUME NEW e, Writing(e), NEW recv \in Time, Ready(e, recv), NEW r, NEW f \in Frame, f.recv = recv, Writes(e, r, f)
    PROVE  /\ LogOK(r) /\ ~ r.linked /\ Appends(e, r, <<f>>) /\ r.seg # None /\ ~ r.runStartPending
           /\ \A t \in Nat : Until(e, t) /\ recv <= t => Until(r, t)
  <1> DEFINE k == e.seg
             q0 == e.active[k]
  <1>1. PICK q \in Seq(Frame) : Adds(q, q0, f) /\ WroteTo(e, r, q, recv)
    BY DEF Writes
  <1>2. PICK p \in Seq(Frame) :
            /\ f \in Frame /\ f.kind # "def" /\ q = Append(p, f)
            /\ p = q0 \/ \E g \in Frame : g.kind = "def" /\ p = Append(q0, g)
    BY <1>1 DEF Adds
  <1>3. /\ p \in Seq(Frame) /\ f \in Frame /\ q \in Seq(Frame) /\ f.kind # "def" /\ f.recv = recv /\ q = Append(p, f)
        /\ recv \in Nat
    BY <1>1, <1>2, TimeIs
  <1>4. /\ Writing(r) /\ FilesOK(r) /\ FilesOK(e) /\ r.active[k] = q /\ r.sealed = e.sealed /\ r.synced = e.synced
        /\ r.seg = k /\ r.linked = e.linked /\ r.runStartPending = e.runStartPending
        /\ r.lastRecv = IF e.lastRecv < recv THEN recv ELSE e.lastRecv
    BY <1>1 DEF WroteTo, Writing
  <1>5. /\ Ordered(e) /\ Ends(DOMAIN e.sealed) /\ ~ e.linked /\ k # None /\ AfterSealed(e) /\ ~ e.runStartPending
        /\ e.lastRecv < k + SegmentDuration /\ recv < k + SegmentDuration
        /\ (IF NewestRecv(q0) < recv THEN recv ELSE NewestRecv(q0)) = (IF e.lastRecv < recv THEN recv ELSE e.lastRecv)
    BY DEF Ready
  <1>6. /\ DOMAIN e.active = {k} /\ DOMAIN r.active = {k} /\ q0 \in Seq(Frame) /\ k \in Nat
        /\ e.synced \in 0 .. Len(q0)
    BY <1>4, <1>5, OpenFile, TimeIs
  <1> HIDE DEF k, q0
  \* The frame, and the definition before it.
  <1>7. PICK z \in Seq(Frame) : q = q0 \o z
    <2>1. CASE p = q0
      <3>1. q0 \o <<f>> = Append(q0, f)
        BY <1>6, WrittenIs
      <3>2. <<f>> \in Seq(Frame)
        OBVIOUS
      <3> QED
        BY <1>3, <2>1, <3>1, <3>2
    <2>2. ASSUME NEW g \in Frame, g.kind = "def", p = Append(q0, g) PROVE \E z \in Seq(Frame) : q = q0 \o z
      <3>1. q0 \o (<<g>> \o <<f>>) = q
        BY <1>3, <1>6, <2>2, WrittenIs
      <3>2. <<g>> \o <<f>> \in Seq(Frame)
        BY <1>3
      <3> QED
        BY <3>1, <3>2
    <2> QED
      BY <1>2, <2>1, <2>2
  <1>8. /\ Entries(p) = Entries(q0) /\ NewestRecv(p) = NewestRecv(q0) /\ NewestRecv(q0) \in Nat
        /\ \A n, s : Behind(n, s, q0) => Behind(n, s, p)
    <2>1. CASE p = q0
      BY <1>6, <2>1, NewestRecvIs, TimeIs
    <2>2. ASSUME NEW g \in Frame, g.kind = "def", p = Append(q0, g)
          PROVE  /\ Entries(p) = Entries(q0) /\ NewestRecv(p) = NewestRecv(q0)
                 /\ \A n, s : Behind(n, s, q0) => Behind(n, s, p)
      BY <1>6, <2>2, EntriesIs, NewestOfMore, BehindMore
    <2>3. NewestRecv(q0) \in Nat
      BY <1>6, NewestRecvIs, TimeIs
    <2> QED
      BY <1>2, <2>1, <2>2, <2>3
  <1>9. /\ Entries(q) = Append(Entries(q0), f) /\ Entries(q0) \in Seq(Frame)
        /\ NewestRecv(q) = (IF NewestRecv(q0) < recv THEN recv ELSE NewestRecv(q0))
        /\ q # << >> /\ \A n, s : Behind(n, s, q0) => Behind(n, s, q)
    <2>1. Entries(q) = Append(Entries(p), f) /\ Entries(q0) \in Seq(Frame)
      BY <1>3, <1>6, EntriesIs
    <2>2. NewestRecv(q) = IF NewestRecv(p) < recv THEN recv ELSE NewestRecv(p)
      BY <1>3, NewestOfMore
    <2>3. q # << >>
      BY <1>3, AppendProperties, EmptySeq
    <2>4. \A n, s : Behind(n, s, p) => Behind(n, s, q)
      BY <1>3, BehindMore
    <2> QED
      BY <1>8, <2>1, <2>2, <2>3, <2>4
  <1>10. Ordered(r) /\ SealedFrames(r) = SealedFrames(e)
    BY <1>4, <1>5, SameFrames
  <1>11. OpenFrames(e) = q0 /\ OpenFrames(r) = q /\ ~ r.linked
    BY <1>4, <1>5, <1>6, OpenFramesIs DEF q0
  <1> DEFINE a == Entries(SealedFrames(e))
             b == Entries(q0)
             s == Entries(SubSeq(q0, 1, e.synced))
  <1>12. EntryLog(e) = a \o b /\ EntryLog(r) = a \o Append(b, f) /\ a \in Seq(Frame) /\ b \in Seq(Frame)
    BY <1>4, <1>5, <1>9, <1>10, <1>11, LogIs
  <1>13. VolatileEntries(e) = Len(b) - Len(s)
    BY <1>4, <1>5, <1>11, VolatileIs
  <1>14. VolatileEntries(r) = Len(Append(b, f)) - Len(s)
    <2>1. SubSeq(q, 1, r.synced) = SubSeq(q0, 1, e.synced)
      BY <1>4, <1>6, <1>7, PrefixOfMore
    <2>2. VolatileEntries(r) = Len(Entries(q)) - Len(Entries(SubSeq(q, 1, r.synced)))
      BY <1>4, <1>11, VolatileIs
    <2> QED
      BY <1>9, <2>1, <2>2
  <1>15. s \in Seq(Frame)
    <2>1. SubSeq(q0, 1, e.synced) \in Seq(Frame)
      BY <1>6, Split
    <2> QED
      BY <2>1, EntriesIs
  <1> HIDE DEF a, b, s
  <1>16. Len(b) \in Nat /\ Len(s) \in Nat /\ Len(Append(b, f)) = Len(b) + 1
    BY <1>3, <1>12, <1>15, AppendProperties, LenProperties
  <1>17. a \o Append(b, f) = (a \o b) \o <<f>> /\ <<f>> \in Seq(Frame) /\ Len(<<f>>) = 1
    <2>1. a \o Append(b, f) = Append(a \o b, f) /\ a \o b \in Seq(Frame)
      BY <1>3, <1>12, ConcatAppend, FramesConcat
    <2>2. Append(a \o b, f) = (a \o b) \o <<f>>
      BY <1>3, <2>1, AppendIsConcat
    <2> QED
      BY <1>3, <2>1, <2>2
  <1>18. EntryLog(r) = EntryLog(e) \o <<f>>
    BY <1>12, <1>17
  <1>19. VolatileEntries(r) <= VolatileEntries(e) + Len(<<f>>)
    BY <1>13, <1>14, <1>16, <1>17
  <1>21. Appends(e, r, <<f>>)
    BY <1>17, <1>18, <1>19 DEF Appends
  <1>22. AfterSealed(r)
    <2>1. \A n \in DOMAIN e.sealed : Behind(n, k, q0)
      BY <1>5, <1>6 DEF AfterSealed, k, q0
    <2> QED
      BY <1>4, <1>6, <1>9, <2>1 DEF AfterSealed
  <1>23. Stamped(r)
    <2>1. e.lastRecv \in Nat /\ SegmentDuration \in Nat
      BY <1>4, TimeIs, WarmAssumption DEF FilesOK, WarmAssumption
    <2>2. r.lastRecv < k + SegmentDuration
      BY <1>3, <1>4, <1>5, <1>6, <2>1
    <2>3. r.lastRecv = NewestRecv(q)
      BY <1>4, <1>5, <1>9
    <2> QED
      BY <1>4, <1>5, <1>9, <2>2, <2>3 DEF Stamped
  <1>24. LogOK(r)
    BY <1>4, <1>5, <1>10, <1>11, <1>22, <1>23 DEF LogOK
  <1>25. ASSUME NEW t \in Nat, Until(e, t), recv <= t PROVE Until(r, t)
    <2>1. k <= t /\ NewestRecv(q0) <= t
      BY <1>6, <1>25 DEF Until, q0
    <2>2. NewestRecv(q) <= t
      BY <1>3, <1>8, <1>9, <1>25, <2>1
    <2> QED
      BY <1>4, <1>6, <1>25, <2>1, <2>2 DEF Until
  <1> QED
    BY <1>4, <1>5, <1>11, <1>21, <1>24, <1>25

\* What the writer appends for a frame: the run's boundary before the first of the run,
\* nothing if the store refuses.
Appended(st, r, f) == IF Refuses(r) THEN << >> ELSE Heading(st, f.recv) \o <<f>>

\* What the writing of a frame does to the log, and what it leaves.
Operates(st, r, recv, f) ==
    /\ LogOK(r) /\ ~ r.linked /\ (r.seg # None \/ Refuses(r))
    /\ f \in Frame /\ f.recv = recv /\ Grows(st, r, Appended(st, r, f))
    /\ ~ Refuses(r) => ~ Refuses(st) /\ ~ r.runStartPending
    /\ \A t \in Nat : Until(st, t) /\ recv <= t => Until(r, t)

LEMMA NothingLog ==
    ASSUME NEW st, FilesOK(st), Ordered(st)
    PROVE  Grows(st, st, << >>)
  <1>1. EntryLog(st) = EntryLog(st) \o << >> /\ << >> \in Seq(Frame) /\ Len(<< >>) = 0
    BY LogIs, FramesConcat, DefinedEmpty
  <1>2. VolatileEntries(st) \in Nat
    BY VolatileIs
  <1>3. VolatileEntries(st) <= VolatileEntries(st) + Len(<< >>)
    BY <1>1, <1>2
  <1> QED
    BY <1>1, <1>3, AppendsGrows DEF Appends

\* The two writes of the loops, as one: the frame is written unless the store refuses.
LEMMA WritingLog ==
    ASSUME NEW st, Writing(st), LogOK(st), ~ st.linked, NEW recv \in Time, MayOpen(st, recv), NEW r, Writing(r),
           NEW f \in Frame, f.recv = recv, Refuses(st) => r = st,
           ~ Refuses(st) /\ Refuses(EnsureSegment(st, recv)) => r = EnsureSegment(st, recv),
           ~ Refuses(EnsureSegment(st, recv)) /\ ~ Refuses(st) => Writes(EnsureSegment(st, recv), r, f)
    PROVE  Operates(st, r, recv, f)
  <1> DEFINE e == EnsureSegment(st, recv)
  <1>1. FilesOK(st) /\ Ordered(st) /\ FilesOK(r)
    BY DEF Writing, LogOK
  <1>2. CASE Refuses(st)
    BY <1>1, <1>2, NothingLog DEF Operates, Appended
  <1>3. CASE ~ Refuses(st)
    <2>1. Writing(e) /\ FilesOK(e)
      BY EnsureKeeps DEF Writing
    <2>2. /\ ~ e.linked
          /\ Refuses(e) => LogOK(e) /\ Grows(st, e, << >>)
          /\ ~ Refuses(e) => Ready(e, recv) /\ Grows(st, e, Heading(st, recv))
          /\ \A t \in Nat : Until(st, t) /\ recv <= t => Until(e, t)
      BY <1>3, EnsureLog
    <2>3. (Refuses(e) => r = e) /\ (~ Refuses(e) => Writes(e, r, f))
      BY <1>3
    <2> HIDE DEF e
    <2>4. CASE Refuses(e)
      BY <2>2, <2>3, <2>4 DEF Operates, Appended
    <2>5. CASE ~ Refuses(e)
      <3>1. LogOK(r) /\ ~ r.linked /\ Appends(e, r, <<f>>) /\ r.seg # None /\ ~ r.runStartPending
            /\ \A t \in Nat : Until(e, t) /\ recv <= t => Until(r, t)
        BY <2>1, <2>2, <2>3, <2>5, WriteLog
      <3>2. Grows(st, r, Heading(st, recv) \o <<f>>)
        BY <1>1, <2>1, <2>2, <2>5, <3>1, GrowsMore
      <3>3. ~ Refuses(r)
        BY <2>3, <2>5 DEF Writes, WroteTo, Refuses
      <3> QED
        BY <1>3, <2>2, <3>1, <3>2, <3>3 DEF Operates, Appended
    <2> QED
      BY <2>4, <2>5
  <1> QED
    BY <1>2, <1>3

LEMMA AppendLog ==
    ASSUME NEW st, Writing(st), LogOK(st), ~ st.linked, NEW recv \in Time, MayOpen(st, recv),
           NEW s \in Stream, NEW v \in Time
    PROVE  Operates(st, AppendSample(st, s, recv, v), recv, SampleFrame(s, recv, v))
  <1> DEFINE r == AppendSample(st, s, recv, v)
             e == EnsureSegment(st, recv)
             f == SampleFrame(s, recv, v)
  <1>1. Writing(r) /\ (~ Refuses(e) /\ ~ Refuses(st) => Writes(e, r, f))
    BY AppendKeeps
  <1>2. (Refuses(st) => r = st) /\ (~ Refuses(st) /\ Refuses(e) => r = e)
    BY DEF AppendSample
  <1>3. f \in Frame /\ f.recv = recv
    <2>1. f \in Sample
      BY DEF SampleFrame, Sample
    <2> QED
      BY <2>1 DEF Frame, SampleFrame
  <1> HIDE DEF r, f
  <1>4. Operates(st, r, recv, f)
    BY <1>1, <1>2, <1>3, WritingLog
  <1> QED
    BY <1>4 DEF r, f

LEMMA TickLog ==
    ASSUME NEW st, Writing(st), LogOK(st), ~ st.linked, NEW recv \in Time, MayOpen(st, recv), NEW rec \in Record
    PROVE  Operates(st, Tick(st, recv, rec), recv, TickFrame(recv, rec))
  <1> DEFINE r == Tick(st, recv, rec)
             e == EnsureSegment(st, recv)
             f == TickFrame(recv, rec)
  <1>1. Writing(r) /\ (~ Refuses(e) /\ ~ Refuses(st) => Writes(e, r, f))
    BY TickKeeps
  <1>2. (Refuses(st) => r = st) /\ (~ Refuses(st) /\ Refuses(e) => r = e)
    BY DEF Tick
  <1>3. f \in Frame /\ f.recv = recv
    <2>1. f \in Ticked
      BY DEF TickFrame, Ticked
    <2> QED
      BY <2>1 DEF Frame, TickFrame
  <1> HIDE DEF r, f
  <1>4. Operates(st, r, recv, f)
    BY <1>1, <1>2, <1>3, WritingLog
  <1> QED
    BY <1>4 DEF r, f

\* The operations that write no frame.
Settles(st, r) ==
    /\ LogOK(r) /\ ~ r.linked /\ Grows(st, r, << >>)
    /\ ~ Refuses(r) => ~ Refuses(st) /\ r.runStartPending = st.runStartPending
    /\ \A t \in Nat : Until(st, t) => Until(r, t)
    /\ \A recv : MayOpen(st, recv) => MayOpen(r, recv)

LEMMA NothingSettles ==
    ASSUME NEW st, Writing(st), LogOK(st), ~ st.linked
    PROVE  Settles(st, st)
  <1>1. FilesOK(st) /\ Ordered(st)
    BY DEF Writing, LogOK
  <1>2. Grows(st, st, << >>)
    BY <1>1, NothingLog
  <1> QED
    BY <1>2 DEF Settles

LEMMA SameSettles ==
    ASSUME NEW st, Writing(st), LogOK(st), ~ st.linked, NEW r, FilesOK(r), r.sealed = st.sealed, r.active = st.active,
           r.seg = st.seg, r.lastRecv = st.lastRecv, r.linked = st.linked,
           r.synced = st.synced \/ \A s \in DOMAIN st.active : r.synced = Len(st.active[s]),
           r.runStartPending = st.runStartPending, ~ Refuses(r) => ~ Refuses(st),
           \A recv : MayOpen(st, recv) => MayOpen(r, recv)
    PROVE  Settles(st, r)
  <1>1. FilesOK(st) /\ Ordered(st)
    BY DEF Writing, LogOK
  <1>2. Appends(st, r, << >>)
    BY <1>1, SameLog
  <1>3. Grows(st, r, << >>)
    BY <1>1, <1>2, AppendsGrows
  <1>4. LogOK(r) /\ \A t : Until(st, t) => Until(r, t)
    BY <1>1, SameOK
  <1> QED
    BY <1>3, <1>4 DEF Settles

LEMMA SyncLog ==
    ASSUME NEW st, Writing(st), LogOK(st), ~ st.linked
    PROVE  Settles(st, Sync(st))
  <1> DEFINE r == Sync(st)
  <1>1. CASE st.seg = None \/ st.err
    BY <1>1, NothingSettles DEF Sync
  <1>2. CASE ~ (st.seg = None \/ st.err)
    <2>1. FilesOK(st) /\ Shaped(st) /\ FilesOK(r)
      BY SyncKeeps DEF Writing, FilesOK
    <2>2. r = [st EXCEPT !.synced = Len(st.active[st.seg])]
      BY <1>2 DEF Sync
    <2>3. DOMAIN st.active = {st.seg}
      BY <1>2, <2>1, OpenFile
    <2> HIDE DEF r
    <2>4. /\ r.sealed = st.sealed /\ r.active = st.active /\ r.seg = st.seg /\ r.linked = st.linked
          /\ r.lastRecv = st.lastRecv /\ r.synced = Len(st.active[st.seg])
          /\ r.runStartPending = st.runStartPending /\ r.err = st.err /\ r.closed = st.closed
      BY <2>1, <2>2 DEF Shaped
    <2>5. \A recv : MayOpen(r, recv)
      BY <1>2, <2>4 DEF MayOpen
    <2>6. \A s \in DOMAIN st.active : r.synced = Len(st.active[s])
      BY <2>3, <2>4
    <2>7. Settles(st, r)
      BY <2>1, <2>4, <2>5, <2>6, SameSettles DEF Refuses
    <2> QED
      BY <2>7 DEF r
  <1> QED
    BY <1>1, <1>2

LEMMA LatchLog ==
    ASSUME NEW st, Writing(st), LogOK(st), ~ st.linked
    PROVE  Settles(st, Latch(st))
  <1> DEFINE r == Latch(st)
  <1>1. FilesOK(st) /\ Shaped(st) /\ FilesOK(r)
    BY LatchKeeps DEF Writing, FilesOK
  <1>2. r = [st EXCEPT !.err = TRUE]
    BY DEF Latch
  <1> HIDE DEF r
  <1>3. /\ r.sealed = st.sealed /\ r.active = st.active /\ r.seg = st.seg /\ r.linked = st.linked
        /\ r.lastRecv = st.lastRecv /\ r.synced = st.synced /\ r.err = TRUE
        /\ r.runStartPending = st.runStartPending
    BY <1>1, <1>2 DEF Shaped
  <1>4. \A recv : MayOpen(r, recv)
    BY <1>3 DEF MayOpen, Refuses
  <1>5. Settles(st, r)
    BY <1>1, <1>3, <1>4, SameSettles DEF Refuses
  <1> QED
    BY <1>5 DEF r

LEMMA CloseLog ==
    ASSUME NEW st, Writing(st), LogOK(st), ~ st.linked
    PROVE  Settles(st, Close(st))
  <1> DEFINE r == Close(st)
             e == SealLocked(st)
  <1>1. CASE st.closed
    BY <1>1, NothingSettles DEF Close
  <1>2. CASE ~ st.closed
    <2>1. Writing(e) /\ FilesOK(e) /\ FilesOK(r) /\ Shaped(e) /\ FilesOK(st)
      BY SealKeeps, CloseKeeps DEF Writing, FilesOK
    <2>2. r = [e EXCEPT !.closed = TRUE]
      BY <1>2 DEF Close
    <2>3. Grows(st, e, << >>) /\ LogOK(e) /\ ~ e.linked /\ \A t \in Nat : Until(st, t) => Until(e, t)
      BY SealLog
    <2> HIDE DEF r, e
    <2>4. /\ r.sealed = e.sealed /\ r.active = e.active /\ r.seg = e.seg /\ r.linked = e.linked
          /\ r.lastRecv = e.lastRecv /\ r.synced = e.synced /\ r.closed = TRUE
          /\ r.runStartPending = e.runStartPending
      BY <2>1, <2>2 DEF Shaped
    <2>5. LogOK(r) /\ \A t : Until(e, t) => Until(r, t)
      BY <2>1, <2>3, <2>4, SameOK
    <2>6. Appends(e, r, << >>)
      BY <2>1, <2>3, <2>4, SameLog DEF LogOK
    <2>7. Grows(st, r, << >> \o << >>)
      BY <2>1, <2>3, <2>6, GrowsMore
    <2>8. Grows(st, r, << >>)
      BY <2>7, FramesConcat, DefinedEmpty
    <2>9. \A recv : MayOpen(r, recv)
      BY <2>4 DEF MayOpen, Refuses
    <2>10. ~ r.linked
      BY <2>3, <2>4
    <2> QED
      BY <2>3, <2>4, <2>5, <2>8, <2>9, <2>10 DEF Settles, Refuses, r
  <1> QED
    BY <1>1, <1>2

\* What a crash leaves: the log without some of its volatile entries.
Cuts(st, r) ==
    /\ LogOK(r)
    /\ \E A, B \in Seq(Frame) : EntryLog(st) = A \o B /\ EntryLog(r) = A /\ Len(B) <= VolatileEntries(st)
    /\ VolatileEntries(r) = 0
    /\ \A t \in Nat : Until(st, t) => Until(r, t)

LEMMA DeadLog ==
    ASSUME NEW st, Writing(st), LogOK(st), ~ st.linked, NEW n \in CanSurvive(st)
    PROVE  Cuts(st, Dead(st, n))
  <1> DEFINE r == Dead(st, n)
  <1>1. /\ FilesOK(st) /\ Ordered(st) /\ FilesOK(r) /\ r.seg = None /\ r.sealed = st.sealed /\ r.linked = FALSE
        /\ st.seg = None => DOMAIN r.active = {}
        /\ st.seg # None => /\ n \in 0 .. Len(st.active[st.seg]) /\ st.synced <= n
                            /\ \A x : x \in DOMAIN r.active <=> x = st.seg
                            /\ r.active[st.seg] = SubSeq(st.active[st.seg], 1, n)
    BY DeadKeeps DEF Writing, LogOK
  <1>2. r.synced = n
    BY DEF Dead, EmptyStore
  <1> HIDE DEF r
  <1>3. Ordered(r) /\ SealedFrames(r) = SealedFrames(st)
    BY <1>1, SameFrames
  <1> DEFINE a == Entries(SealedFrames(st))
  <1>4. EntryLog(st) = a \o Entries(OpenFrames(st)) /\ EntryLog(r) = a \o Entries(OpenFrames(r)) /\ a \in Seq(Frame)
    BY <1>1, <1>3, LogIs
  <1> HIDE DEF a
  <1>5. CASE st.seg = None
    <2>1. DOMAIN st.active = {} /\ DOMAIN r.active = {}
      BY <1>1, <1>5 DEF Writing
    <2>2. OpenFrames(st) = << >> /\ OpenFrames(r) = << >> /\ VolatileEntries(r) = 0 /\ VolatileEntries(st) = 0
      BY <1>1, <2>1, OpenFramesIs, VolatileIs
    <2>3. EntryLog(st) = a \o << >> /\ EntryLog(r) = a
      BY <1>4, <2>2, EntriesOfNone, FramesConcat
    <2>4. << >> \in Seq(Frame) /\ Len(<< >>) <= VolatileEntries(st)
      BY <2>2, DefinedEmpty
    <2>5. LogOK(r)
      BY <1>1, <1>3, <2>1 DEF LogOK, AfterSealed, Stamped
    <2>6. \A t \in Nat : Until(st, t) => Until(r, t)
      BY <1>1, <2>1 DEF Until
    <2>7. \E A, B \in Seq(Frame) : EntryLog(st) = A \o B /\ EntryLog(r) = A /\ Len(B) <= VolatileEntries(st)
      BY <1>4, <2>3, <2>4, Zenon
    <2> QED
      BY <2>2, <2>5, <2>6, <2>7 DEF Cuts, r
  <1>6. CASE st.seg # None
    <2> DEFINE s == st.seg
               q == st.active[s]
               k == st.synced
               p == SubSeq(q, 1, n)
    <2>1. /\ DOMAIN st.active = {s} /\ DOMAIN r.active = {s} /\ q \in Seq(Frame) /\ Defined(q) /\ k \in 0 .. Len(q)
          /\ n \in 0 .. Len(q) /\ k <= n /\ r.active[s] = p /\ s \in Nat
      BY <1>1, <1>6, OpenFile, TimeIs
    <2>2. OpenFrames(st) = q /\ OpenFrames(r) = p
      BY <1>1, <2>1, OpenFramesIs
    <2>3. p \in Seq(Frame) /\ Len(p) = n
      BY <2>1, DefinedPrefix
    <2>4. VolatileEntries(r) = 0
      BY <1>1, <1>2, <2>2, <2>3, VolatileIs
    <2>5. VolatileEntries(st) = Len(Entries(q)) - Len(Entries(SubSeq(q, 1, k)))
      BY <1>1, <2>2, VolatileIs
    <2> DEFINE x == SubSeq(q, 1, k)
               y == SubSeq(q, k + 1, n)
               z == SubSeq(q, n + 1, Len(q))
    <2>6. z \in Seq(Frame) /\ p \o z = q
      BY <2>1, Split
    <2>7. x \in Seq(Frame) /\ y \in Seq(Frame) /\ x \o y = p
      <3>1. Len(q) \in Nat /\ \A i \in 1 .. Len(q) : q[i] \in Frame
        BY <2>1, LenProperties, ElementOfSeq
      <3>2. x \in Seq(Frame)
        BY <2>1, Split
      <3>3. y \in Seq(Frame)
        <4>1. \A i \in (k + 1) .. n : q[i] \in Frame
          BY <2>1, <3>1
        <4> QED
          BY <2>1, <3>1, <4>1, SubSeqProperties
      <3>4. x \o y = p
        <4>1. 1 \in 1 .. (Len(q) + 1) /\ k \in (1 - 1) .. Len(q) /\ n \in k .. Len(q)
          BY <2>1, <3>1
        <4> QED
          BY <2>1, <4>1, ConcatAdjacentSubSeq
      <3> QED
        BY <3>2, <3>3, <3>4
    <2> HIDE DEF x, y, z, p, q
    <2>8. Entries(q) = Entries(p) \o Entries(z) /\ Entries(p) = Entries(x) \o Entries(y)
      BY <2>3, <2>6, <2>7, EntriesConcat
    <2>9. Entries(p) \in Seq(Frame) /\ Entries(z) \in Seq(Frame) /\ Entries(x) \in Seq(Frame) /\ Entries(y) \in Seq(Frame)
      BY <2>3, <2>6, <2>7, EntriesIs
    <2>10. /\ Len(Entries(q)) = Len(Entries(p)) + Len(Entries(z)) /\ Len(Entries(p)) = Len(Entries(x)) + Len(Entries(y))
           /\ Len(Entries(x)) \in Nat /\ Len(Entries(y)) \in Nat /\ Len(Entries(z)) \in Nat
      BY <2>8, <2>9, FramesConcat
    <2>11. Len(Entries(z)) <= VolatileEntries(st)
      BY <2>5, <2>10 DEF x
    <2>12. a \o (Entries(p) \o Entries(z)) = (a \o Entries(p)) \o Entries(z) /\ a \o Entries(p) \in Seq(Frame)
      BY <1>4, <2>9, FramesConcat
    <2>13. EntryLog(st) = (a \o Entries(p)) \o Entries(z) /\ EntryLog(r) = a \o Entries(p)
      BY <1>4, <2>2, <2>8, <2>12
    <2>14. \E A, B \in Seq(Frame) : EntryLog(st) = A \o B /\ EntryLog(r) = A /\ Len(B) <= VolatileEntries(st)
      BY <2>9, <2>11, <2>12, <2>13, Zenon
    <2>15. ASSUME NEW m \in DOMAIN r.sealed, p # << >> PROVE Behind(m, s, p)
      <3>1. Behind(m, s, q)
        BY <1>1, <1>6, <2>1, <2>15 DEF LogOK, AfterSealed, q
      <3> QED
        BY <2>1, <2>15, <3>1, BehindPrefix DEF p
    <2>16. AfterSealed(r)
      BY <1>1, <2>1, <2>15 DEF AfterSealed
    <2>17. LogOK(r)
      BY <1>1, <1>3, <2>16 DEF LogOK, Stamped
    <2>18. ASSUME NEW t \in Nat, Until(st, t) PROVE Until(r, t)
      <3>1. s <= t /\ NewestRecv(q) <= t
        BY <2>1, <2>18 DEF Until, q
      <3>2. NewestRecv(p) <= NewestRecv(q)
        BY <2>1, NewestOfPrefix DEF p
      <3>3. NewestRecv(p) \in Nat /\ NewestRecv(q) \in Nat
        BY <2>1, <2>3, NewestRecvIs, TimeIs
      <3>4. NewestRecv(p) <= t
        BY <3>1, <3>2, <3>3
      <3> QED
        BY <1>1, <2>1, <2>18, <3>1, <3>4 DEF Until
    <2> QED
      BY <2>4, <2>14, <2>17, <2>18 DEF Cuts, r
  <1> QED
    BY <1>5, <1>6

LEMMA DeadWhileSealingLog ==
    ASSUME NEW st, Writing(st), LogOK(st), ~ st.linked, Sealing(st)
    PROVE  Cuts(st, DeadWhileSealing(st))
  <1> DEFINE r == DeadWhileSealing(st)
             k == OpenName(st)
             s == st.seg
             q == st.active[s]
  <1>1. /\ FilesOK(st) /\ Ordered(st) /\ s # None /\ k \notin DOMAIN st.sealed
        /\ st.sealed \in Files(Name) /\ DOMAIN st.active = {s} /\ q \in Seq(Frame) /\ s \in Nat
        /\ NameOK(k) /\ k[1] = s /\ k[2] = (IF s < st.lastRecv THEN st.lastRecv ELSE s) /\ st.lastRecv \in Nat
    BY OpenFile, OpenNameIs, TimeIs DEF Writing, LogOK, Sealing, FilesOK
  <1>2. /\ FilesOK(r) /\ r.seg = None /\ r.linked = TRUE /\ r.sealed = Grown(st)
        /\ \A x : x \in DOMAIN r.active <=> x = s
        /\ r.active[s] = q
    BY <1>1, DeadWhileSealingKeeps
  <1>3. q # << >> /\ st.lastRecv = NewestRecv(q)
    BY <1>1 DEF LogOK, Stamped
  <1>4. k \in Name /\ k[2] \in Nat /\ k = SealedName(s, NewestRecv(q))
    BY <1>1, <1>3 DEF NameOK, Name, OpenName
  <1> HIDE DEF r, k, q
  <1>5. /\ \A n : n \in DOMAIN r.sealed <=> n \in DOMAIN st.sealed \/ n = k
        /\ r.sealed[k] = q /\ \A n \in DOMAIN st.sealed : r.sealed[n] = st.sealed[n]
    BY <1>1, <1>2, <1>4, WithIs DEF Grown, k, q
  <1>6. \A n \in DOMAIN st.sealed : Precedes(n, k) /\ n[2] <= k[2] /\ n \in Name
    <2> SUFFICES ASSUME NEW n \in DOMAIN st.sealed PROVE Precedes(n, k) /\ n[2] <= k[2] /\ n \in Name
      OBVIOUS
    <2>1. NameOK(n) /\ n # k
      BY <1>1 DEF FilesOK
    <2>2. Behind(n, k[1], q)
      BY <1>1 DEF LogOK, AfterSealed, q
    <2>3. NewestRecv(q) <= k[2]
      BY <1>1, <1>3
    <2> QED
      BY <1>1, <2>1, <2>2, <2>3, ComesAfter DEF NameOK
  <1>7. r.sealed \in Files(Name)
    BY <1>2 DEF FilesOK
  <1>8. Ordered(r) /\ SealedFrames(r) = SealedFrames(st) \o q
    BY <1>1, <1>4, <1>5, <1>6, <1>7, GrownLog
  <1>9. OpenFrames(st) = q /\ OpenFrames(r) = << >> /\ VolatileEntries(r) = 0
    BY <1>1, <1>2, OpenFramesIs, VolatileIs DEF q
  <1> DEFINE a == Entries(SealedFrames(st))
             b == Entries(q)
  <1>10. SealedFrames(st) \in Seq(Frame) /\ a \in Seq(Frame) /\ b \in Seq(Frame)
    BY <1>1, LogIs, EntriesIs
  <1>11. EntryLog(st) = a \o b
    BY <1>1, <1>9, LogIs
  <1>12. EntryLog(r) = Entries(SealedFrames(st) \o q) \o Entries(<< >>)
    BY <1>2, <1>8, <1>9, LogIs
  <1>13. Entries(SealedFrames(st) \o q) = a \o b
    BY <1>1, <1>10, EntriesConcat
  <1> HIDE DEF a, b
  <1>14. a \o b \in Seq(Frame) /\ (a \o b) \o << >> = a \o b
    BY <1>10, FramesConcat
  <1>15. EntryLog(r) = a \o b /\ EntryLog(st) = EntryLog(r) \o << >> /\ EntryLog(r) \in Seq(Frame)
    BY <1>11, <1>12, <1>13, <1>14, EntriesOfNone
  <1>16. << >> \in Seq(Frame) /\ Len(<< >>) <= VolatileEntries(st)
    <2>1. VolatileEntries(st) \in Nat
      BY <1>1, VolatileIs
    <2> QED
      BY <2>1, DefinedEmpty
  <1>17. \E A, B \in Seq(Frame) : EntryLog(st) = A \o B /\ EntryLog(r) = A /\ Len(B) <= VolatileEntries(st)
    BY <1>15, <1>16, Zenon
  <1>18. Ends(DOMAIN r.sealed)
    <2> SUFFICES ASSUME NEW m \in DOMAIN r.sealed, NEW n \in DOMAIN r.sealed, Precedes(m, n) PROVE m[2] <= n[2]
      BY DEF Ends
    <2>1. (m \in DOMAIN st.sealed \/ m = k) /\ (n \in DOMAIN st.sealed \/ n = k)
      BY <1>5
    <2>2. CASE n = k
      BY <1>4, <1>6, <2>1, <2>2
    <2>3. CASE n \in DOMAIN st.sealed /\ m \in DOMAIN st.sealed
      BY <2>3 DEF LogOK, Ends
    <2>4. CASE n \in DOMAIN st.sealed /\ m = k
      BY <1>4, <1>6, <2>4, PrecedesIs
    <2> QED
      BY <2>1, <2>2, <2>3, <2>4
  <1>19. \A x \in Leftover(r) : RecoveredName(r, x) \in DOMAIN r.sealed
    <2>1. \A x \in Leftover(r) : x = s
      BY <1>2 DEF Leftover
    <2>2. RecoveredName(r, s) = k
      BY <1>2, <1>4 DEF RecoveredName
    <2> QED
      BY <1>5, <2>1, <2>2
  <1>20. LogOK(r)
    BY <1>2, <1>8, <1>18, <1>19 DEF LogOK, Stamped
  <1>21. ASSUME NEW t \in Nat, Until(st, t) PROVE Until(r, t)
    <2>1. s <= t /\ NewestRecv(q) <= t
      BY <1>1, <1>21 DEF Until, q
    <2>2. k[2] <= t
      BY <1>1, <1>3, <2>1
    <2> QED
      BY <1>2, <1>5, <1>21, <2>1, <2>2 DEF Until
  <1> QED
    BY <1>9, <1>17, <1>20, <1>21 DEF Cuts, r

\* A restart seals the leftover file last and keeps the log.
LEMMA RecoveredLog ==
    ASSUME NEW st, FilesOK(st), LogOK(st), ~ Refused(st)
    PROVE  /\ LogOK(Recovered(st)) /\ EntryLog(Recovered(st)) = EntryLog(st) /\ VolatileEntries(Recovered(st)) = 0
           /\ \A t \in Nat : Until(st, t) => Until(Recovered(st), t)
  <1> DEFINE r == Recovered(st)
  <1>1. /\ FilesOK(r) /\ r.seg = None /\ ~ r.linked /\ DOMAIN r.active = {}
        /\ \A n \in DOMAIN st.sealed : n \in DOMAIN r.sealed /\ r.sealed[n] = st.sealed[n]
        /\ \A n \in DOMAIN r.sealed : n \in DOMAIN st.sealed \/ \E s \in Leftover(st) : n = RecoveredName(st, s)
        /\ \A s \in Leftover(st) : /\ RecoveredName(st, s) \in DOMAIN r.sealed
                                   /\ r.sealed[RecoveredName(st, s)] = st.active[s]
    BY RecoveredKeeps DEF Writing
  <1> HIDE DEF r
  <1>2. Ordered(st) /\ Ends(DOMAIN st.sealed) /\ st.sealed \in Files(Name) /\ r.sealed \in Files(Name)
    BY <1>1 DEF LogOK, FilesOK
  <1>3. OpenFrames(r) = << >> /\ VolatileEntries(r) = 0
    BY <1>1, OpenFramesIs, VolatileIs
  <1>4. AfterSealed(r) /\ Stamped(r)
    BY <1>1 DEF AfterSealed, Stamped
  <1>5. CASE Leftover(st) = {}
    <2>1. \A n : n \in DOMAIN r.sealed <=> n \in DOMAIN st.sealed
      BY <1>1, <1>5
    <2>2. r.sealed = st.sealed
      <3> DEFINE R == r.sealed
                 S == st.sealed
      <3>1. R = [n \in DOMAIN R |-> R[n]] /\ S = [n \in DOMAIN S |-> S[n]]
        BY <1>2, FilesAre
      <3>2. DOMAIN R = DOMAIN S
        BY <2>1
      <3>3. \A n \in DOMAIN S : R[n] = S[n]
        BY <1>1
      <3> HIDE DEF R, S
      <3>4. R = S
        BY <3>1, <3>2, <3>3
      <3> QED
        BY <3>4 DEF R, S
    <2>3. OpenFrames(st) = << >>
      <3>1. CASE st.linked \/ DOMAIN st.active = {}
        BY <3>1, OpenFramesIs
      <3>2. CASE ~ (st.linked \/ DOMAIN st.active = {})
        <4>1. PICK s \in DOMAIN st.active : TRUE
          BY <3>2
        <4>2. st.active[s] = << >>
          BY <1>5, <4>1 DEF Leftover
        <4> QED
          BY <3>2, <4>1, <4>2, OpenFramesIs
      <3> QED
        BY <3>1, <3>2
    <2>4. Ordered(r) /\ SealedFrames(r) = SealedFrames(st)
      BY <1>2, <2>2, SameFrames
    <2>5. EntryLog(r) = EntryLog(st)
      BY <1>1, <1>2, <1>3, <2>3, <2>4, LogIs
    <2>6. LogOK(r)
      BY <1>1, <1>2, <1>4, <2>2, <2>4 DEF LogOK
    <2>7. \A t \in Nat : Until(st, t) => Until(r, t)
      BY <1>1, <2>2 DEF Until
    <2> QED
      BY <1>3, <2>5, <2>6, <2>7 DEF r
  <1>6. ASSUME NEW s \in Leftover(st)
        PROVE  /\ LogOK(r) /\ EntryLog(r) = EntryLog(st)
               /\ \A t \in Nat : Until(st, t) => Until(r, t)
    <2> DEFINE k == RecoveredName(st, s)
               q == st.active[s]
    <2>1. /\ s \in Nat /\ q \in Seq(Frame) /\ DOMAIN st.active = {s} /\ Leftover(st) = {s} /\ q # << >>
          /\ k[1] = s /\ NameOK(k) /\ k[2] = (IF s < NewestRecv(q) THEN NewestRecv(q) ELSE s)
          /\ k \notin DOMAIN st.sealed /\ NewestRecv(q) \in Nat
      BY RecoveredNameIs, NewestRecvIs, TimeIs DEF Refused
    <2>2. ~ st.linked
      BY DEF LogOK, Refused
    <2>3. /\ \A n : n \in DOMAIN r.sealed <=> n \in DOMAIN st.sealed \/ n = k
          /\ r.sealed[k] = q /\ \A n \in DOMAIN st.sealed : r.sealed[n] = st.sealed[n]
      BY <1>1, <2>1
    <2>4. k \in Name /\ k[2] \in Nat
      BY <2>1 DEF NameOK, Name
    <2> HIDE DEF k, q
    <2>5. \A n \in DOMAIN st.sealed : Precedes(n, k) /\ n[2] <= k[2] /\ n \in Name
      <3> SUFFICES ASSUME NEW n \in DOMAIN st.sealed PROVE Precedes(n, k) /\ n[2] <= k[2] /\ n \in Name
        OBVIOUS
      <3>1. NameOK(n) /\ n # k
        BY <2>1 DEF FilesOK
      <3>2. Behind(n, k[1], q)
        BY <2>1, <2>2 DEF LogOK, AfterSealed, q
      <3>3. NewestRecv(q) <= k[2]
        BY <2>1
      <3> QED
        BY <2>1, <3>1, <3>2, <3>3, ComesAfter DEF NameOK
    <2>6. Ordered(r) /\ SealedFrames(r) = SealedFrames(st) \o q
      BY <1>2, <2>1, <2>3, <2>4, <2>5, GrownLog
    <2>7. OpenFrames(st) = q
      BY <2>1, <2>2, OpenFramesIs DEF q
    <2> DEFINE a == Entries(SealedFrames(st))
               b == Entries(q)
    <2>8. SealedFrames(st) \in Seq(Frame) /\ a \in Seq(Frame) /\ b \in Seq(Frame)
      BY <1>2, <2>1, LogIs, EntriesIs
    <2>9. EntryLog(st) = a \o b
      BY <1>2, <2>7, LogIs
    <2>10. EntryLog(r) = Entries(SealedFrames(st) \o q) \o Entries(<< >>)
      BY <1>1, <1>3, <2>6, LogIs
    <2>11. Entries(SealedFrames(st) \o q) = a \o b
      BY <2>1, <2>8, EntriesConcat
    <2> HIDE DEF a, b
    <2>12. (a \o b) \o << >> = a \o b
      BY <2>8, FramesConcat
    <2>13. EntryLog(r) = EntryLog(st)
      BY <2>9, <2>10, <2>11, <2>12, EntriesOfNone
    <2>14. Ends(DOMAIN r.sealed)
      <3> SUFFICES ASSUME NEW m \in DOMAIN r.sealed, NEW n \in DOMAIN r.sealed, Precedes(m, n) PROVE m[2] <= n[2]
        BY DEF Ends
      <3>1. (m \in DOMAIN st.sealed \/ m = k) /\ (n \in DOMAIN st.sealed \/ n = k)
        BY <2>3
      <3>2. CASE n = k
        BY <2>4, <2>5, <3>1, <3>2
      <3>3. CASE n \in DOMAIN st.sealed /\ m \in DOMAIN st.sealed
        BY <1>2, <3>3 DEF Ends
      <3>4. CASE n \in DOMAIN st.sealed /\ m = k
        BY <2>4, <2>5, <3>4, PrecedesIs
      <3> QED
        BY <3>1, <3>2, <3>3, <3>4
    <2>15. LogOK(r)
      BY <1>1, <1>4, <2>6, <2>14 DEF LogOK
    <2>16. ASSUME NEW t \in Nat, Until(st, t) PROVE Until(r, t)
      <3>1. s <= t /\ NewestRecv(q) <= t
        BY <2>1, <2>16 DEF Until, q
      <3>2. k[2] <= t
        BY <2>1, <3>1
      <3> QED
        BY <1>1, <2>3, <2>16, <3>2 DEF Until
    <2> QED
      BY <2>13, <2>15, <2>16
  <1> QED
    BY <1>3, <1>5, <1>6 DEF r

-----------------------------------------------------------------------------
(* The loops: no one is about to write a stamp that the log has passed.    *)

LogInv ==
    /\ LogOK(store) /\ Until(store, clock)
    /\ up => ~ store.linked /\ MayOpen(store, clock)
    /\ scrape.todo # {} => up /\ scrape.recv <= clock /\ MayOpen(store, scrape.recv)
    /\ tick.phase = "capture" => up /\ tick.now <= clock /\ MayOpen(store, tick.now)

\* What the log and its volatile part become, in DurableLog's terms.
LogSteps(st, r) ==
    \/ ExtendRel(EntryLog(st), VolatileEntries(st), EntryLog(r), VolatileEntries(r))
    \/ LoseRel(EntryLog(st), VolatileEntries(st), EntryLog(r)) /\ VolatileEntries(r) = 0

LEMMA GrowsSteps ==
    ASSUME NEW st, FilesOK(st), NEW r, FilesOK(r), NEW C, Grows(st, r, C), Len(C) <= 2
    PROVE  LogSteps(st, r)
  <1>1. PICK A \in Seq(Frame), B \in Seq(Frame) :
            /\ EntryLog(st) = A \o B /\ EntryLog(r) = B \o C /\ C \in Seq(Frame)
            /\ VolatileEntries(st) <= Len(B) /\ VolatileEntries(r) <= VolatileEntries(st) + Len(C)
    BY DEF Grows
  <1>2. A \in Seq(Frame) /\ B \in Seq(Frame) /\ C \in Seq(Frame) /\ Len(C) \in Nat
    BY <1>1, LenProperties
  <1>4. VolatileEntries(st) \in Nat /\ VolatileEntries(r) \in Nat
    BY VolatileIs
  <1>5. ExtendRel(A \o B, VolatileEntries(st), B \o C, VolatileEntries(r))
    BY <1>1, <1>2, <1>4, Extends
  <1> QED
    BY <1>1, <1>5 DEF LogSteps

LEMMA CutsSteps ==
    ASSUME NEW st, FilesOK(st), NEW r, Cuts(st, r)
    PROVE  LogSteps(st, r)
  <1>1. PICK A \in Seq(Frame), B \in Seq(Frame) :
            EntryLog(st) = A \o B /\ EntryLog(r) = A /\ Len(B) <= VolatileEntries(st)
    BY DEF Cuts
  <1>2. A \in Seq(Frame) /\ B \in Seq(Frame) /\ VolatileEntries(st) \in Nat
    BY <1>1, VolatileIs
  <1>3. LoseRel(A \o B, VolatileEntries(st), A)
    BY <1>1, <1>2, Loses
  <1> QED
    BY <1>1, <1>3 DEF LogSteps, Cuts

LEMMA SameSteps ==
    ASSUME NEW st, FilesOK(st), Ordered(st), NEW r, EntryLog(r) = EntryLog(st), VolatileEntries(r) = 0
    PROVE  LogSteps(st, r)
  <1>1. EntryLog(st) \in Seq(Frame) /\ EntryLog(st) \o << >> = EntryLog(st) /\ << >> \in Seq(Frame)
        /\ VolatileEntries(st) \in Nat
    BY LogIs, VolatileIs, FramesConcat, DefinedEmpty
  <1>2. Len(<< >>) <= VolatileEntries(st)
    BY <1>1, DefinedEmpty
  <1>3. LoseRel(EntryLog(st) \o << >>, VolatileEntries(st), EntryLog(st))
    BY <1>1, <1>2, Loses
  <1> QED
    BY <1>1, <1>3 DEF LogSteps


LEMMA UntilLater ==
    ASSUME NEW st, FilesOK(st), NEW a \in Nat, NEW b \in Nat, a <= b
    PROVE  (Until(st, a) => Until(st, b)) /\ (MayOpen(st, a) => MayOpen(st, b))
  <1>1. \A n \in DOMAIN st.sealed : n[2] \in Nat
    BY DEF FilesOK, NameOK, Name
  <1>2. \A s \in DOMAIN st.active : s \in Nat /\ NewestRecv(st.active[s]) \in Nat
    <2> SUFFICES ASSUME NEW s \in DOMAIN st.active PROVE s \in Nat /\ NewestRecv(st.active[s]) \in Nat
      OBVIOUS
    <2>1. s \in Time /\ st.active[s] \in Seq(Frame)
      BY FilesAre DEF FilesOK
    <2> QED
      BY <2>1, NewestRecvIs, TimeIs
  <1>3. \A x \in Nat : x <= a => x <= b
    OBVIOUS
  <1> QED
    BY <1>1, <1>2, <1>3 DEF Until, MayOpen

LEMMA LogInit == Init => LogInv /\ EntryLog(store) = << >> /\ VolatileEntries(store) = 0
  <1> SUFFICES ASSUME Init PROVE LogInv /\ EntryLog(store) = << >> /\ VolatileEntries(store) = 0
    OBVIOUS
  <1>1. FilesOK(store) /\ store.sealed = NoFiles /\ store.active = NoFiles /\ ~ store.linked
        /\ store.runStartPending = TRUE /\ store.seg = None
    <2>1. CaptureInv
      BY CaptureInit
    <2>2. store = [sealed |-> NoFiles, active |-> NoFiles, synced |-> 0, seg |-> None, lastRecv |-> 0,
                   idx |-> {}, runStartPending |-> TRUE, closed |-> FALSE, err |-> FALSE, linked |-> FALSE] /\ up
      BY DEF Init, EmptyStore
    <2> QED
      BY <2>1, <2>2 DEF CaptureInv, StoreOK, Writing
  <1>2. DOMAIN NoFiles = {} /\ NoFiles \in Files(Name)
    BY NoFilesIs
  <1>3. Listed(<< >>, {})
    <2>1. << >> \in Seq(Name) /\ Len(<< >>) = 0
      OBVIOUS
    <2> QED
      BY <2>1 DEF Listed
  <1>4. Ordered(store) /\ SealedFrames(store) = << >>
    <2>1. Listed(<< >>, DOMAIN store.sealed) /\ store.sealed \in Files(Name)
      BY <1>1, <1>2, <1>3
    <2>2. SealedFrames(store) = FlattenSeq(FilesOf(<< >>, store.sealed))
      BY <2>1, SealedFramesIs
    <2>3. FilesOf(<< >>, store.sealed) = << >>
      BY DEF FilesOf
    <2> QED
      BY <2>1, <2>2, <2>3, FlattenOfNone DEF Ordered
  <1>5. OpenFrames(store) = << >> /\ VolatileEntries(store) = 0
    BY <1>1, <1>2, OpenFramesIs, VolatileIs
  <1>6. EntryLog(store) = << >>
    <2>1. EntryLog(store) = Entries(<< >>) \o Entries(<< >>)
      BY <1>1, <1>4, <1>5, LogIs
    <2> QED
      BY <2>1, EntriesOfNone, DefinedEmpty, FramesConcat
  <1>7. LogOK(store) /\ Until(store, clock) /\ MayOpen(store, clock)
    BY <1>1, <1>2, <1>4 DEF LogOK, Ends, AfterSealed, Stamped, Until, MayOpen
  <1>8. scrape.todo = {} /\ tick.phase # "capture"
    BY DEF Init, Idle, IdleTick
  <1> QED
    BY <1>1, <1>5, <1>6, <1>7, <1>8 DEF LogInv

LEMMA AppendedIs ==
    ASSUME NEW st, NEW r, NEW f \in Frame, f.recv \in Time
    PROVE  Appended(st, r, f) \in Seq(Frame) /\ Len(Appended(st, r, f)) <= 2
  <1> DEFINE h == Heading(st, f.recv)
  <1>1. h \in Seq(Frame) /\ Len(h) <= 1 /\ Len(h) \in Nat
    BY HeadingLog, LenProperties
  <1>2. <<f>> \in Seq(Frame) /\ Len(<<f>>) = 1
    OBVIOUS
  <1> HIDE DEF h
  <1>3. h \o <<f>> \in Seq(Frame) /\ Len(h \o <<f>>) = Len(h) + 1
    BY <1>1, <1>2, FramesConcat
  <1>4. Len(h \o <<f>>) <= 2
    BY <1>1, <1>3
  <1> QED
    BY <1>3, <1>4, DefinedEmpty DEF Appended, h

\* An operation of the running process on the store.
LEMMA WrittenKeepsLog ==
    ASSUME CaptureInv, LogInv, CaptureInv', up, up', clock' = clock, NEW recv \in Time, recv <= clock,
           NEW f, Operates(store, store', recv, f),
           scrape'.todo # {} => scrape.todo # {} /\ scrape'.recv = scrape.recv,
           tick'.phase = "capture" => tick.phase = "capture" /\ tick'.now = tick.now
    PROVE  LogInv' /\ LogSteps(store, store')
  <1>1. FilesOK(store) /\ FilesOK(store') /\ clock \in Nat /\ recv \in Nat
    BY TimeIs DEF CaptureInv, StoreOK, Writing, LoopsOK
  <1>2. LogOK(store') /\ ~ store'.linked /\ Grows(store, store', Appended(store, store', f)) /\ \A t : MayOpen(store', t)
    BY DEF Operates, MayOpen
  <1>3. Until(store', clock)
    BY <1>1 DEF Operates, LogInv
  <1>4. Len(Appended(store, store', f)) <= 2
    BY AppendedIs DEF Operates
  <1>5. LogSteps(store, store')
    BY <1>1, <1>2, <1>4, GrowsSteps
  <1>6. LogInv'
    BY <1>2, <1>3 DEF LogInv
  <1> QED
    BY <1>5, <1>6

LEMMA SettledKeepsLog ==
    ASSUME CaptureInv, LogInv, CaptureInv', up, UNCHANGED <<up, clock, scrape, tick>>, Settles(store, store')
    PROVE  LogInv' /\ LogSteps(store, store')
  <1>1. FilesOK(store) /\ FilesOK(store') /\ clock \in Nat
    BY TimeIs DEF CaptureInv, StoreOK, Writing, LoopsOK
  <1>2. LogOK(store') /\ ~ store'.linked /\ Grows(store, store', << >>) /\ Until(store', clock)
        /\ \A t : MayOpen(store, t) => MayOpen(store', t)
    BY <1>1 DEF Settles, LogInv
  <1>3. LogSteps(store, store')
    BY <1>1, <1>2, DefinedEmpty, GrowsSteps
  <1>4. LogInv'
    BY <1>2 DEF LogInv
  <1> QED
    BY <1>3, <1>4

LEMMA CutKeepsLog ==
    ASSUME CaptureInv, LogInv, Down, Cuts(store, store')
    PROVE  LogInv' /\ LogSteps(store, store')
  <1>1. FilesOK(store) /\ clock \in Nat
    BY TimeIs DEF CaptureInv, StoreOK, Writing, LoopsOK
  <1>2. ~ up' /\ clock' = clock /\ scrape'.todo = {} /\ tick'.phase # "capture"
    BY DEF Down, Idle, IdleTick
  <1>3. LogOK(store') /\ Until(store', clock)
    BY <1>1 DEF Cuts, LogInv
  <1>4. LogSteps(store, store')
    BY <1>1, CutsSteps
  <1>5. LogInv'
    BY <1>2, <1>3 DEF LogInv
  <1> QED
    BY <1>4, <1>5

LEMMA LogKeeps ==
    ASSUME CaptureInv, LogInv, [Next]_vars
    PROVE  LogInv' /\ (LogSteps(store, store') \/ store' = store)
  <1>1. CaptureInv'
    BY CaptureKeeps
  <1>2. FilesOK(store) /\ clock \in Nat /\ clock \in Time
    BY TimeIs DEF CaptureInv, StoreOK, Writing, LoopsOK
  <1>3. up => Writing(store) /\ LogOK(store) /\ ~ store.linked
    BY DEF CaptureInv, StoreOK, LogInv
  <1>4. CASE Fetch
    <2>1. store' = store /\ up /\ up' = up /\ tick' = tick /\ clock' \in Later /\ scrape'.recv = clock'
      BY <1>4 DEF Fetch, bundle
    <2>2. clock' \in Nat /\ clock <= clock'
      BY <1>2, <2>1, LaterIs, TimeIs
    <2>3. LogOK(store') /\ ~ store'.linked /\ Until(store', clock') /\ MayOpen(store', clock')
      BY <1>2, <2>1, <2>2, UntilLater DEF LogInv
    <2>4. tick.phase = "capture" => tick.now <= clock'
      BY <1>2, <2>2, TimeIs DEF LogInv, CaptureInv, LoopsOK
    <2>5. LogInv'
      BY <2>1, <2>2, <2>3, <2>4 DEF LogInv
    <2> QED
      BY <2>1, <2>5
  <1>5. ASSUME NEW s \in Stream, IngestSample(s)
        PROVE  LogInv' /\ (LogSteps(store, store') \/ store' = store)
    <2>1. up /\ up' = up /\ clock' = clock /\ tick' = tick /\ s \in scrape.todo
          /\ store' = AppendSample(store, s, scrape.recv, scrape.recv)
      BY <1>5 DEF IngestSample
    <2>2. scrape.recv \in Time /\ scrape.recv <= clock /\ MayOpen(store, scrape.recv)
      BY <2>1 DEF CaptureInv, LoopsOK, LogInv
    <2>3. Operates(store, store', scrape.recv, SampleFrame(s, scrape.recv, scrape.recv))
      BY <1>3, <2>1, <2>2, AppendLog
    <2>4. scrape'.todo # {} => scrape.todo # {} /\ scrape'.recv = scrape.recv
      <3>1. CASE scrape.todo = {s}
        BY <1>5, <3>1 DEF IngestSample, Idle
      <3>2. CASE scrape.todo # {s}
        BY <1>5, <2>1, <3>2 DEF IngestSample, CaptureInv, LoopsOK
      <3> QED
        BY <3>1, <3>2
    <2> QED
      BY <1>1, <2>1, <2>2, <2>3, <2>4, WrittenKeepsLog
  <1>6. CASE TickEvaluate
    <2>1. store' = store /\ up /\ up' = up /\ scrape' = scrape /\ clock' \in Later /\ tick'.now = clock'
      BY <1>6 DEF TickEvaluate, bundle
    <2>2. clock' \in Nat /\ clock <= clock'
      BY <1>2, <2>1, LaterIs, TimeIs
    <2>3. LogOK(store') /\ ~ store'.linked /\ Until(store', clock') /\ MayOpen(store', clock')
      BY <1>2, <2>1, <2>2, UntilLater DEF LogInv
    <2>4. scrape.todo # {} => scrape.recv <= clock'
      BY <1>2, <2>2, TimeIs DEF LogInv, CaptureInv, LoopsOK
    <2>5. LogInv'
      BY <2>1, <2>2, <2>3, <2>4 DEF LogInv
    <2> QED
      BY <2>1, <2>5
  <1>7. CASE TickCapture
    <2>1. up /\ tick.phase = "capture" /\ tick' = IdleTick /\ UNCHANGED <<clock, up, bars, scrape>>
          /\ store' = Tick(store, tick.now, [epoch |-> IF bars = None THEN 0 ELSE epoch', digest |-> tick.digest])
      BY <1>7 DEF TickCapture
    <2>2. tick.now \in Time /\ tick.now <= clock /\ MayOpen(store, tick.now) /\ tick.digest \in Digest
      BY <2>1 DEF CaptureInv, LoopsOK, LogInv
    <2>3. epoch' \in Nat
      BY <1>1, <2>1 DEF CaptureInv, EpochsOK
    <2>4. [epoch |-> IF bars = None THEN 0 ELSE epoch', digest |-> tick.digest] \in Record
      BY <2>2, <2>3 DEF Record
    <2>5. Operates(store, store', tick.now, TickFrame(tick.now, [epoch |-> IF bars = None THEN 0 ELSE epoch', digest |-> tick.digest]))
      BY <1>3, <2>1, <2>2, <2>4, TickLog
    <2>6. tick'.phase # "capture"
      BY <2>1 DEF IdleTick
    <2> QED
      BY <1>1, <2>1, <2>2, <2>5, <2>6, WrittenKeepsLog
  <1>8. CASE TickNotCaptured
    <2>1. UNCHANGED <<store, clock, up, scrape>> /\ tick'.phase # "capture"
      BY <1>8 DEF TickNotCaptured, bundle, IdleTick
    <2> QED
      BY <2>1 DEF LogInv
  <1>9. CASE FsyncLoop
    <2>1. up /\ store' = Sync(store) /\ UNCHANGED <<up, clock, scrape, tick>>
      BY <1>9 DEF FsyncLoop, OnlyStore, process
    <2>2. Settles(store, store')
      BY <1>3, <2>1, SyncLog
    <2> QED
      BY <1>1, <2>1, <2>2, SettledKeepsLog
  <1>10. CASE DiskFails
    <2>1. up /\ store' = Latch(store) /\ UNCHANGED <<up, clock, scrape, tick>>
      BY <1>10 DEF DiskFails, process
    <2>2. Settles(store, store')
      BY <1>3, <2>1, LatchLog
    <2> QED
      BY <1>1, <2>1, <2>2, SettledKeepsLog
  <1>11. CASE CloseCapture
    <2>1. up /\ store' = Close(store) /\ UNCHANGED <<up, clock, scrape, tick>>
      BY <1>11 DEF CloseCapture, OnlyStore, process
    <2>2. Settles(store, store')
      BY <1>3, <2>1, CloseLog
    <2> QED
      BY <1>1, <2>1, <2>2, SettledKeepsLog
  <1>12. CASE Crash
    <2>1. PICK n \in CanSurvive(store) : store' = Dead(store, n)
      BY <1>12 DEF Crash
    <2>2. up /\ Down
      BY <1>12 DEF Crash
    <2>3. Cuts(store, store')
      BY <1>3, <2>1, <2>2, DeadLog
    <2> QED
      BY <2>2, <2>3, CutKeepsLog
  <1>13. CASE CrashWhileSealing
    <2>1. up /\ Down /\ Sealing(store) /\ store' = DeadWhileSealing(store)
      BY <1>13 DEF CrashWhileSealing, Sealing, Refuses
    <2>2. Cuts(store, store')
      BY <1>3, <2>1, DeadWhileSealingLog
    <2> QED
      BY <2>1, <2>2, CutKeepsLog
  <1>14. CASE Restart
    <2>1. ~ up /\ ~ Refused(store) /\ store' = Recovered(store) /\ UNCHANGED <<clock, scrape, tick>>
      BY <1>14 DEF Restart
    <2>2. LogOK(store) /\ Until(store, clock)
      BY DEF LogInv
    <2>3. LogOK(store') /\ EntryLog(store') = EntryLog(store) /\ VolatileEntries(store') = 0 /\ Until(store', clock)
      BY <1>2, <2>1, <2>2, RecoveredLog
    <2>4. store'.linked = FALSE /\ store'.runStartPending = TRUE
      BY <1>2, <2>1, RecoveredKeeps
    <2>5. scrape.todo = {} /\ tick.phase # "capture"
      BY <2>1 DEF LogInv
    <2>6. MayOpen(store', clock)
      BY <2>3, <2>4 DEF MayOpen, Until
    <2>7. LogInv'
      BY <2>1, <2>3, <2>4, <2>5, <2>6 DEF LogInv
    <2>8. LogSteps(store, store')
      BY <1>2, <2>2, <2>3, SameSteps DEF LogOK
    <2> QED
      BY <2>7, <2>8
  <1>15. CASE UNCHANGED vars
    BY <1>15 DEF LogInv, vars, process
  <1> QED
    BY <1>4, <1>5, <1>6, <1>7, <1>8, <1>9, <1>10, <1>11, <1>12, <1>13, <1>14, <1>15 DEF Next

LEMMA LogInvAlways == Spec => [](CaptureInv /\ LogInv)
  <1>1. Init => CaptureInv /\ LogInv
    BY CaptureInit, LogInit
  <1>2. CaptureInv /\ LogInv /\ [Next]_vars => (CaptureInv /\ LogInv)'
    BY CaptureKeeps, LogKeeps
  <1> QED
    BY <1>1, <1>2, PTL DEF Spec

\* The log of entries in the store is the log a caller was promised: entries are appended
\* one at a time, with the run boundary before the first of a run; a roll, a seal, a
\* synchronisation and a restart add nothing and lose nothing; retention forgets the oldest
\* of them; and a crash takes only from the end, and nothing that had been synced
\* (internal/qss/warm.go: ensureSegment, append, sealRename, recoverActive, applyRetention).
THEOREM TheLogIsKept == Spec => KeepsTheLog
  <1>1. Init => Log!LogInit
    BY LogInit DEF Log!LogInit
  <1>2. CaptureInv /\ LogInv /\ [Next]_vars => [Log!LogNext]_(Log!logVars)
    <2> SUFFICES ASSUME CaptureInv, LogInv, [Next]_vars PROVE [Log!LogNext]_(Log!logVars)
      OBVIOUS
    <2>1. CASE store' = store
      BY <2>1 DEF Log!logVars
    <2>2. CASE LogSteps(store, store')
      <3>1. CASE ExtendRel(EntryLog(store), VolatileEntries(store), EntryLog(store'), VolatileEntries(store'))
        BY <3>1 DEF ExtendRel, Log!LogNext, Log!Extend, IsPrefix, Log!IsPrefix
      <3>2. CASE LoseRel(EntryLog(store), VolatileEntries(store), EntryLog(store')) /\ VolatileEntries(store') = 0
        BY <3>2 DEF LoseRel, Log!LogNext, Log!Lose, IsPrefix, Log!IsPrefix
      <3> QED
        BY <2>2, <3>1, <3>2 DEF LogSteps
    <2> QED
      BY <2>1, <2>2, LogKeeps
  <1> QED
    BY <1>1, <1>2, LogInvAlways, PTL DEF Spec, KeepsTheLog, Log!LogSpec


-----------------------------------------------------------------------------
(* Replay, of any entries under any bars files.                            *)

HashIn(bf, e) == IF e = 0 THEN None ELSE bf[e]

TickIn(bf, r, f) ==
    [now |-> f.recv, recorded |-> f.record.digest, anchored |-> r.anchored,
     replayed |-> View(r.rings, HashIn(bf, f.record.epoch), r.memory)]

Replays(bf, r, f) ==
    CASE f.kind = "run"    -> [Fresh EXCEPT !.anchored = TRUE, !.ticks = r.ticks]
      [] f.kind = "def"    -> r
      [] f.kind = "sample" -> [r EXCEPT !.rings = Pushed(@, f.stream, f.value)]
      [] f.kind = "tick"   -> [r EXCEPT !.memory = Observed(@, HashIn(bf, f.record.epoch)),
                                        !.ticks = @ \cup {TickIn(bf, r, f)}]

Replay(bf, q) ==
    LET after[i \in 0 .. Len(q)] ==
            IF i = 0 THEN Fresh ELSE Replays(bf, after[i - 1], q[i])
    IN  after[Len(q)]

\* What a replay can hold in the middle of its work.
BarsIn(bf) == {HashIn(bf, e) : e \in Nat} \cup {None}
Told(bf) ==
    [now : Time, recorded : Digest, anchored : BOOLEAN, replayed : [rings : Rings, bars : BarsIn(bf), memory : Nat]]
Replayed(bf) == [rings : Rings, memory : Nat, anchored : BOOLEAN, ticks : SUBSET Told(bf)]

LEMMA ReplayedTicksAre == ReplayedTicks = Replay(barsFiles, SealedFrames(store)).ticks
  BY DEF ReplayedTicks, Replay, Replays, TickIn, ReplayStep, HashOf, HashIn

LEMMA FreshIs == ASSUME NEW bf PROVE Fresh \in Replayed(bf) /\ ~ Fresh.anchored /\ Fresh.ticks = {}
  BY NoRingsIs DEF Fresh, Replayed

LEMMA ReplaysIs ==
    ASSUME NEW bf, NEW r \in Replayed(bf), NEW f \in Frame
    PROVE  /\ Replays(bf, r, f) \in Replayed(bf)
           /\ f.kind = "run" => /\ Replays(bf, r, f).rings = NoRings /\ Replays(bf, r, f).memory = 0
                                /\ Replays(bf, r, f).anchored /\ Replays(bf, r, f).ticks = r.ticks
           /\ f.kind = "def" => Replays(bf, r, f) = r
           /\ f.kind = "sample" => /\ Replays(bf, r, f).rings = Pushed(r.rings, f.stream, f.value)
                                   /\ Replays(bf, r, f).memory = r.memory
                                   /\ Replays(bf, r, f).anchored = r.anchored /\ Replays(bf, r, f).ticks = r.ticks
           /\ f.kind = "tick" => /\ Replays(bf, r, f).rings = r.rings
                                 /\ Replays(bf, r, f).memory = Observed(r.memory, HashIn(bf, f.record.epoch))
                                 /\ Replays(bf, r, f).anchored = r.anchored
                                 /\ Replays(bf, r, f).ticks = r.ticks \cup {TickIn(bf, r, f)}
  <1> DEFINE x == Replays(bf, r, f)
  <1>1. /\ r = [rings |-> r.rings, memory |-> r.memory, anchored |-> r.anchored, ticks |-> r.ticks]
        /\ r.rings \in Rings /\ r.memory \in Nat /\ r.anchored \in BOOLEAN /\ r.ticks \in SUBSET Told(bf)
    BY DEF Replayed
  <1>2. CASE f.kind = "run"
    <2>1. x = [rings |-> NoRings, memory |-> 0, anchored |-> TRUE, ticks |-> r.ticks]
      BY <1>2 DEF Replays, Fresh
    <2> HIDE DEF x
    <2>2. x \in Replayed(bf) /\ x.rings = NoRings /\ x.memory = 0 /\ x.anchored /\ x.ticks = r.ticks
      BY <1>1, <2>1, NoRingsIs DEF Replayed
    <2> QED
      BY <1>2, <2>2 DEF x
  <1>3. CASE f.kind = "def"
    <2>1. x = r
      BY <1>3 DEF Replays
    <2> QED
      BY <1>3, <2>1
  <1>4. CASE f.kind = "sample"
    <2>1. f.stream \in Stream /\ f.value \in Time
      BY <1>4, FrameIs DEF Sample
    <2> DEFINE p == Pushed(r.rings, f.stream, f.value)
    <2>2. p \in Rings
      BY <1>1, <2>1, PushedIs
    <2>3. x = [r EXCEPT !.rings = p]
      BY <1>4 DEF Replays
    <2> HIDE DEF x, p
    <2>4. x = [rings |-> p, memory |-> r.memory, anchored |-> r.anchored, ticks |-> r.ticks]
      BY <1>1, <2>3
    <2>5. x \in Replayed(bf) /\ x.rings = p /\ x.memory = r.memory /\ x.anchored = r.anchored /\ x.ticks = r.ticks
      BY <1>1, <2>2, <2>4 DEF Replayed
    <2> QED
      BY <1>4, <2>5 DEF x, p
  <1>5. CASE f.kind = "tick"
    <2> DEFINE b == HashIn(bf, f.record.epoch)
               m == Observed(r.memory, b)
               t == TickIn(bf, r, f)
    <2>1. f.recv \in Time /\ f.record.epoch \in Nat /\ f.record.digest \in Digest
      BY <1>5, FrameIs DEF Ticked, Record
    <2>2. b \in BarsIn(bf)
      BY <2>1 DEF BarsIn
    <2>3. x = [r EXCEPT !.memory = m, !.ticks = r.ticks \cup {t}]
      BY <1>5 DEF Replays
    <2>4. t \in Told(bf)
      <3> DEFINE v == View(r.rings, b, r.memory)
      <3>1. v \in [rings : Rings, bars : BarsIn(bf), memory : Nat]
        <4>1. None \in BarsIn(bf)
          BY DEF BarsIn
        <4> HIDE DEF b
        <4> QED
          BY <1>1, <2>2, <4>1, NoRingsIs DEF View
      <3>2. t = [now |-> f.recv, recorded |-> f.record.digest, anchored |-> r.anchored, replayed |-> v]
        BY DEF TickIn
      <3> HIDE DEF v, t
      <3> QED
        BY <1>1, <2>1, <3>1, <3>2 DEF Told
    <2>5. m \in Nat
      BY <1>1 DEF Observed
    <2> HIDE DEF x, m, t, b
    <2>6. x = [rings |-> r.rings, memory |-> m, anchored |-> r.anchored, ticks |-> r.ticks \cup {t}]
      BY <1>1, <2>3
    <2>7. /\ x \in Replayed(bf) /\ x.rings = r.rings /\ x.memory = m /\ x.anchored = r.anchored
          /\ x.ticks = r.ticks \cup {t}
      <3>1. r.ticks \cup {t} \in SUBSET Told(bf)
        BY <1>1, <2>4
      <3> QED
        BY <1>1, <2>5, <2>6, <3>1 DEF Replayed
    <2> QED
      BY <1>5, <2>7 DEF x, m, t, b
  <1> QED
    BY <1>2, <1>3, <1>4, <1>5, FrameIs

LEMMA ReplayFold ==
    ASSUME NEW bf, NEW q \in Seq(Frame)
    PROVE  \E h \in [0 .. Len(q) -> Replayed(bf)] :
               /\ h[0] = Fresh /\ Replay(bf, q) = h[Len(q)]
               /\ \A i \in 1 .. Len(q) : h[i] = Replays(bf, h[i - 1], q[i])
  <1> DEFINE S == Replayed(bf)
             n == Len(q)
             step == [i \in 1 .. n |-> [x \in S |-> Replays(bf, x, q[i])]]
             F(h) == [i \in 0 .. n |-> IF i = 0 THEN Fresh ELSE Replays(bf, h[i - 1], q[i])]
  <1>1. n \in Nat /\ Fresh \in S /\ \A i \in 1 .. n : q[i] \in Frame
    BY LenProperties, FreshIs, ElementOfSeq
  <1>2. step \in [1 .. n -> [S -> S]]
    <2>1. \A i \in 1 .. n : \A x \in S : Replays(bf, x, q[i]) \in S
      BY <1>1, ReplaysIs
    <2> QED
      BY <2>1
  <1> HIDE DEF n, S
  <1>3. PICK h \in [0 .. n -> S] : h[0] = Fresh /\ \A i \in 1 .. n : h[i] = step[i][h[i - 1]]
    <2> HIDE DEF step, F
    <2>1. \E h : Stepped(h, n, S, Fresh, step)
      BY <1>1, <1>2, StepsExist
    <2> QED
      BY <2>1 DEF Stepped
  <1>4. \A i \in 1 .. n : h[i] = Replays(bf, h[i - 1], q[i])
    <2> SUFFICES ASSUME NEW i \in 1 .. n PROVE h[i] = Replays(bf, h[i - 1], q[i])
      OBVIOUS
    <2>1. i - 1 \in 0 .. n
      BY <1>1
    <2>2. h[i - 1] \in S
      BY <2>1
    <2>3. step[i] = [x \in S |-> Replays(bf, x, q[i])]
      OBVIOUS
    <2> QED
      BY <1>3, <2>2, <2>3
  <1>5. h = F(h)
    <2>1. \A i \in 0 .. n : h[i] = F(h)[i]
      <3> SUFFICES ASSUME NEW i \in 0 .. n PROVE h[i] = F(h)[i]
        OBVIOUS
      <3>1. i = 0 \/ i \in 1 .. n
        BY <1>1
      <3> QED
        BY <1>3, <1>4, <3>1
    <2>2. h = [i \in 0 .. n |-> h[i]] /\ F(h) = [i \in 0 .. n |-> F(h)[i]]
      OBVIOUS
    <2> HIDE DEF F
    <2> QED
      BY <2>1, <2>2
  <1> DEFINE after == CHOOSE g : g = F(g)
  <1>6. Replay(bf, q) = after[n]
    BY DEF Replay, n
  <1>7. after = F(after)
    <2> HIDE DEF F
    <2> QED
      BY <1>5
  <1> HIDE DEF after
  <1>8. after[0] = Fresh /\ \A i \in 1 .. n : after[i] = Replays(bf, after[i - 1], q[i])
    <2>1. \A i \in 0 .. n : after[i] = F(after)[i]
      BY <1>7
    <2> QED
      BY <1>1, <2>1
  <1>9. \A i \in 0 .. n : after[i] = h[i]
    <2>1. Alike(after, h, n)
      BY <1>3, <1>4, <1>8 DEF Alike
    <2> QED
      BY <1>1, <2>1, StepsUnique
  <1>10. Replay(bf, q) = h[n]
    BY <1>1, <1>6, <1>9
  <1> QED
    BY <1>3, <1>4, <1>10 DEF n, S

LEMMA ReplayIs ==
    ASSUME NEW bf, NEW q \in Seq(Frame)
    PROVE  /\ Replay(bf, q) \in Replayed(bf)
           /\ \A f \in Frame : Replay(bf, Append(q, f)) = Replays(bf, Replay(bf, q), f)
  <1>1. Len(q) \in Nat
    BY LenProperties
  <1>2. PICK h \in [0 .. Len(q) -> Replayed(bf)] :
               /\ h[0] = Fresh /\ Replay(bf, q) = h[Len(q)]
               /\ \A i \in 1 .. Len(q) : h[i] = Replays(bf, h[i - 1], q[i])
    BY ReplayFold
  <1>3. Replay(bf, q) \in Replayed(bf)
    BY <1>1, <1>2
  <1>4. ASSUME NEW f \in Frame PROVE Replay(bf, Append(q, f)) = Replays(bf, Replay(bf, q), f)
    <2> DEFINE r == Append(q, f)
    <2>1. r \in Seq(Frame) /\ Len(r) = Len(q) + 1 /\ r[Len(q) + 1] = f /\ \A i \in 1 .. Len(q) : r[i] = q[i]
      BY AppendProperties
    <2> HIDE DEF r
    <2>2. PICK g \in [0 .. Len(r) -> Replayed(bf)] :
               /\ g[0] = Fresh /\ Replay(bf, r) = g[Len(r)]
               /\ \A i \in 1 .. Len(r) : g[i] = Replays(bf, g[i - 1], r[i])
      BY <2>1, ReplayFold
    <2>3. Alike(g, h, Len(q))
      BY <1>1, <1>2, <2>1, <2>2 DEF Alike
    <2>4. g[Len(q)] = h[Len(q)]
      BY <1>1, <2>3, StepsUnique
    <2>5. Len(r) \in 1 .. Len(r) /\ Len(r) - 1 = Len(q)
      BY <1>1, <2>1
    <2>6. g[Len(r)] = Replays(bf, g[Len(q)], f)
      BY <2>1, <2>2, <2>5
    <2> QED
      BY <1>2, <2>2, <2>4, <2>6 DEF r
  <1> QED
    BY <1>3, <1>4

LEMMA ReplayOfNone == ASSUME NEW bf PROVE Replay(bf, << >>) = Fresh
  <1>1. << >> \in Seq(Frame) /\ Len(<< >>) = 0
    BY EmptySeq
  <1>2. PICK h \in [0 .. 0 -> Replayed(bf)] : h[0] = Fresh /\ Replay(bf, << >>) = h[0]
    BY <1>1, ReplayFold
  <1> QED
    BY <1>2

LEMMA FramesInductive ==
    ASSUME NEW X, << >> \in X, \A q \in Seq(Frame) : \A f \in Frame : q \in X => Append(q, f) \in X
    PROVE  Seq(Frame) \subseteq X
  <1> DEFINE T == {k \in Nat : \A s \in Seq(Frame) : Len(s) = k => s \in X}
  <1>1. 0 \in T
    BY EmptySeq
  <1>2. ASSUME NEW k \in Nat, k \in T PROVE k + 1 \in T
    <2> SUFFICES ASSUME NEW s \in Seq(Frame), Len(s) = k + 1 PROVE s \in X
      OBVIOUS
    <2>1. s # << >>
      BY EmptySeq
    <2>2. PICK p \in Seq(Frame), f \in Frame : s = Append(p, f)
      BY <2>1, SequenceEmptyOrAppend
    <2>3. Len(p) = k
      BY <2>2, AppendProperties, LenProperties
    <2> QED
      BY <1>2, <2>2, <2>3
  <1> HIDE DEF T
  <1>3. Nat \subseteq T
    BY <1>1, <1>2, NatInductive
  <1>4. ASSUME NEW s \in Seq(Frame) PROVE s \in X
    <2>1. Len(s) \in Nat
      BY LenProperties
    <2> QED
      BY <1>3, <2>1 DEF T
  <1> QED
    BY <1>4

\* Definitions are nothing to a replay.
LEMMA ReplayEntries ==
    ASSUME NEW bf, NEW q \in Seq(Frame)
    PROVE  Replay(bf, Entries(q)) = Replay(bf, q)
  <1> DEFINE X == {p \in Seq(Frame) : Replay(bf, Entries(p)) = Replay(bf, p)}
  <1>1. << >> \in X
    BY EntriesOfNone, EmptySeq
  <1>2. ASSUME NEW p \in Seq(Frame), NEW f \in Frame, p \in X PROVE Append(p, f) \in X
    <2>1. Append(p, f) \in Seq(Frame) /\ Entries(p) \in Seq(Frame)
      BY AppendProperties, EntriesIs
    <2>2. /\ Replay(bf, Append(p, f)) = Replays(bf, Replay(bf, p), f)
          /\ Replay(bf, Append(Entries(p), f)) = Replays(bf, Replay(bf, Entries(p)), f)
          /\ Replay(bf, p) \in Replayed(bf)
      BY <2>1, ReplayIs
    <2>3. Entries(Append(p, f)) = IF f.kind = "def" THEN Entries(p) ELSE Append(Entries(p), f)
      BY EntriesIs
    <2>4. Replay(bf, Entries(p)) = Replay(bf, p)
      BY <1>2
    <2>5. f.kind = "def" => Replays(bf, Replay(bf, p), f) = Replay(bf, p)
      BY <2>2, ReplaysIs
    <2> QED
      BY <2>1, <2>2, <2>3, <2>4, <2>5
  <1> HIDE DEF X
  <1>3. Seq(Frame) \subseteq X
    BY <1>1, <1>2, FramesInductive
  <1> QED
    BY <1>3 DEF X

\* What was replayed stays replayed.
LEMMA ReplayMore ==
    ASSUME NEW bf, NEW q \in Seq(Frame), NEW p \in Seq(Frame)
    PROVE  Replay(bf, q).ticks \subseteq Replay(bf, q \o p).ticks
  <1> DEFINE X == {s \in Seq(Frame) : Replay(bf, q).ticks \subseteq Replay(bf, q \o s).ticks}
  <1>1. << >> \in X
    BY ConcatEmptySeq, EmptySeq
  <1>2. ASSUME NEW s \in Seq(Frame), NEW f \in Frame, s \in X PROVE Append(s, f) \in X
    <2>1. Append(s, f) \in Seq(Frame) /\ q \o s \in Seq(Frame) /\ q \o Append(s, f) = Append(q \o s, f)
      BY AppendProperties, ConcatProperties, ConcatAppend
    <2> DEFINE r == Replay(bf, q \o s)
    <2>2. r \in Replayed(bf) /\ Replay(bf, q \o Append(s, f)) = Replays(bf, r, f)
      BY <2>1, ReplayIs
    <2> HIDE DEF r
    <2>3. r.ticks \subseteq Replays(bf, r, f).ticks
      <3>1. CASE f.kind = "tick"
        BY <2>2, <3>1, ReplaysIs
      <3>2. CASE f.kind # "tick"
        <4>1. Replays(bf, r, f).ticks = r.ticks
          BY <2>2, <3>2, ReplaysIs, FrameIs
        <4> QED
          BY <4>1
      <3> QED
        BY <3>1, <3>2
    <2> QED
      BY <1>2, <2>1, <2>2, <2>3 DEF r
  <1> HIDE DEF X
  <1>3. Seq(Frame) \subseteq X
    BY <1>1, <1>2, FramesInductive
  <1> QED
    BY <1>3 DEF X

\* From a run's boundary on, a replay does not depend on what came before.
Agrees(x, y) ==
    /\ x.anchored => y.anchored /\ x.rings = y.rings /\ x.memory = y.memory
    /\ \A t \in x.ticks : t.anchored => t \in y.ticks

LEMMA AgreesStep ==
    ASSUME NEW bf, NEW x \in Replayed(bf), NEW y \in Replayed(bf), NEW f \in Frame, Agrees(x, y)
    PROVE  Agrees(Replays(bf, x, f), Replays(bf, y, f))
  <1> DEFINE a == Replays(bf, x, f)
             b == Replays(bf, y, f)
  <1>1. CASE f.kind = "run"
    <2>1. a.rings = b.rings /\ a.memory = b.memory /\ a.anchored /\ b.anchored /\ a.ticks = x.ticks /\ b.ticks = y.ticks
      BY <1>1, ReplaysIs
    <2> HIDE DEF a, b
    <2> QED
      BY <2>1 DEF Agrees, a, b
  <1>2. CASE f.kind = "def"
    BY <1>2, ReplaysIs
  <1>3. CASE f.kind = "sample"
    <2>1. /\ a.rings = Pushed(x.rings, f.stream, f.value) /\ a.memory = x.memory /\ a.ticks = x.ticks
          /\ b.rings = Pushed(y.rings, f.stream, f.value) /\ b.memory = y.memory /\ b.ticks = y.ticks
          /\ a.anchored = x.anchored /\ b.anchored = y.anchored
      BY <1>3, ReplaysIs
    <2> HIDE DEF a, b
    <2>2. Agrees(a, b)
      BY <2>1 DEF Agrees
    <2> QED
      BY <2>2 DEF a, b
  <1>4. CASE f.kind = "tick"
    <2> DEFINE h == HashIn(bf, f.record.epoch)
               s == TickIn(bf, x, f)
               t == TickIn(bf, y, f)
    <2>1. /\ a.rings = x.rings /\ a.memory = Observed(x.memory, h) /\ a.ticks = x.ticks \cup {s}
          /\ b.rings = y.rings /\ b.memory = Observed(y.memory, h) /\ b.ticks = y.ticks \cup {t}
          /\ a.anchored = x.anchored /\ b.anchored = y.anchored
      BY <1>4, ReplaysIs
    <2>2. s.anchored = x.anchored
      BY DEF TickIn
    <2>3. x.anchored => s = t
      <3>1. x.anchored \in BOOLEAN /\ y.anchored \in BOOLEAN
        BY DEF Replayed
      <3>2. x.anchored => x.anchored = y.anchored /\ x.rings = y.rings /\ x.memory = y.memory
        BY <3>1 DEF Agrees
      <3> QED
        BY <3>2 DEF TickIn
    <2> HIDE DEF a, b, h, s, t
    <2>4. Agrees(a, b)
      BY <2>1, <2>2, <2>3 DEF Agrees
    <2> QED
      BY <2>4 DEF a, b
  <1> QED
    BY <1>1, <1>2, <1>3, <1>4, FrameIs

LEMMA ReplayLater ==
    ASSUME NEW bf, NEW q \in Seq(Frame), NEW p \in Seq(Frame)
    PROVE  Agrees(Replay(bf, p), Replay(bf, q \o p))
  <1> DEFINE X == {s \in Seq(Frame) : Agrees(Replay(bf, s), Replay(bf, q \o s))}
  <1>1. << >> \in X
    BY ReplayOfNone, FreshIs, EmptySeq DEF Agrees
  <1>2. ASSUME NEW s \in Seq(Frame), NEW f \in Frame, s \in X PROVE Append(s, f) \in X
    <2>1. Append(s, f) \in Seq(Frame) /\ q \o s \in Seq(Frame) /\ q \o Append(s, f) = Append(q \o s, f)
      BY AppendProperties, ConcatProperties, ConcatAppend
    <2>2. /\ Replay(bf, q \o s) \in Replayed(bf) /\ Replay(bf, s) \in Replayed(bf)
          /\ Replay(bf, q \o Append(s, f)) = Replays(bf, Replay(bf, q \o s), f)
          /\ Replay(bf, Append(s, f)) = Replays(bf, Replay(bf, s), f)
      BY <2>1, ReplayIs
    <2>3. Agrees(Replays(bf, Replay(bf, s), f), Replays(bf, Replay(bf, q \o s), f))
      BY <1>2, <2>2, AgreesStep
    <2> QED
      BY <2>1, <2>2, <2>3
  <1> HIDE DEF X
  <1>3. Seq(Frame) \subseteq X
    BY <1>1, <1>2, FramesInductive
  <1> QED
    BY <1>3 DEF X

\* Every tick names an epoch up to n.
Numbered(q, n) == \A i \in 1 .. Len(q) : q[i].kind = "tick" => q[i].record.epoch \in 0 .. n

LEMMA NumberedIs ==
    ASSUME NEW n \in Nat, NEW q \in Seq(Frame)
    PROVE  /\ \A m \in Nat : n <= m /\ Numbered(q, n) => Numbered(q, m)
           /\ \A p \in Seq(Frame) : Numbered(q \o p, n) <=> Numbered(q, n) /\ Numbered(p, n)
           /\ \A f \in Frame : Numbered(Append(q, f), n) <=> Numbered(q, n) /\ (f.kind = "tick" => f.record.epoch \in 0 .. n)
           /\ Numbered(<< >>, n)
  <1>1. \A m \in Nat : n <= m /\ Numbered(q, n) => Numbered(q, m)
    BY DEF Numbered
  <1>2. ASSUME NEW p \in Seq(Frame) PROVE Numbered(q \o p, n) <=> Numbered(q, n) /\ Numbered(p, n)
    <2> DEFINE r == q \o p
    <2>1. /\ Len(r) = Len(q) + Len(p) /\ Len(q) \in Nat /\ Len(p) \in Nat
          /\ \A i \in 1 .. Len(q) : i \in 1 .. Len(r) /\ r[i] = q[i]
          /\ \A i \in 1 .. Len(p) : Len(q) + i \in 1 .. Len(r) /\ r[Len(q) + i] = p[i]
      <3>1. Len(r) = Len(q) + Len(p) /\ Len(q) \in Nat /\ Len(p) \in Nat
        BY FramesConcat
      <3>2. \A i \in 1 .. Len(q) : r[i] = q[i]
        OBVIOUS
      <3>3. \A i \in 1 .. Len(p) : r[Len(q) + i] = p[i]
        BY <3>1
      <3> HIDE DEF r
      <3> QED
        BY <3>1, <3>2, <3>3
    <2> HIDE DEF r
    <2>2. \A i \in 1 .. Len(r) : i \in 1 .. Len(q) \/ \E j \in 1 .. Len(p) : i = Len(q) + j
      <3> SUFFICES ASSUME NEW i \in 1 .. Len(r), i \notin 1 .. Len(q) PROVE \E j \in 1 .. Len(p) : i = Len(q) + j
        OBVIOUS
      <3>1. i - Len(q) \in 1 .. Len(p) /\ i = Len(q) + (i - Len(q))
        BY <2>1
      <3> QED
        BY <3>1
    <2>3. Numbered(r, n) => Numbered(q, n) /\ Numbered(p, n)
      BY <2>1 DEF Numbered
    <2>4. ASSUME Numbered(q, n), Numbered(p, n) PROVE Numbered(r, n)
      <3> SUFFICES ASSUME NEW i \in 1 .. Len(r), r[i].kind = "tick" PROVE r[i].record.epoch \in 0 .. n
        BY DEF Numbered
      <3>1. CASE i \in 1 .. Len(q)
        BY <2>1, <2>4, <3>1 DEF Numbered
      <3>2. ASSUME NEW j \in 1 .. Len(p), i = Len(q) + j PROVE r[i].record.epoch \in 0 .. n
        <4>1. r[i] = p[j]
          BY <2>1, <3>2
        <4> QED
          BY <2>4, <4>1 DEF Numbered
      <3> QED
        BY <2>2, <3>1, <3>2
    <2> QED
      BY <2>3, <2>4 DEF r
  <1>3. ASSUME NEW f \in Frame PROVE Numbered(<<f>>, n) <=> (f.kind = "tick" => f.record.epoch \in 0 .. n)
    <2>1. Len(<<f>>) = 1 /\ <<f>>[1] = f /\ \A i \in 1 .. 1 : i = 1
      OBVIOUS
    <2> DEFINE q1 == <<f>>
    <2>2. Len(q1) = 1 /\ q1[1] = f
      BY <2>1
    <2> HIDE DEF q1
    <2> QED
      BY <2>1, <2>2 DEF Numbered, q1
  <1>4. ASSUME NEW f \in Frame PROVE Append(q, f) = q \o <<f>> /\ <<f>> \in Seq(Frame)
    BY AppendIsConcat
  <1>5. ASSUME NEW f \in Frame
        PROVE  Numbered(Append(q, f), n) <=> Numbered(q, n) /\ (f.kind = "tick" => f.record.epoch \in 0 .. n)
    <2>1. Numbered(q \o <<f>>, n) <=> Numbered(q, n) /\ Numbered(<<f>>, n)
      BY <1>2, <1>4
    <2> QED
      BY <1>3, <1>4, <2>1
  <1>6. Numbered(<< >>, n)
    BY DEF Numbered
  <1> QED
    BY <1>1, <1>2, <1>5, <1>6

\* A replay opens no other bars files than its ticks name.
LEMMA ReplayOther ==
    ASSUME NEW bf, NEW bg, NEW n \in Nat, \A e \in 1 .. n : bf[e] = bg[e], NEW q \in Seq(Frame), Numbered(q, n)
    PROVE  Replay(bf, q) = Replay(bg, q)
  <1> DEFINE X == {s \in Seq(Frame) : Numbered(s, n) => Replay(bf, s) = Replay(bg, s)}
  <1>1. << >> \in X
    BY ReplayOfNone, EmptySeq
  <1>2. ASSUME NEW s \in Seq(Frame), NEW f \in Frame, s \in X PROVE Append(s, f) \in X
    <2>1. Append(s, f) \in Seq(Frame)
      BY AppendProperties
    <2> SUFFICES ASSUME Numbered(Append(s, f), n) PROVE Replay(bf, Append(s, f)) = Replay(bg, Append(s, f))
      BY <2>1
    <2>2. Numbered(s, n) /\ (f.kind = "tick" => f.record.epoch \in 0 .. n)
      BY NumberedIs
    <2> DEFINE r == Replay(bf, s)
    <2>3. r = Replay(bg, s)
      BY <1>2, <2>2
    <2>4. Replay(bf, Append(s, f)) = Replays(bf, r, f) /\ Replay(bg, Append(s, f)) = Replays(bg, r, f)
      BY <2>3, ReplayIs
    <2> HIDE DEF r
    <2>5. Replays(bf, r, f) = Replays(bg, r, f)
      <3>1. CASE f.kind = "tick"
        <4>1. HashIn(bf, f.record.epoch) = HashIn(bg, f.record.epoch)
          BY <2>2, <3>1 DEF HashIn
        <4> QED
          BY <4>1 DEF Replays, TickIn
      <3>2. CASE f.kind # "tick"
        BY <3>2, FrameIs DEF Replays
      <3> QED
        BY <3>1, <3>2
    <2> QED
      BY <2>4, <2>5
  <1> HIDE DEF X
  <1>3. Seq(Frame) \subseteq X
    BY <1>1, <1>2, FramesInductive
  <1> QED
    BY <1>3 DEF X

-----------------------------------------------------------------------------
(* What replay has in common with the process.                             *)

\* An anchored tick was replayed from what it saw, but for at most n ticks its trackers observed and no log has.
Faithful(t, n) ==
    t.anchored => /\ t.replayed.rings = t.recorded.rings /\ t.replayed.bars = t.recorded.bars
                  /\ t.recorded.memory - t.replayed.memory \in 0 .. n

AllFaithful(r, n) == \A t \in r.ticks : Faithful(t, n)

\* Replay stands where a process with rings rs and trackers m does.
Joined(r, rs, m, n) == r.anchored => r.rings = rs /\ m - r.memory \in 0 .. n

\* It will once the boundary of the run is in the log.
Follows(st, r, rs, m, n) ==
    IF st.runStartPending THEN rs = NoRings /\ m \in 0 .. n ELSE Joined(r, rs, m, n)

Seen(bf, st) == Replay(bf, EntryLog(st))

LEMMA SeenIs ==
    ASSUME NEW bf, NEW st, FilesOK(st), Ordered(st)
    PROVE  EntryLog(st) \in Seq(Frame) /\ Seen(bf, st) \in Replayed(bf)
  <1>1. EntryLog(st) \in Seq(Frame)
    BY LogIs
  <1> QED
    BY <1>1, ReplayIs DEF Seen

LEMMA FaithfulMore ==
    ASSUME NEW n \in Nat, NEW k \in Nat, n <= k
    PROVE  /\ \A t : Faithful(t, n) => Faithful(t, k)
           /\ \A r : AllFaithful(r, n) => AllFaithful(r, k)
           /\ \A st, r, rs, m : Follows(st, r, rs, m, n) => Follows(st, r, rs, m, k)
  <1>1. \A d : d \in 0 .. n => d \in 0 .. k
    OBVIOUS
  <1> QED
    BY <1>1 DEF Faithful, AllFaithful, Follows, Joined

\* What the oldest entries said can be forgotten.
LEMMA AgreesKeeps ==
    ASSUME NEW x, NEW y, Agrees(x, y), NEW n
    PROVE  /\ AllFaithful(y, n) => AllFaithful(x, n)
           /\ \A st, rs, m : Follows(st, y, rs, m, n) => Follows(st, x, rs, m, n)
  BY DEF Agrees, AllFaithful, Faithful, Follows, Joined

\* With the boundary of the run in the log, replay has joined the process.
LEMMA HeadingSeen ==
    ASSUME NEW bf, NEW q \in Seq(Frame), NEW st, NEW recv \in Time, NEW rs, NEW m \in Nat, NEW n \in Nat,
           Follows(st, Replay(bf, q), rs, m, n)
    PROVE  /\ Joined(Replay(bf, q \o Heading(st, recv)), rs, m, n)
           /\ Replay(bf, q \o Heading(st, recv)).ticks = Replay(bf, q).ticks
  <1> DEFINE f == RunStart(recv)
             r == Replay(bf, q)
             x == Replays(bf, r, f)
  <1>1. f \in Frame /\ f.kind = "run"
    BY DEF RunStart, RunFrame, Frame
  <1>2. r \in Replayed(bf) /\ Replay(bf, Append(q, f)) = x
    BY <1>1, ReplayIs
  <1>3. CASE st.runStartPending
    <2>1. q \o Heading(st, recv) = Append(q, f)
      BY <1>1, <1>3, AppendIsConcat DEF Heading
    <2>2. x.rings = NoRings /\ x.memory = 0 /\ x.ticks = r.ticks
      <3> HIDE DEF r, f
      <3> QED
        BY <1>1, <1>2, ReplaysIs
    <2>3. rs = NoRings /\ m \in 0 .. n
      BY <1>3 DEF Follows
    <2> HIDE DEF x, r, f
    <2>4. Joined(x, rs, m, n)
      BY <2>2, <2>3 DEF Joined
    <2> QED
      BY <1>2, <2>1, <2>2, <2>4 DEF r
  <1>4. CASE ~ st.runStartPending
    <2>1. q \o Heading(st, recv) = q
      BY <1>4, FramesConcat DEF Heading
    <2>2. Joined(r, rs, m, n)
      BY <1>4 DEF Follows
    <2> QED
      BY <2>1, <2>2
  <1> QED
    BY <1>3, <1>4

\* What replay makes of a log that grew.
LEMMA GrownSeen ==
    ASSUME NEW bf, NEW st, FilesOK(st), Ordered(st), NEW r, NEW C, Grows(st, r, C), NEW n \in Nat,
           AllFaithful(Seen(bf, st), n)
    PROVE  \E B \in Seq(Frame) :
               /\ EntryLog(r) = B \o C /\ AllFaithful(Replay(bf, B), n)
               /\ \A x, rs, m : Follows(x, Seen(bf, st), rs, m, n) => Follows(x, Replay(bf, B), rs, m, n)
               /\ \A k \in Nat : Numbered(EntryLog(st), k) => Numbered(B, k)
  <1>1. PICK A \in Seq(Frame), B \in Seq(Frame) :
            EntryLog(st) = A \o B /\ EntryLog(r) = B \o C /\ C \in Seq(Frame)
    BY DEF Grows
  <1>2. Agrees(Replay(bf, B), Replay(bf, A \o B))
    BY <1>1, ReplayLater
  <1>3. Agrees(Replay(bf, B), Seen(bf, st))
    BY <1>1, <1>2 DEF Seen
  <1>4. AllFaithful(Replay(bf, B), n)
    BY <1>3, AgreesKeeps
  <1>5. \A x, rs, m : Follows(x, Seen(bf, st), rs, m, n) => Follows(x, Replay(bf, B), rs, m, n)
    BY <1>3, AgreesKeeps
  <1>6. ASSUME NEW k \in Nat, Numbered(EntryLog(st), k) PROVE Numbered(B, k)
    <2>1. Numbered(A \o B, k)
      BY <1>1, <1>6
    <2> QED
      BY <1>1, <2>1, NumberedIs
  <1> QED
    BY <1>1, <1>4, <1>5, <1>6

\* The frame f was read by a replay x that had joined the process.
ReadsFrame(bf, st, f, rs, m, n) ==
    \E x \in Replayed(bf) : AllFaithful(x, n) /\ Joined(x, rs, m, n) /\ Seen(bf, st) = Replays(bf, x, f)

LEMMA WrittenSeen ==
    ASSUME NEW bf, NEW st, FilesOK(st), Ordered(st), NEW r, NEW f \in Frame, f.recv \in Time,
           Grows(st, r, Appended(st, r, f)), NEW n \in Nat, AllFaithful(Seen(bf, st), n),
           NEW rs, NEW m \in Nat, ~ Refuses(r) => Follows(st, Seen(bf, st), rs, m, n),
           NEW k \in Nat, Numbered(EntryLog(st), k), f.kind = "tick" => f.record.epoch \in 0 .. k
    PROVE  /\ Refuses(r) => AllFaithful(Seen(bf, r), n)
           /\ ~ Refuses(r) => ReadsFrame(bf, r, f, rs, m, n)
           /\ Numbered(EntryLog(r), k)
  <1> DEFINE C == Appended(st, r, f)
             h == Heading(st, f.recv)
  <1>1. PICK B \in Seq(Frame) :
               /\ EntryLog(r) = B \o C /\ AllFaithful(Replay(bf, B), n)
               /\ \A x : \A ss, i : Follows(x, Seen(bf, st), ss, i, n) => Follows(x, Replay(bf, B), ss, i, n)
               /\ \A i \in Nat : Numbered(EntryLog(st), i) => Numbered(B, i)
    BY GrownSeen
  <1>2. Numbered(B, k)
    BY <1>1
  <1>3. CASE Refuses(r)
    <2>1. C = << >> /\ B \o << >> = B
      BY <1>1, <1>3, FramesConcat DEF Appended
    <2> QED
      BY <1>1, <1>2, <1>3, <2>1 DEF Seen
  <1>4. CASE ~ Refuses(r)
    <2>1. C = h \o <<f>> /\ h \in Seq(Frame) /\ <<f>> \in Seq(Frame)
      BY <1>4, HeadingLog DEF Appended
    <2>2. B \o C = (B \o h) \o <<f>> /\ B \o h \in Seq(Frame)
      BY <2>1, FramesConcat
    <2>3. B \o C = Append(B \o h, f)
      BY <2>2, AppendIsConcat
    <2>4. Follows(st, Replay(bf, B), rs, m, n)
      BY <1>1, <1>4
    <2> DEFINE x == Replay(bf, B \o h)
    <2>5. Joined(x, rs, m, n) /\ x.ticks = Replay(bf, B).ticks
      BY <2>4, HeadingSeen
    <2>6. x \in Replayed(bf) /\ Replay(bf, Append(B \o h, f)) = Replays(bf, x, f)
      BY <2>2, ReplayIs
    <2> HIDE DEF x, C
    <2>7. AllFaithful(x, n)
      BY <1>1, <2>5 DEF AllFaithful
    <2>8. Seen(bf, r) = Replays(bf, x, f)
      BY <1>1, <2>3, <2>6 DEF Seen
    <2>9. Numbered(h, k)
      <3>1. \A i \in 1 .. Len(h) : h[i].kind # "tick"
        <4>1. CASE st.runStartPending
          <5>1. h = <<RunStart(f.recv)>>
            BY <4>1 DEF Heading
          <5>2. \A i \in 1 .. Len(<<RunStart(f.recv)>>) : <<RunStart(f.recv)>>[i] = RunStart(f.recv)
            OBVIOUS
          <5> QED
            BY <5>1, <5>2 DEF RunStart
        <4>2. CASE ~ st.runStartPending
          <5>1. h = << >>
            BY <4>2 DEF Heading
          <5> QED
            BY <5>1
        <4> QED
          BY <4>1, <4>2
      <3> QED
        BY <3>1 DEF Numbered
    <2>10. Numbered(Append(B \o h, f), k)
      <3>1. Numbered(B \o h, k)
        BY <1>2, <2>1, <2>9, NumberedIs
      <3> QED
        BY <2>2, <3>1, NumberedIs
    <2>11. Numbered(EntryLog(r), k)
      BY <1>1, <2>3, <2>10
    <2>12. ReadsFrame(bf, r, f, rs, m, n)
      BY <2>5, <2>6, <2>7, <2>8 DEF ReadsFrame
    <2> QED
      BY <1>4, <2>11, <2>12
  <1> QED
    BY <1>3, <1>4

LEMMA SampleSeen ==
    ASSUME NEW bf, NEW st, NEW rs, NEW m, NEW n, NEW s \in Stream, NEW recv \in Time, NEW v \in Time,
           ReadsFrame(bf, st, SampleFrame(s, recv, v), rs, m, n)
    PROVE  AllFaithful(Seen(bf, st), n) /\ Joined(Seen(bf, st), Pushed(rs, s, v), m, n)
  <1> DEFINE f == SampleFrame(s, recv, v)
  <1>1. f \in Frame /\ f.kind = "sample" /\ f.stream = s /\ f.value = v
    BY DEF SampleFrame, Sample, Frame
  <1> HIDE DEF f
  <1>2. PICK x \in Replayed(bf) : AllFaithful(x, n) /\ Joined(x, rs, m, n) /\ Seen(bf, st) = Replays(bf, x, f)
    BY DEF ReadsFrame, f
  <1> DEFINE y == Replays(bf, x, f)
  <1>3. y.rings = Pushed(x.rings, s, v) /\ y.memory = x.memory /\ y.anchored = x.anchored /\ y.ticks = x.ticks
    BY <1>1, ReplaysIs
  <1> HIDE DEF y
  <1>4. AllFaithful(y, n) /\ Joined(y, Pushed(rs, s, v), m, n)
    BY <1>2, <1>3 DEF AllFaithful, Joined
  <1> QED
    BY <1>2, <1>4 DEF y

LEMMA TickSeen ==
    ASSUME NEW bf, NEW st, NEW rs, NEW m \in Nat, NEW n \in Nat, NEW recv \in Time, NEW rec \in Record,
           NEW b, rec.digest = View(rs, b, m), HashIn(bf, rec.epoch) = b,
           ReadsFrame(bf, st, TickFrame(recv, rec), rs, m, n)
    PROVE  AllFaithful(Seen(bf, st), n) /\ Joined(Seen(bf, st), rs, Observed(m, b), n)
  <1> DEFINE f == TickFrame(recv, rec)
  <1>1. f \in Frame /\ f.kind = "tick" /\ f.record = rec
    BY DEF TickFrame, Ticked, Frame
  <1> HIDE DEF f
  <1>2. PICK x \in Replayed(bf) : AllFaithful(x, n) /\ Joined(x, rs, m, n) /\ Seen(bf, st) = Replays(bf, x, f)
    BY DEF ReadsFrame, f
  <1> DEFINE y == Replays(bf, x, f)
             t == TickIn(bf, x, f)
  <1>3. y.rings = x.rings /\ y.memory = Observed(x.memory, b) /\ y.anchored = x.anchored /\ y.ticks = x.ticks \cup {t}
    BY <1>1, ReplaysIs
  <1>4. t.recorded = View(rs, b, m) /\ t.replayed = View(x.rings, b, x.memory) /\ t.anchored = x.anchored
    BY <1>1 DEF TickIn
  <1>5. x.memory \in Nat
    BY DEF Replayed
  <1> HIDE DEF y, t
  <1>6. Faithful(t, n)
    <2> SUFFICES ASSUME x.anchored
                 PROVE  /\ t.replayed.rings = t.recorded.rings /\ t.replayed.bars = t.recorded.bars
                        /\ t.recorded.memory - t.replayed.memory \in 0 .. n
      BY <1>4 DEF Faithful
    <2>1. x.rings = rs /\ m - x.memory \in 0 .. n
      BY <1>2 DEF Joined
    <2>2. CASE b = None
      BY <1>4, <2>2 DEF View
    <2>3. CASE b # None
      BY <1>4, <2>1, <2>3 DEF View
    <2> QED
      BY <2>2, <2>3
  <1>7. AllFaithful(y, n)
    BY <1>2, <1>3, <1>6 DEF AllFaithful
  <1>8. Joined(y, rs, Observed(m, b), n)
    <2> SUFFICES ASSUME y.anchored PROVE y.rings = rs /\ Observed(m, b) - y.memory \in 0 .. n
      BY DEF Joined
    <2>1. x.rings = rs /\ m - x.memory \in 0 .. n
      BY <1>2, <1>3 DEF Joined
    <2> QED
      BY <1>3, <1>5, <2>1 DEF Observed
  <1> QED
    BY <1>2, <1>7, <1>8 DEF y

LEMMA SettledSeen ==
    ASSUME NEW bf, NEW st, FilesOK(st), Ordered(st), NEW r, Settles(st, r), NEW n \in Nat, AllFaithful(Seen(bf, st), n),
           NEW k \in Nat, Numbered(EntryLog(st), k)
    PROVE  /\ AllFaithful(Seen(bf, r), n) /\ Numbered(EntryLog(r), k)
           /\ ~ Refuses(r) => /\ ~ Refuses(st)
                              /\ \A rs, m : Follows(st, Seen(bf, st), rs, m, n) => Follows(r, Seen(bf, r), rs, m, n)
  <1>1. Grows(st, r, << >>)
    BY DEF Settles
  <1>2. PICK B \in Seq(Frame) :
               /\ EntryLog(r) = B \o << >> /\ AllFaithful(Replay(bf, B), n)
               /\ \A x : \A rs, m : Follows(x, Seen(bf, st), rs, m, n) => Follows(x, Replay(bf, B), rs, m, n)
               /\ \A i \in Nat : Numbered(EntryLog(st), i) => Numbered(B, i)
    BY <1>1, GrownSeen
  <1>3. EntryLog(r) = B
    BY <1>2, FramesConcat
  <1>4. ASSUME ~ Refuses(r), NEW rs, NEW m, Follows(st, Seen(bf, st), rs, m, n)
        PROVE  Follows(r, Seen(bf, r), rs, m, n)
    <2>1. Follows(st, Seen(bf, r), rs, m, n)
      BY <1>2, <1>3, <1>4 DEF Seen
    <2>2. r.runStartPending = st.runStartPending
      BY <1>4 DEF Settles
    <2> QED
      BY <2>1, <2>2 DEF Follows
  <1>5. ~ Refuses(r) => ~ Refuses(st)
    BY DEF Settles
  <1> QED
    BY <1>2, <1>3, <1>4, <1>5 DEF Seen

LEMMA CutSeen ==
    ASSUME NEW bf, NEW st, NEW r, Cuts(st, r), NEW n \in Nat, AllFaithful(Seen(bf, st), n),
           NEW k \in Nat, Numbered(EntryLog(st), k)
    PROVE  AllFaithful(Seen(bf, r), n) /\ Numbered(EntryLog(r), k)
  <1>1. PICK A \in Seq(Frame), B \in Seq(Frame) : EntryLog(st) = A \o B /\ EntryLog(r) = A
    BY DEF Cuts
  <1>2. Replay(bf, A).ticks \subseteq Replay(bf, A \o B).ticks
    BY ReplayMore
  <1>3. Numbered(A \o B, k)
    BY <1>1
  <1>4. Numbered(A, k)
    BY <1>3, NumberedIs
  <1> QED
    BY <1>1, <1>2, <1>4 DEF Seen, AllFaithful

\* The trackers' memory m that the evaluation at work looked at.
Before(m) ==
    IF tick.phase = "capture" THEN memory = Observed(m, bars) /\ tick.digest = View(rings, bars, m)
    ELSE memory = m

\* Replay of the log stands where the process stood before that.
Stands == \E m \in Nat : Before(m) /\ Follows(store, Seen(barsFiles, store), rings, m, faults)

ReplayInv ==
    /\ AllFaithful(Seen(barsFiles, store), faults)
    /\ Numbered(EntryLog(store), NewestEpoch)
    /\ faults \in Nat
    /\ tick.phase = "capture" => scrape.phase # "ingesting"
    /\ ~ up => rings = NoRings /\ memory = 0
    /\ up /\ ~ Refuses(store) => Stands

LEMMA ReplayInit == Init => ReplayInv
  <1> SUFFICES ASSUME Init PROVE ReplayInv
    OBVIOUS
  <1>1. /\ faults = 0 /\ tick.phase = "idle" /\ up /\ rings = NoRings /\ memory = 0 /\ barsFiles = NoFiles
        /\ store.runStartPending
    BY DEF Init, IdleTick, EmptyStore
  <1>2. EntryLog(store) = << >>
    BY LogInit
  <1>3. Seen(barsFiles, store) = Fresh
    BY <1>2, ReplayOfNone DEF Seen
  <1>4. AllFaithful(Seen(barsFiles, store), faults)
    BY <1>3, FreshIs DEF AllFaithful
  <1>5. Numbered(EntryLog(store), NewestEpoch)
    BY <1>2 DEF Numbered
  <1>6. Before(0) /\ Follows(store, Seen(barsFiles, store), rings, 0, faults)
    BY <1>1 DEF Before, Follows
  <1>7. Stands
    BY <1>6 DEF Stands
  <1> QED
    BY <1>1, <1>4, <1>5, <1>7 DEF ReplayInv

\* What the steps have in common.
LEMMA ReplayFacts ==
    ASSUME CaptureInv, LogInv, ReplayInv
    PROVE  /\ FilesOK(store) /\ Ordered(store) /\ faults \in Nat /\ NewestEpoch \in Nat
           /\ rings \in Rings /\ memory \in Nat /\ bars \in Bars \cup {None}
           /\ scrape.recv \in Time /\ tick.now \in Time
           /\ up => Writing(store) /\ LogOK(store) /\ ~ store.linked
  <1>1. FilesOK(store) /\ (up => Writing(store))
    BY DEF CaptureInv, StoreOK, Writing
  <1>2. PICK n \in Nat : barsFiles \in [1 .. n -> Bars]
    BY DEF CaptureInv, EpochsOK
  <1>3. NewestEpoch = n
    BY <1>2, NewestEpochIs
  <1>4. memory \in Nat
    BY DEF CaptureInv, LoopsOK
  <1> QED
    BY <1>1, <1>3, <1>4 DEF CaptureInv, LoopsOK, LogInv, LogOK, ReplayInv

LEMMA IngestReplays ==
    ASSUME CaptureInv, LogInv, ReplayInv, NEW s \in Stream, IngestSample(s)
    PROVE  ReplayInv'
  <1> DEFINE f == SampleFrame(s, scrape.recv, scrape.recv)
  <1>1. /\ FilesOK(store) /\ Ordered(store) /\ faults \in Nat /\ NewestEpoch \in Nat /\ memory \in Nat
        /\ scrape.recv \in Time /\ Writing(store) /\ LogOK(store) /\ ~ store.linked /\ up
    BY ReplayFacts DEF IngestSample
  <1>2. /\ s \in scrape.todo /\ store' = AppendSample(store, s, scrape.recv, scrape.recv)
        /\ rings' = Pushed(rings, s, scrape.recv) /\ UNCHANGED <<barsFiles, up, memory, bars, tick, faults>>
    BY DEF IngestSample, count
  <1>3. tick.phase # "capture"
    BY DEF IngestSample, GateFreeForIngest, ReplayInv
  <1>4. MayOpen(store, scrape.recv)
    BY <1>2 DEF LogInv
  <1>5. Operates(store, store', scrape.recv, f)
    BY <1>1, <1>2, <1>4, AppendLog
  <1>6. f \in Frame /\ f.recv = scrape.recv /\ f.kind = "sample"
    BY <1>5 DEF Operates, SampleFrame
  <1> HIDE DEF f
  <1>7. Grows(store, store', Appended(store, store', f))
        /\ (~ Refuses(store') => ~ Refuses(store) /\ ~ store'.runStartPending)
    BY <1>5 DEF Operates
  <1>8. AllFaithful(Seen(barsFiles, store), faults) /\ Numbered(EntryLog(store), NewestEpoch)
    BY DEF ReplayInv
  <1>9. ~ Refuses(store') => Follows(store, Seen(barsFiles, store), rings, memory, faults)
    BY <1>1, <1>3, <1>7 DEF ReplayInv, Stands, Before
  <1>10. /\ Refuses(store') => AllFaithful(Seen(barsFiles, store'), faults)
         /\ ~ Refuses(store') => ReadsFrame(barsFiles, store', f, rings, memory, faults)
         /\ Numbered(EntryLog(store'), NewestEpoch)
    BY <1>1, <1>6, <1>7, <1>8, <1>9, WrittenSeen
  <1>11. ~ Refuses(store') => /\ AllFaithful(Seen(barsFiles, store'), faults)
                              /\ Joined(Seen(barsFiles, store'), rings', memory, faults)
    BY <1>1, <1>2, <1>10, SampleSeen DEF f
  <1>12. ~ Refuses(store') => Stands'
    <2> SUFFICES ASSUME ~ Refuses(store') PROVE Stands'
      OBVIOUS
    <2>1. Follows(store', Seen(barsFiles, store'), rings', memory, faults)
      BY <1>7, <1>11 DEF Follows
    <2>2. Before(memory)'
      BY <1>2, <1>3 DEF Before
    <2> QED
      BY <1>1, <1>2, <2>1, <2>2 DEF Stands
  <1> QED
    BY <1>1, <1>2, <1>3, <1>10, <1>11, <1>12 DEF ReplayInv, NewestEpoch

LEMMA CaptureReplays ==
    ASSUME CaptureInv, LogInv, ReplayInv, CaptureInv', TickCapture
    PROVE  ReplayInv'
  <1> DEFINE rec == [epoch |-> IF bars = None THEN 0 ELSE epoch', digest |-> tick.digest]
             f == TickFrame(tick.now, rec)
  <1>1. /\ FilesOK(store) /\ Ordered(store) /\ faults \in Nat /\ NewestEpoch \in Nat /\ memory \in Nat
        /\ tick.now \in Time /\ Writing(store) /\ LogOK(store) /\ ~ store.linked /\ bars \in Bars \cup {None} /\ up
    BY ReplayFacts DEF TickCapture
  <1>2. /\ tick.phase = "capture" /\ tick' = IdleTick /\ store' = Tick(store, tick.now, rec)
        /\ UNCHANGED <<up, rings, memory, bars, scrape, faults>>
    BY DEF TickCapture, count
  <1>3. PICK n \in Nat : barsFiles \in [1 .. n -> Bars] /\ epoch = n /\ barsHash = HashOf(n)
    BY <1>1 DEF CaptureInv, EpochsOK
  <1>4. PICK k \in Nat : barsFiles' \in [1 .. k -> Bars] /\ epoch' = k /\ barsHash' = HashOf(k)'
    BY <1>1, <1>2 DEF CaptureInv, EpochsOK
  <1>5. NewestEpoch = n /\ NewestEpoch' = k
    BY <1>3, <1>4, NewestIs DEF NewestEpoch
  \* The new bars file leaves the others as they are, and the tick names the one it was evaluated under.
  <1>6. n <= k /\ (\A e \in 1 .. n : barsFiles[e] = barsFiles'[e]) /\ HashIn(barsFiles', rec.epoch) = bars
        /\ rec.epoch \in 0 .. k
    <2>1. CASE NeedsEpoch
      <3>1. bars # None /\ k = n + 1 /\ barsFiles' = With(barsFiles, n + 1, bars)
        BY <1>3, <1>4, <2>1 DEF NeedsEpoch, TickCapture
      <3>2. barsFiles'[n + 1] = bars /\ \A e \in 1 .. n : barsFiles'[e] = barsFiles[e]
        BY <1>3, <3>1 DEF With
      <3>3. rec.epoch = n + 1
        BY <1>4, <3>1
      <3> QED
        BY <3>1, <3>2, <3>3 DEF HashIn
    <2>2. CASE ~ NeedsEpoch
      <3>1. barsFiles' = barsFiles /\ epoch' = epoch
        BY <2>2 DEF TickCapture
      <3>2. k = n
        BY <1>3, <1>4, <3>1
      <3>3. CASE bars = None
        <4>1. rec.epoch = 0
          BY <3>3
        <4> QED
          BY <1>3, <3>1, <3>2, <3>3, <4>1 DEF HashIn
      <3>4. CASE bars # None
        <4>1. bars = HashOf(n)
          BY <1>3, <2>2, <3>4 DEF NeedsEpoch
        <4>2. rec.epoch = n
          BY <1>4, <3>2, <3>4
        <4> QED
          BY <3>1, <3>2, <4>1, <4>2 DEF HashOf, HashIn
      <3> QED
        BY <3>3, <3>4
    <2> QED
      BY <2>1, <2>2
  <1>7. rec \in Record
    <2>1. tick.digest \in Digest
      BY <1>2 DEF CaptureInv, LoopsOK
    <2> QED
      BY <1>6, <2>1 DEF Record
  <1>8. rec.digest = tick.digest
    OBVIOUS
  <1> HIDE DEF rec
  <1>9. MayOpen(store, tick.now)
    BY <1>2 DEF LogInv
  <1>10. Operates(store, store', tick.now, f)
    BY <1>1, <1>2, <1>7, <1>9, TickLog
  <1>11. f \in Frame /\ f.recv = tick.now /\ f.kind = "tick" /\ f.record = rec
    BY <1>10 DEF Operates, TickFrame
  <1> HIDE DEF f
  <1>12. Grows(store, store', Appended(store, store', f))
        /\ (~ Refuses(store') => ~ Refuses(store) /\ ~ store'.runStartPending)
    BY <1>10 DEF Operates
  <1>13. Numbered(EntryLog(store), n) /\ EntryLog(store) \in Seq(Frame)
    BY <1>1, <1>5, SeenIs DEF ReplayInv
  <1>14. Numbered(EntryLog(store), k)
    BY <1>6, <1>13, NumberedIs
  <1>15. Seen(barsFiles', store) = Seen(barsFiles, store)
    BY <1>6, <1>13, ReplayOther DEF Seen
  <1>16. AllFaithful(Seen(barsFiles', store), faults)
    BY <1>15 DEF ReplayInv
  <1>17. PICK m \in Nat :
            ~ Refuses(store') => /\ memory = Observed(m, bars) /\ tick.digest = View(rings, bars, m)
                                 /\ Follows(store, Seen(barsFiles', store), rings, m, faults)
    <2>1. CASE Refuses(store')
      BY <2>1
    <2>2. CASE ~ Refuses(store')
      <3>1. Stands
        BY <1>1, <1>12, <2>2 DEF ReplayInv
      <3> QED
        BY <1>2, <1>15, <3>1 DEF Stands, Before
    <2> QED
      BY <2>1, <2>2
  <1>18. /\ Refuses(store') => AllFaithful(Seen(barsFiles', store'), faults)
         /\ ~ Refuses(store') => ReadsFrame(barsFiles', store', f, rings, m, faults)
         /\ Numbered(EntryLog(store'), k)
    <2>1. f.record.epoch \in 0 .. k
      BY <1>6, <1>11
    <2>2. f.recv \in Time
      BY <1>1, <1>11
    <2>3. ~ Refuses(store') => Follows(store, Seen(barsFiles', store), rings, m, faults)
      BY <1>17
    <2> QED
      BY <1>1, <1>11, <1>12, <1>14, <1>16, <2>1, <2>2, <2>3, WrittenSeen
  <1>19. ~ Refuses(store') => /\ AllFaithful(Seen(barsFiles', store'), faults)
                              /\ Joined(Seen(barsFiles', store'), rings, memory, faults)
    <2> SUFFICES ASSUME ~ Refuses(store')
                 PROVE  /\ AllFaithful(Seen(barsFiles', store'), faults)
                        /\ Joined(Seen(barsFiles', store'), rings, memory, faults)
      OBVIOUS
    <2>1. rec.digest = View(rings, bars, m) /\ memory = Observed(m, bars)
      BY <1>8, <1>17
    <2>2. ReadsFrame(barsFiles', store', TickFrame(tick.now, rec), rings, m, faults)
      BY <1>18 DEF f
    <2>3. /\ AllFaithful(Seen(barsFiles', store'), faults)
          /\ Joined(Seen(barsFiles', store'), rings, Observed(m, bars), faults)
      BY <1>1, <1>6, <1>7, <2>1, <2>2, TickSeen
    <2> QED
      BY <2>1, <2>3
  <1>20. ~ Refuses(store') => Stands'
    <2> SUFFICES ASSUME ~ Refuses(store') PROVE Stands'
      OBVIOUS
    <2>1. Follows(store', Seen(barsFiles', store'), rings, memory, faults)
      BY <1>12, <1>19 DEF Follows
    <2>2. Before(memory)'
      BY <1>2 DEF Before, IdleTick
    <2> QED
      BY <1>1, <1>2, <2>1, <2>2 DEF Stands
  <1>21. tick'.phase # "capture"
    BY <1>2 DEF IdleTick
  <1>22. /\ AllFaithful(Seen(barsFiles', store'), faults') /\ faults' \in Nat /\ up'
         /\ Numbered(EntryLog(store'), NewestEpoch')
    BY <1>1, <1>2, <1>5, <1>18, <1>19
  <1> QED
    BY <1>20, <1>21, <1>22 DEF ReplayInv

\* A step that leaves the bundle and what an evaluation would see.
LEMMA SameReplays ==
    ASSUME CaptureInv, LogInv, ReplayInv, UNCHANGED <<store, barsFiles, up, rings, memory, bars, tick>>,
           faults' \in Nat, faults <= faults', tick.phase = "capture" => scrape'.phase # "ingesting"
    PROVE  ReplayInv'
  <1>1. faults \in Nat /\ memory \in Nat
    BY ReplayFacts
  <1>2. AllFaithful(Seen(barsFiles, store), faults')
    BY <1>1, FaithfulMore DEF ReplayInv
  <1>3. up /\ ~ Refuses(store) => Stands'
    <2> SUFFICES ASSUME up, ~ Refuses(store) PROVE Stands'
      OBVIOUS
    <2>1. PICK m \in Nat : Before(m) /\ Follows(store, Seen(barsFiles, store), rings, m, faults)
      BY DEF ReplayInv, Stands
    <2>2. Follows(store, Seen(barsFiles, store), rings, m, faults')
      BY <1>1, <2>1, FaithfulMore
    <2>3. Before(m)'
      BY <2>1 DEF Before
    <2> QED
      BY <2>2, <2>3 DEF Stands
  <1> QED
    BY <1>2, <1>3 DEF ReplayInv, NewestEpoch

LEMMA EvaluateReplays ==
    ASSUME CaptureInv, LogInv, ReplayInv, TickEvaluate
    PROVE  ReplayInv'
  <1>1. faults \in Nat /\ memory \in Nat
    BY ReplayFacts
  <1>2. /\ up /\ tick.phase = "idle" /\ scrape.phase # "ingesting" /\ UNCHANGED <<store, barsFiles, up, rings, scrape>>
        /\ tick'.phase = "capture" /\ tick'.digest = View(rings, bars', memory) /\ memory' = Observed(memory, bars')
        /\ faults' \in Nat /\ faults <= faults'
    BY <1>1 DEF TickEvaluate, GateFreeForTick, Fault, bundle
  <1>3. AllFaithful(Seen(barsFiles, store), faults')
    BY <1>1, <1>2, FaithfulMore DEF ReplayInv
  <1>4. ~ Refuses(store) => Stands'
    <2> SUFFICES ASSUME ~ Refuses(store) PROVE Stands'
      OBVIOUS
    <2>1. Follows(store, Seen(barsFiles, store), rings, memory, faults)
      BY <1>2 DEF ReplayInv, Stands, Before
    <2>2. Follows(store, Seen(barsFiles, store), rings, memory, faults')
      BY <1>1, <1>2, <2>1, FaithfulMore
    <2> DEFINE m == memory
    <2>3. m \in Nat /\ (IF tick'.phase = "capture" THEN memory' = Observed(m, bars') /\ tick'.digest = View(rings', bars', m)
                        ELSE memory' = m)
      BY <1>1, <1>2
    <2>4. Follows(store', Seen(barsFiles', store'), rings', m, faults')
      BY <1>2, <2>2
    <2> HIDE DEF m
    <2> QED
      BY <2>3, <2>4 DEF Stands, Before
  <1> QED
    BY <1>2, <1>3, <1>4 DEF ReplayInv, NewestEpoch

\* A tick that is not captured was observed by the trackers and is one fault more.
LEMMA NotCapturedReplays ==
    ASSUME CaptureInv, LogInv, ReplayInv, TickNotCaptured
    PROVE  ReplayInv'
  <1>1. faults \in Nat /\ memory \in Nat
    BY ReplayFacts
  <1>2. /\ up /\ tick.phase = "capture" /\ bars # None /\ tick' = IdleTick /\ faults' = faults + 1
        /\ UNCHANGED <<store, barsFiles, up, rings, memory, bars, scrape>>
    BY DEF TickNotCaptured, NeedsEpoch, Fault, bundle
  <1>3. AllFaithful(Seen(barsFiles, store), faults')
    BY <1>1, <1>2, FaithfulMore DEF ReplayInv
  <1>4. ~ Refuses(store) => Stands'
    <2> SUFFICES ASSUME ~ Refuses(store) PROVE Stands'
      OBVIOUS
    <2>1. PICK m \in Nat : Before(m) /\ Follows(store, Seen(barsFiles, store), rings, m, faults)
      BY <1>2 DEF ReplayInv, Stands
    <2>2. memory = m + 1
      BY <1>2, <2>1 DEF Before, Observed
    <2>3. Follows(store, Seen(barsFiles, store), rings, memory, faults + 1)
      <3> DEFINE x == Seen(barsFiles, store)
      <3>1. FilesOK(store) /\ Ordered(store)
        BY ReplayFacts
      <3>2. x.memory \in Nat
        BY <3>1, SeenIs DEF Replayed
      <3>3. Follows(store, x, rings, m, faults)
        BY <2>1
      <3> HIDE DEF x
      <3>5. CASE store.runStartPending
        <4>1. rings = NoRings /\ m \in 0 .. faults
          BY <3>3, <3>5 DEF Follows
        <4>2. memory \in 0 .. (faults + 1)
          BY <1>1, <2>2, <4>1
        <4> QED
          BY <3>5, <4>1, <4>2 DEF Follows
      <3>6. CASE ~ store.runStartPending
        <4>1. x.anchored => x.rings = rings /\ m - x.memory \in 0 .. faults
          BY <3>3, <3>6 DEF Follows, Joined
        <4>2. m - x.memory \in 0 .. faults => memory - x.memory \in 0 .. (faults + 1)
          BY <1>1, <2>2, <3>2
        <4>3. Joined(x, rings, memory, faults + 1)
          BY <4>1, <4>2, Zenon DEF Joined
        <4> QED
          BY <3>6, <4>3 DEF Follows, x
      <3> QED
        BY <3>5, <3>6
    <2> DEFINE k == memory
    <2>4. k \in Nat /\ memory' = k /\ tick'.phase # "capture"
      BY <1>1, <1>2 DEF IdleTick
    <2>5. Follows(store', Seen(barsFiles', store'), rings', k, faults')
      BY <1>2, <2>3
    <2> HIDE DEF k
    <2> QED
      BY <2>4, <2>5 DEF Stands, Before
  <1>5. tick'.phase # "capture"
    BY <1>2 DEF IdleTick
  <1> QED
    BY <1>1, <1>2, <1>3, <1>4, <1>5 DEF ReplayInv, NewestEpoch

\* The syncer, a failing disk and the close write no entry.
LEMMA SettledReplays ==
    ASSUME CaptureInv, LogInv, ReplayInv, Settles(store, store'), up,
           UNCHANGED <<barsFiles, up, rings, memory, bars, scrape, tick>>,
           faults' \in Nat, faults <= faults', Refuses(store') \/ faults' = faults
    PROVE  ReplayInv'
  <1>1. FilesOK(store) /\ Ordered(store) /\ faults \in Nat /\ NewestEpoch \in Nat
    BY ReplayFacts
  <1>2. AllFaithful(Seen(barsFiles, store), faults) /\ Numbered(EntryLog(store), NewestEpoch)
    BY DEF ReplayInv
  <1>3. /\ AllFaithful(Seen(barsFiles, store'), faults) /\ Numbered(EntryLog(store'), NewestEpoch)
        /\ ~ Refuses(store') =>
              /\ ~ Refuses(store)
              /\ \A rs, m : Follows(store, Seen(barsFiles, store), rs, m, faults)
                                => Follows(store', Seen(barsFiles, store'), rs, m, faults)
    BY <1>1, <1>2, SettledSeen
  <1>4. AllFaithful(Seen(barsFiles, store'), faults')
    BY <1>1, <1>3, FaithfulMore
  <1>5. ~ Refuses(store') => Stands'
    <2> SUFFICES ASSUME ~ Refuses(store') PROVE Stands'
      OBVIOUS
    <2>1. PICK m \in Nat : Before(m) /\ Follows(store, Seen(barsFiles, store), rings, m, faults)
      BY <1>3 DEF ReplayInv, Stands
    <2>2. Follows(store', Seen(barsFiles, store'), rings, m, faults)
      BY <1>3, <2>1
    <2>3. Before(m)'
      BY <2>1 DEF Before
    <2> QED
      BY <2>2, <2>3 DEF Stands
  <1> QED
    BY <1>3, <1>4, <1>5 DEF ReplayInv, NewestEpoch

LEMMA CutReplays ==
    ASSUME CaptureInv, LogInv, ReplayInv, Cuts(store, store'), Down, faults' = faults
    PROVE  ReplayInv'
  <1>1. faults \in Nat /\ NewestEpoch \in Nat
    BY ReplayFacts
  <1>2. AllFaithful(Seen(barsFiles, store), faults) /\ Numbered(EntryLog(store), NewestEpoch)
    BY DEF ReplayInv
  <1>3. AllFaithful(Seen(barsFiles, store'), faults) /\ Numbered(EntryLog(store'), NewestEpoch)
    BY <1>1, <1>2, CutSeen
  <1>4. barsFiles' = barsFiles /\ ~ up' /\ rings' = NoRings /\ memory' = 0 /\ tick'.phase # "capture"
    BY DEF Down, IdleTick
  <1>5. NoRings' = NoRings
    BY DEF NoRings
  <1> QED
    BY <1>1, <1>3, <1>4, <1>5 DEF ReplayInv, NewestEpoch

\* A restart adds nothing to the log, and nothing yet to the new process.
LEMMA RestartReplays ==
    ASSUME CaptureInv, LogInv, ReplayInv, Restart
    PROVE  ReplayInv'
  <1>1. FilesOK(store) /\ LogOK(store) /\ faults \in Nat
    BY ReplayFacts DEF LogInv
  <1>2. /\ ~ up /\ ~ Refused(store) /\ store' = Recovered(store)
        /\ UNCHANGED <<barsFiles, rings, memory, bars, scrape, tick, faults>>
    BY DEF Restart
  <1>3. EntryLog(store') = EntryLog(store) /\ store'.runStartPending
    BY <1>1, <1>2, RecoveredLog, RecoveredKeeps
  <1>4. rings = NoRings /\ memory = 0 /\ tick.phase # "capture"
    BY <1>2 DEF ReplayInv, LogInv
  <1>5. Seen(barsFiles', store') = Seen(barsFiles, store)
    BY <1>2, <1>3 DEF Seen
  <1>6. Stands'
    <2>1. Follows(store', Seen(barsFiles', store'), rings', 0, faults')
      BY <1>1, <1>2, <1>3, <1>4 DEF Follows
    <2>2. Before(0)'
      BY <1>2, <1>4 DEF Before
    <2> QED
      BY <2>1, <2>2 DEF Stands
  <1>7. NoRings' = NoRings
    BY DEF NoRings
  <1> QED
    BY <1>1, <1>2, <1>3, <1>4, <1>5, <1>6, <1>7 DEF ReplayInv, NewestEpoch

LEMMA ReplayKeeps ==
    ASSUME CaptureInv, LogInv, ReplayInv, [Next]_vars
    PROVE  ReplayInv'
  <1>1. CaptureInv'
    BY CaptureKeeps
  <1>2. faults \in Nat /\ (up => Writing(store) /\ LogOK(store) /\ ~ store.linked)
    BY ReplayFacts
  <1>3. CASE Fetch
    <2>1. UNCHANGED <<store, barsFiles, up, rings, memory, bars, tick, faults>> /\ scrape'.phase # "ingesting"
      BY <1>3 DEF Fetch, bundle
    <2> QED
      BY <1>2, <2>1, SameReplays
  <1>4. ASSUME NEW s \in Stream, IngestSample(s) PROVE ReplayInv'
    BY <1>4, IngestReplays
  <1>5. CASE TickEvaluate
    BY <1>5, EvaluateReplays
  <1>6. CASE TickCapture
    BY <1>1, <1>6, CaptureReplays
  <1>7. CASE TickNotCaptured
    BY <1>7, NotCapturedReplays
  <1>8. CASE FsyncLoop
    <2>1. up /\ store' = Sync(store) /\ UNCHANGED <<barsFiles, up, rings, memory, bars, scrape, tick, faults>>
      BY <1>8 DEF FsyncLoop, OnlyStore, process, count
    <2>2. Settles(store, store')
      BY <1>2, <2>1, SyncLog
    <2> QED
      BY <1>2, <2>1, <2>2, SettledReplays
  <1>9. CASE DiskFails
    <2>1. up /\ store' = Latch(store) /\ UNCHANGED <<barsFiles, up, rings, memory, bars, scrape, tick>> /\ faults' = faults + 1
      BY <1>9 DEF DiskFails, Fault, process
    <2>2. Settles(store, store')
      BY <1>2, <2>1, LatchLog
    <2>3. Refuses(store')
      <3>1. Shaped(store)
        BY <1>2, <2>1 DEF Writing, FilesOK
      <3> QED
        BY <2>1, <3>1 DEF Shaped, Latch, Refuses
    <2> QED
      BY <1>2, <2>1, <2>2, <2>3, SettledReplays
  <1>10. CASE CloseCapture
    <2>1. up /\ store' = Close(store) /\ UNCHANGED <<barsFiles, up, rings, memory, bars, scrape, tick, faults>>
      BY <1>10 DEF CloseCapture, OnlyStore, process, count
    <2>2. Settles(store, store')
      BY <1>2, <2>1, CloseLog
    <2> QED
      BY <1>2, <2>1, <2>2, SettledReplays
  <1>11. CASE Crash
    <2>1. PICK n \in CanSurvive(store) : store' = Dead(store, n)
      BY <1>11 DEF Crash
    <2>2. up /\ Down /\ faults' = faults
      BY <1>11 DEF Crash, Down, count
    <2>3. Cuts(store, store')
      BY <1>2, <2>1, <2>2, DeadLog
    <2> QED
      BY <2>2, <2>3, CutReplays
  <1>12. CASE CrashWhileSealing
    <2>1. up /\ Down /\ faults' = faults /\ Sealing(store) /\ store' = DeadWhileSealing(store)
      BY <1>12 DEF CrashWhileSealing, Down, Sealing, Refuses, count
    <2>2. Cuts(store, store')
      BY <1>2, <2>1, DeadWhileSealingLog
    <2> QED
      BY <2>1, <2>2, CutReplays
  <1>13. CASE Restart
    BY <1>13, RestartReplays
  <1>14. CASE UNCHANGED vars
    <2>1. UNCHANGED <<store, barsFiles, up, rings, memory, bars, scrape, tick, faults>>
      BY <1>14 DEF vars, process, count
    <2>2. tick.phase = "capture" => scrape'.phase # "ingesting"
      BY <2>1 DEF ReplayInv
    <2> QED
      BY <1>2, <2>1, <2>2, SameReplays
  <1> QED
    BY <1>3, <1>4, <1>5, <1>6, <1>7, <1>8, <1>9, <1>10, <1>11, <1>12, <1>13, <1>14 DEF Next

\* The sealed segments are where the log begins, so that their ticks are among its ticks.
LEMMA InvIsFaithful == CaptureInv /\ LogInv /\ ReplayInv => ReplaySeesWhatTheTickSaw
  <1> SUFFICES ASSUME CaptureInv, LogInv, ReplayInv PROVE ReplaySeesWhatTheTickSaw
    OBVIOUS
  <1> DEFINE a == SealedFrames(store)
             b == Entries(OpenFrames(store))
  <1>1. FilesOK(store) /\ Ordered(store)
    BY ReplayFacts
  <1>2. a \in Seq(Frame) /\ Entries(a) \in Seq(Frame) /\ b \in Seq(Frame) /\ EntryLog(store) = Entries(a) \o b
    BY <1>1, LogIs
  <1>3. ReplayedTicks = Replay(barsFiles, a).ticks
    BY ReplayedTicksAre
  <1> HIDE DEF a, b
  <1>4. Replay(barsFiles, a).ticks \subseteq Seen(barsFiles, store).ticks
    <2>1. Replay(barsFiles, Entries(a)) = Replay(barsFiles, a)
      BY <1>2, ReplayEntries
    <2>2. Replay(barsFiles, Entries(a)).ticks \subseteq Replay(barsFiles, Entries(a) \o b).ticks
      BY <1>2, ReplayMore
    <2> QED
      BY <1>2, <2>1, <2>2 DEF Seen
  <1>5. \A t \in ReplayedTicks : Faithful(t, faults)
    BY <1>3, <1>4 DEF ReplayInv, AllFaithful
  <1> QED
    BY <1>5 DEF Faithful, ReplaySeesWhatTheTickSaw

\* Replay is faithful: whatever was crashed, rolled, sealed or deleted before, every tick of the
\* sealed segments whose run boundary is still in the bundle is replayed from the rings and
\* the bars its evaluation had, and its trackers remember the same ticks but for those that no
\* write let in (internal/replay/engine.go: Run; internal/replay/capture.go: SetBars, Tick;
\* the scrape and evaluation loops of cmd/obsd/main.go).
THEOREM ReplayIsFaithful == Spec => []ReplaySeesWhatTheTickSaw
  <1>1. Init => CaptureInv /\ LogInv /\ ReplayInv
    BY CaptureInit, LogInit, ReplayInit
  <1>2. CaptureInv /\ LogInv /\ ReplayInv /\ [Next]_vars => (CaptureInv /\ LogInv /\ ReplayInv)'
    BY CaptureKeeps, LogKeeps, ReplayKeeps
  <1>3. CaptureInv /\ LogInv /\ ReplayInv => ReplaySeesWhatTheTickSaw
    BY InvIsFaithful
  <1> QED
    BY <1>1, <1>2, <1>3, PTL DEF Spec
=============================================================================
