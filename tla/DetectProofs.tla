----------------------------- MODULE DetectProofs -----------------------------
(* What is proved of the detection loop for every phenomenon graph, every    *)
(* set of sightings and every window: the types, that the tracker's pruning  *)
(* loses no story, that a story was at risk before it was told, that a full  *)
(* match has its witnesses, and that a less certain topology convinces less. *)
EXTENDS Detect, FiniteSetTheorems, TLAPS

(* The matcher reports phenomena of the graph on entities it was given       *)
(* fingerprints of, with their blast radius in that topology.                *)
LEMMA FindingsAre ==
    ASSUME NEW s \in Sighting, NEW f \in Findings(s.fps, s.topo)
    PROVE  /\ f \in Finding
           /\ f.atRisk = BlastRadius(f.phenomenon, f.entity, s.topo)
<1>1. PICK x \in Evaluated(s.fps) :
          f = FindingOf(x[1], x[2], Looked(Phenomenon[x[1]], x[2], s.fps, s.topo), s.topo)
  BY DEF Findings
<1> DEFINE look == Looked(Phenomenon[x[1]], x[2], s.fps, s.topo)
<1>2. x[1] \in DOMAIN Phenomenon /\ x[2] \in Entity
  BY DetectAssumption DEF Evaluated
<1>3. Evidence(look) \subseteq Entity \X STRING
  <2>1. ASSUME NEW m \in Met(look), NEW e \in HitsOf(look, m)
        PROVE  e \in Entity /\ m.check.metric \in STRING
    <3>1. m \in Phenomenon[x[1]].members
      BY <2>1 DEF Met, Looked
    <3>2. m \in Member
      BY <3>1, <1>2, MatcherAssumption DEF IsPhenomenon
    <3>3. look[m] = SeenAt(m.check, Phenomenon[x[1]], x[2], s.fps, s.topo)
      BY <3>1 DEF Looked
    <3>4. e \in DOMAIN s.fps
      BY <3>3, <2>1 DEF SeenAt, HitsOf
    <3>. QED
      BY <3>2, <3>4, DetectAssumption DEF Member, Check
  <2>. QED
    BY <2>1 DEF Evidence
<1>4. BlastRadius(x[1], x[2], s.topo) \subseteq (DOMAIN Phenomenon) \X Entity
  BY DEF BlastRadius, Downstream
<1>. QED
  BY <1>1, <1>2, <1>3, <1>4 DEF FindingOf, Finding

-----------------------------------------------------------------------------
(* Remembering.                                                              *)

(* A map of keys to instants up to some instant.                             *)
Remembers(refs, at) == /\ refs \in [DOMAIN refs -> 1..at]
                       /\ DOMAIN refs \subseteq Key

LEMMA NotedRemembers ==
    ASSUME NEW at \in 1..MaxTime, NEW was \in 0..at, NEW refs, Remembers(refs, was),
           NEW fs, \A f \in fs : f \in Finding
    PROVE  Remembers(Noted(refs, fs, at), at)
<1>1. \A f \in fs : KeyOf(f) \in Key
  BY DEF KeyOf, Key, Finding
<1>2. MaxTime \in Nat /\ at \in Nat /\ was \in Nat /\ was =< at /\ at >= 1
  BY DetectAssumption
<1>3. \A k \in DOMAIN refs : refs[k] \in 1..at
  BY <1>2 DEF Remembers
<1>. QED
  BY <1>1, <1>2, <1>3 DEF Remembers, Noted

(* Pruning at one tick and again at the next, before or after the next       *)
(* tick's own are noted, leaves what one look at the whole history leaves.   *)
LEMMA PruningCommutes ==
    ASSUME NEW now_ \in 0..MaxTime, NEW at \in (now_ + 1)..MaxTime,
           NEW refs, Remembers(refs, now_), NEW fs
    PROVE  /\ Noted(Within(Within(refs, now_), at), fs, at) = Within(Noted(refs, fs, at), at)
           /\ Within(Noted(Within(refs, now_), fs, at), at) = Within(Noted(refs, fs, at), at)
<1>1. /\ Window \in Nat /\ now_ \in Nat /\ at \in Nat /\ now_ < at
      /\ \A k \in DOMAIN refs : refs[k] \in Nat
  BY DetectAssumption DEF Remembers
<1>2. \A k \in DOMAIN refs : at - refs[k] =< Window => now_ - refs[k] =< Window
  BY <1>1
<1>3. at - at =< Window
  BY <1>1
<1> DEFINE keys == {KeyOf(f) : f \in fs}
           kept == {k \in DOMAIN refs : at - refs[k] =< Window}
<1> HIDE DEF keys
<1>4. Within(Within(refs, now_), at) = [k \in kept |-> refs[k]]
  BY <1>2 DEF Within
<1>5. Noted([k \in kept |-> refs[k]], fs, at) = [k \in kept \cup keys |-> IF k \in keys THEN at ELSE refs[k]]
  BY DEF Noted, keys
<1>6. Noted(refs, fs, at) = [k \in DOMAIN refs \cup keys |-> IF k \in keys THEN at ELSE refs[k]]
  BY DEF Noted, keys
<1>7. Within(Noted(refs, fs, at), at) = [k \in kept \cup keys |-> IF k \in keys THEN at ELSE refs[k]]
  BY <1>3, <1>6 DEF Within
<1> DEFINE near == {k \in DOMAIN refs : now_ - refs[k] =< Window}
<1>8. Noted(Within(refs, now_), fs, at) = [k \in near \cup keys |-> IF k \in keys THEN at ELSE refs[k]]
  BY DEF Noted, Within, keys
<1>9. Within(Noted(Within(refs, now_), fs, at), at)
          = [k \in kept \cup keys |-> IF k \in keys THEN at ELSE refs[k]]
  <2>1. {k \in near \cup keys : at - (IF k \in keys THEN at ELSE refs[k]) =< Window} = kept \cup keys
    BY <1>2, <1>3
  <2>. QED
    BY <1>8, <2>1 DEF Within
<1>. QED
  BY <1>4, <1>5, <1>7, <1>9

-----------------------------------------------------------------------------
(* The stories that a history of instants gives at a tick.                   *)
Stories(fs, refs, topo, at) ==
    {c \in [trigger : DOMAIN refs, at : {refs[k] : k \in DOMAIN refs}, downstream : {KeyOf(f) : f \in fs}] :
        /\ c.at = refs[c.trigger] /\ at - c.at =< Window
        /\ c.trigger # c.downstream
        /\ c.downstream[1] \in Downstream(c.trigger[1])
        /\ Related(c.trigger[2], c.downstream[2], topo)}

(* A tick whose tracker holds the recent part of a history tells the stories *)
(* of that history and its own findings.                                     *)
LEMMA CascadesAreStories ==
    ASSUME NEW now_ \in 0..MaxTime, NEW at \in (now_ + 1)..MaxTime,
           NEW refs, Remembers(refs, now_), NEW fs, NEW topo
    PROVE  Cascades(fs, Within(refs, now_), topo, at) = Stories(fs, Noted(refs, fs, at), topo, at)
<1> DEFINE all == Noted(refs, fs, at)
           told == Within(all, at)
           heard == Cascades(fs, Within(refs, now_), topo, at)
<1>1. heard = {[trigger |-> x[1], at |-> told[x[1]], downstream |-> KeyOf(x[2])] :
                  x \in {y \in (DOMAIN told) \X fs :
                            /\ y[2].phenomenon \in Downstream(y[1][1])
                            /\ y[1] # KeyOf(y[2])
                            /\ Related(y[1][2], y[2].entity, topo)}}
  BY PruningCommutes DEF Cascades
<1>2. /\ DOMAIN told = {k \in DOMAIN all : at - all[k] =< Window}
      /\ \A k \in DOMAIN told : told[k] = all[k]
  BY DEF Within
<1> HIDE DEF all, told
<1>3. \A f : KeyOf(f)[1] = f.phenomenon /\ KeyOf(f)[2] = f.entity
  BY DEF KeyOf
<1>4. ASSUME NEW c \in heard
      PROVE  c \in Stories(fs, all, topo, at)
  <2>1. PICK k \in DOMAIN told, f \in fs :
            /\ c = [trigger |-> k, at |-> told[k], downstream |-> KeyOf(f)]
            /\ f.phenomenon \in Downstream(k[1]) /\ k # KeyOf(f) /\ Related(k[2], f.entity, topo)
    BY <1>1
  <2>. QED
    BY <2>1, <1>2, <1>3 DEF Stories
<1>5. ASSUME NEW c \in Stories(fs, all, topo, at)
      PROVE  c \in heard
  <2>1. PICK f \in fs : c.downstream = KeyOf(f)
    BY DEF Stories
  <2>2. c.trigger \in DOMAIN told /\ c.at = told[c.trigger]
    BY <1>2 DEF Stories
  <2>3. c = [trigger |-> c.trigger, at |-> told[c.trigger], downstream |-> KeyOf(f)]
    BY <2>1, <2>2 DEF Stories
  <2>4. /\ f.phenomenon \in Downstream(c.trigger[1]) /\ c.trigger # KeyOf(f)
        /\ Related(c.trigger[2], f.entity, topo)
    BY <2>1, <1>3 DEF Stories
  <2> DEFINE x == <<c.trigger, f>>
  <2>5. x \in (DOMAIN told) \X fs /\ x[1] = c.trigger /\ x[2] = f
    BY <2>2
  <2>. QED
    BY <2>3, <2>4, <2>5, <1>1
<1>. QED
  BY <1>4, <1>5 DEF all

-----------------------------------------------------------------------------
(* The inductive invariant: the tracker is the recent part of the history,   *)
(* the cascades are the history's, and the findings are the matcher's.       *)
DetectInv ==
    /\ now \in 0..MaxTime
    /\ sight \in Sighting \cup {Blind}
    /\ findings = Findings(sight.fps, sight.topo)
    /\ \A f \in findings : /\ f \in Finding
                           /\ f.atRisk = BlastRadius(f.phenomenon, f.entity, sight.topo)
    /\ Remembers(surfaced, now)
    /\ recent = Within(surfaced, now)
    /\ cascades = Stories(findings, surfaced, sight.topo, now)

LEMMA NothingTold ==
    ASSUME NEW topo, NEW n \in 0..MaxTime
    PROVE  /\ Remembers(Nothing, n) /\ Nothing = Within(Nothing, n)
           /\ Stories({}, Nothing, topo, n) = {}
BY DEF Remembers, Nothing, Within, Stories

LEMMA BlindFindsNothing == Findings(Blind.fps, Blind.topo) = {}
BY DEF Findings, Evaluated, Blind

LEMMA InitDetect == Init => DetectInv
BY NothingTold, BlindFindsNothing, DetectAssumption DEF Init, DetectInv

LEMMA TickDetect == DetectInv /\ Tick => DetectInv'
<1> SUFFICES ASSUME DetectInv, Tick PROVE DetectInv'
  OBVIOUS
<1>1. PICK s \in Sighting, at \in (now + 1)..MaxTime :
          LET fs == Findings(s.fps, s.topo) IN
          /\ now' = at /\ sight' = s /\ findings' = fs
          /\ cascades' = Cascades(fs, recent, s.topo, at)
          /\ recent' = Observe(fs, recent, at)
          /\ surfaced' = Noted(surfaced, fs, at)
  BY DEF Tick, Match
<1>2. now \in 0..MaxTime /\ Remembers(surfaced, now) /\ recent = Within(surfaced, now)
  BY DEF DetectInv
<1>3. now \in Nat /\ MaxTime \in Nat /\ at \in 1..MaxTime /\ now \in 0..at
  BY <1>2, DetectAssumption
<1>4. \A f \in findings' : f \in Finding /\ f.atRisk = BlastRadius(f.phenomenon, f.entity, sight'.topo)
  BY <1>1, FindingsAre
<1>5. Remembers(surfaced', at)
  BY <1>1, <1>2, <1>3, <1>4, NotedRemembers
<1>6. recent' = Within(surfaced', at)
  BY <1>1, <1>2, PruningCommutes DEF Observe
<1>7. cascades' = Stories(findings', surfaced', sight'.topo, at)
  BY <1>1, <1>2, CascadesAreStories
<1>. QED
  BY <1>1, <1>3, <1>4, <1>5, <1>6, <1>7 DEF DetectInv

LEMMA NextDetect == DetectInv /\ [Next]_vars => DetectInv'
<1>1. DetectInv /\ Tick => DetectInv'
  BY TickDetect
<1>2. DetectInv /\ Restart => DetectInv'
  BY NothingTold, BlindFindsNothing DEF DetectInv, Restart
<1>3. DetectInv /\ UNCHANGED vars => DetectInv'
  BY DEF DetectInv, vars
<1>. QED
  BY <1>1, <1>2, <1>3 DEF Next

(* The tracker is always the recent part of the history.                     *)
THEOREM DetectInvariant == Spec => []DetectInv
BY InitDetect, NextDetect, PTL DEF Spec

-----------------------------------------------------------------------------
(* Findings are of the graph and on known entities, and the tracker never    *)
(* holds what is older than the window (detect/cascade.go Observe).          *)
THEOREM DetectTyped == Spec => []DetectTypeOK
<1>1. DetectInv => DetectTypeOK
  <2> SUFFICES ASSUME DetectInv PROVE DetectTypeOK
    OBVIOUS
  <2>1. /\ DOMAIN recent \subseteq DOMAIN surfaced
        /\ \A k \in DOMAIN recent : recent[k] = surfaced[k] /\ now - surfaced[k] =< Window
    BY DEF DetectInv, Within
  <2>2. \A k \in DOMAIN surfaced : k \in Key /\ surfaced[k] \in 1..now
    BY DEF DetectInv, Remembers
  <2>3. \A f \in findings : KeyOf(f) \in Key
    BY DEF DetectInv, KeyOf, Key, Finding
  <2>4. ASSUME NEW c \in cascades PROVE c \in Cascade
    <3>1. c \in [trigger : DOMAIN surfaced, at : {surfaced[k] : k \in DOMAIN surfaced},
                 downstream : {KeyOf(f) : f \in findings}]
      BY DEF DetectInv, Stories
    <3>2. 1..now \subseteq 1..MaxTime
      BY DetectAssumption DEF DetectInv
    <3>. QED
      BY <3>1, <3>2, <2>2, <2>3 DEF Cascade
  <2>. QED
    BY <2>1, <2>2, <2>4 DEF DetectTypeOK, DetectInv
<1>. QED
  BY <1>1, DetectInvariant, PTL

(* Pruning loses no story and invents none, whatever the window and however  *)
(* the ticks are spaced (detect/cascade.go Observe, Recognize).              *)
THEOREM PruningShowsInNoStory == Spec => []CascadesTellTheHistory
<1>1. DetectInv => CascadesTellTheHistory
  BY DEF DetectInv, CascadesTellTheHistory, Stories
<1>. QED
  BY <1>1, DetectInvariant, PTL

(* What the blast radius warned of contains every story the next tick tells  *)
(* over the same topology (detect/match.go attachAtRisk, cascade.go).        *)
THEOREM WarnedBeforeTold == Spec => StoryWasAtRisk
<1>1. DetectInv /\ DetectInv' => ToldInAdvance
  <2> SUFFICES ASSUME DetectInv, DetectInv', sight'.topo = sight.topo,
                      NEW c \in cascades', NEW f \in findings,
                      c.trigger = KeyOf(f), c.downstream[1] \in Selected[c.downstream[2]]
               PROVE  c.downstream \in f.atRisk
    BY DEF ToldInAdvance
  <2>1. c \in Stories(findings', surfaced', sight'.topo, now')
    BY DEF DetectInv
  <2>2. PICK g \in findings' : c.downstream = KeyOf(g)
    BY <2>1 DEF Stories
  <2>3. g.phenomenon \in DOMAIN Phenomenon /\ g.entity \in Entity
    BY DEF DetectInv, Finding
  <2>4. c.downstream = <<g.phenomenon, g.entity>> /\ c.trigger = <<f.phenomenon, f.entity>>
    BY <2>2 DEF KeyOf
  <2>5. g.phenomenon \in Downstream(f.phenomenon) /\ Related(f.entity, g.entity, sight.topo)
    BY <2>1, <2>4 DEF Stories
  <2>6. c.downstream \in BlastRadius(f.phenomenon, f.entity, sight.topo)
    BY <2>3, <2>4, <2>5 DEF BlastRadius
  <2>. QED
    BY <2>6 DEF DetectInv
<1>2. DetectInv /\ DetectInv' => [ToldInAdvance]_vars
  BY <1>1
<1>. QED
  BY <1>2, DetectInvariant, PTL DEF StoryWasAtRisk
-----------------------------------------------------------------------------
(* Reach, told by the edges.                                                 *)

LEMMA BestOf ==
    ASSUME NEW S, S \subseteq Absent..Valid
    PROVE  /\ Best(S) \in Absent..Valid
           /\ Best(S) = Valid <=> Valid \in S
           /\ Best(S) # Absent <=> \E v \in S : v # Absent
<1> DEFINE T == {Absent} \cup S
<1>1. T \subseteq {0, 1, 2} /\ 0 \in T
  BY DEF Absent, Valid
<1>2. \E x \in T : \A y \in T : x >= y
  <2>1. CASE 2 \in T
    BY <1>1, <2>1
  <2>2. CASE 2 \notin T /\ 1 \in T
    BY <1>1, <2>2
  <2>3. CASE 2 \notin T /\ 1 \notin T
    BY <1>1, <2>3
  <2>. QED
    BY <2>1, <2>2, <2>3
<1>3. Best(S) = CHOOSE x \in T : \A y \in T : x >= y
  BY DEF Best, Max
<1>4. 0 \in T /\ \A v \in S : v \in T
  BY <1>1
<1>5. \A y \in T : y = 0 \/ y \in S
  BY DEF Absent
<1> HIDE DEF T
<1>6. Best(S) \in T /\ \A y \in T : Best(S) >= y
  BY <1>2, <1>3
<1>7. Best(S) \in {0, 1, 2} /\ (Best(S) = 0 \/ Best(S) \in S)
  BY <1>1, <1>5, <1>6
<1>8. 2 \in S => Best(S) = 2
  <2> SUFFICES ASSUME 2 \in S PROVE Best(S) = 2
    OBVIOUS
  <2>1. Best(S) >= 2
    BY <1>4, <1>6
  <2>. QED
    BY <1>7, <2>1
<1>9. \A v \in S : v # 0 => Best(S) # 0
  <2> SUFFICES ASSUME NEW v \in S, v # 0 PROVE Best(S) # 0
    OBVIOUS
  <2>1. v \in {1, 2} /\ Best(S) >= v
    BY <1>1, <1>4, <1>6
  <2>. QED
    BY <2>1
<1>. QED
  BY <1>7, <1>8, <1>9 DEF Absent, Valid

(* An edge of the phenomenon's types joins the two, in some verdict; a       *)
(* valid one does.                                                           *)
Joined(a, b, walks, topo) ==
    \E e \in Edge : e.type \in walks /\ {e.from, e.to} = {a, b} /\ topo.verdict[e] # Absent
Surely(a, b, walks, topo) ==
    \E e \in Edge : e.type \in walks /\ {e.from, e.to} = {a, b} /\ topo.verdict[e] = Valid

LEMMA HopIs ==
    ASSUME NEW topo \in Topology, NEW a, NEW b, NEW walks
    PROVE  /\ Hop(a, b, walks, topo) \in Absent..Valid
           /\ Hop(a, b, walks, topo) # Absent <=> Joined(a, b, walks, topo)
           /\ Hop(a, b, walks, topo) = Valid <=> Surely(a, b, walks, topo)
<1> DEFINE S == {topo.verdict[e] : e \in {x \in Edge : x.type \in walks /\ {x.from, x.to} = {a, b}}}
<1>1. S \subseteq Absent..Valid
  BY DEF Topology
<1>2. /\ Valid \in S <=> Surely(a, b, walks, topo)
      /\ (\E v \in S : v # Absent) <=> Joined(a, b, walks, topo)
  BY DEF Surely, Joined
<1>3. Hop(a, b, walks, topo) = Best(S)
  BY DEF Hop
<1> HIDE DEF S
<1>. QED
  BY <1>1, <1>2, <1>3, BestOf

LEMMA Hop1Is ==
    ASSUME NEW topo \in Topology, NEW o, NEW walks
    PROVE  /\ DOMAIN Hop1(o, walks, topo) = {x \in Entity \ {o} : Joined(o, x, walks, topo)}
           /\ \A x \in DOMAIN Hop1(o, walks, topo) :
                 /\ Hop1(o, walks, topo)[x] \in Absent..Valid
                 /\ Hop1(o, walks, topo)[x] = Valid <=> Surely(o, x, walks, topo)
BY HopIs DEF Hop1

Way(o, walks, topo, r, e) == WorstOfBoth(Hop1(o, walks, topo)[r], Hop(r, e, walks, topo))
Ways(o, walks, topo, e) ==
    {Way(o, walks, topo, r, e) : r \in {x \in DOMAIN Hop1(o, walks, topo) : Hop(x, e, walks, topo) # Absent}}
Second(o, walks, topo) ==
    {e \in Entity : \E r \in DOMAIN Hop1(o, walks, topo) : Hop(r, e, walks, topo) # Absent}
        \ (DOMAIN Hop1(o, walks, topo) \cup {o})

LEMMA Hop2Is ==
    ASSUME NEW topo \in Topology, NEW o, NEW walks
    PROVE  /\ DOMAIN Hop2(o, walks, topo) =
                 {x \in Entity \ {o} : /\ ~Joined(o, x, walks, topo)
                                       /\ \E r \in Entity \ {o} : Joined(o, r, walks, topo) /\ Joined(r, x, walks, topo)}
           /\ \A x \in DOMAIN Hop2(o, walks, topo) :
                 Hop2(o, walks, topo)[x] = Valid <=>
                    \E r \in Entity \ {o} : Surely(o, r, walks, topo) /\ Surely(r, x, walks, topo)
<1>1. Hop2(o, walks, topo) = [e \in Second(o, walks, topo) |-> Best(Ways(o, walks, topo, e))]
  <2> DEFINE U == UNION {{e \in Entity : Hop(r, e, walks, topo) # Absent} : r \in DOMAIN Hop1(o, walks, topo)}
  <2>1. U \ (DOMAIN Hop1(o, walks, topo) \cup {o}) = Second(o, walks, topo)
    <3>1. U = {e \in Entity : \E r \in DOMAIN Hop1(o, walks, topo) : Hop(r, e, walks, topo) # Absent}
      <4>1. \A e : e \in U <=> e \in Entity /\ \E r \in DOMAIN Hop1(o, walks, topo) : Hop(r, e, walks, topo) # Absent
        OBVIOUS
      <4> HIDE DEF U
      <4>. QED
        BY <4>1
    <3> HIDE DEF U
    <3>. QED
      BY <3>1, Zenon DEF Second
  <2>2. Hop2(o, walks, topo) =
           [e \in U \ (DOMAIN Hop1(o, walks, topo) \cup {o}) |->
               Best({Way(o, walks, topo, r, e) :
                        r \in {x \in DOMAIN Hop1(o, walks, topo) : e \in {y \in Entity : Hop(x, y, walks, topo) # Absent}}})]
    BY DEF Hop2, Way
  <2> HIDE DEF U
  <2>3. \A e \in Second(o, walks, topo) :
           {x \in DOMAIN Hop1(o, walks, topo) : e \in {y \in Entity : Hop(x, y, walks, topo) # Absent}}
               = {x \in DOMAIN Hop1(o, walks, topo) : Hop(x, e, walks, topo) # Absent}
    BY DEF Second
  <2>. QED
    BY <2>1, <2>2, <2>3, Zenon DEF Ways
<1>2. Second(o, walks, topo) =
         {x \in Entity \ {o} : /\ ~Joined(o, x, walks, topo)
                               /\ \E r \in Entity \ {o} : Joined(o, r, walks, topo) /\ Joined(r, x, walks, topo)}
  <2>1. DOMAIN Hop1(o, walks, topo) = {x \in Entity \ {o} : Joined(o, x, walks, topo)}
    BY Hop1Is
  <2>2. \A r, x : Hop(r, x, walks, topo) # Absent <=> Joined(r, x, walks, topo)
    BY HopIs
  <2>. QED
    BY <2>1, <2>2 DEF Second
<1>3. ASSUME NEW x \in Second(o, walks, topo)
      PROVE  Best(Ways(o, walks, topo, x)) = Valid <=>
                \E r \in Entity \ {o} : Surely(o, r, walks, topo) /\ Surely(r, x, walks, topo)
  <2>1. \A r \in DOMAIN Hop1(o, walks, topo) :
           /\ Way(o, walks, topo, r, x) \in Absent..Valid
           /\ Way(o, walks, topo, r, x) = Valid <=> Surely(o, r, walks, topo) /\ Surely(r, x, walks, topo)
    <3> TAKE r \in DOMAIN Hop1(o, walks, topo)
    <3>1. /\ Hop1(o, walks, topo)[r] \in Absent..Valid /\ Hop(r, x, walks, topo) \in Absent..Valid
          /\ Hop1(o, walks, topo)[r] = Valid <=> Surely(o, r, walks, topo)
          /\ Hop(r, x, walks, topo) = Valid <=> Surely(r, x, walks, topo)
      BY HopIs, Hop1Is
    <3>. QED
      BY <3>1 DEF Way, WorstOfBoth, Absent, Valid
  <2>2. Ways(o, walks, topo, x) \subseteq Absent..Valid
    BY <2>1 DEF Ways
  <2>3. ASSUME NEW r \in Entity \ {o}, Surely(o, r, walks, topo), Surely(r, x, walks, topo)
        PROVE  r \in DOMAIN Hop1(o, walks, topo) /\ Hop(r, x, walks, topo) # Absent
    <3>1. Joined(o, r, walks, topo) /\ Joined(r, x, walks, topo)
      BY <2>3 DEF Surely, Joined, Valid, Absent
    <3>2. DOMAIN Hop1(o, walks, topo) = {y \in Entity \ {o} : Joined(o, y, walks, topo)}
      BY Hop1Is
    <3>3. Hop(r, x, walks, topo) # Absent <=> Joined(r, x, walks, topo)
      BY HopIs
    <3>. QED
      BY <3>1, <3>2, <3>3
  <2>4. \A r \in DOMAIN Hop1(o, walks, topo) : r \in Entity \ {o}
    BY Hop1Is
  <2>5. Valid \in Ways(o, walks, topo, x) <=>
           \E r \in Entity \ {o} : Surely(o, r, walks, topo) /\ Surely(r, x, walks, topo)
    BY <2>1, <2>3, <2>4 DEF Ways
  <2>. QED
    BY <2>2, <2>5, BestOf
<1>. QED
  BY <1>1, <1>2, <1>3

-----------------------------------------------------------------------------
(* What a less certain topology does to the matcher.                         *)

(* The same pods, and no edge of a better verdict.                           *)
NoBetter(less, topo) ==
    /\ less \in Topology /\ topo \in Topology /\ less.pods = topo.pods
    /\ \A e \in Edge : less.verdict[e] =< topo.verdict[e]

(* And none that went missing.                                               *)
SameEdges(less, topo) == \A e \in Edge : less.verdict[e] = Absent => topo.verdict[e] = Absent

LEMMA LessJoins ==
    ASSUME NEW less, NEW topo, NoBetter(less, topo), NEW a, NEW b, NEW walks
    PROVE  /\ Joined(a, b, walks, less) => Joined(a, b, walks, topo)
           /\ Surely(a, b, walks, less) => Surely(a, b, walks, topo)
           /\ SameEdges(less, topo) => (Joined(a, b, walks, less) <=> Joined(a, b, walks, topo))
<1>1. \A e \in Edge : less.verdict[e] \in Absent..Valid /\ topo.verdict[e] \in Absent..Valid
  BY DEF NoBetter, Topology
<1>2. \A e \in Edge : /\ less.verdict[e] # Absent => topo.verdict[e] # Absent
                      /\ less.verdict[e] = Valid => topo.verdict[e] = Valid
  <2> TAKE e \in Edge
  <2>1. /\ less.verdict[e] \in Absent..Valid /\ topo.verdict[e] \in Absent..Valid
        /\ less.verdict[e] =< topo.verdict[e]
    BY <1>1 DEF NoBetter
  <2>. QED
    BY <2>1 DEF Absent, Valid
<1>. QED
  BY <1>2 DEF Joined, Surely, SameEdges

(* Two hops do not lead back to a neighbour.                                 *)
LEMMA NoWayBack ==
    ASSUME NEW topo, NEW walks, NEW o \in Entity, NEW r \in Entity \ {o}, NEW x \in Entity \ {o, r},
           Joined(o, r, walks, topo), Joined(r, x, walks, topo)
    PROVE  ~Joined(o, x, walks, topo)
<1>1. PICK side \in [Entity -> BOOLEAN] : \A e \in Edge : e.from = e.to \/ side[e.from] # side[e.to]
  BY MatcherAssumption
<1>2. \A e \in Edge : e.from \in Entity /\ e.to \in Entity
  BY MatcherAssumption
<1>3. \A a, b \in Entity : \A top : a # b /\ Joined(a, b, walks, top) => side[a] # side[b]
  <2> SUFFICES ASSUME NEW a \in Entity, NEW b \in Entity, NEW top, a # b, Joined(a, b, walks, top)
               PROVE  side[a] # side[b]
    OBVIOUS
  <2>1. PICK e \in Edge : {e.from, e.to} = {a, b}
    BY DEF Joined
  <2>2. (e.from = a /\ e.to = b) \/ (e.from = b /\ e.to = a)
    BY <2>1
  <2>. QED
    BY <1>1, <2>2
<1>4. side[o] # side[r] /\ side[r] # side[x]
  BY <1>3
<1>5. side[o] = side[x]
  BY <1>1, <1>4
<1>. QED
  BY <1>3, <1>5

LEMMA LessReach ==
    ASSUME NEW less, NEW topo, NoBetter(less, topo), NEW o \in Entity, NEW walks
    PROVE  /\ DOMAIN Hop1(o, walks, less) \subseteq DOMAIN Hop1(o, walks, topo)
           /\ \A x \in DOMAIN Hop1(o, walks, less) :
                 Hop1(o, walks, less)[x] = Valid => Hop1(o, walks, topo)[x] = Valid
           /\ DOMAIN Hop2(o, walks, less) \subseteq DOMAIN Hop2(o, walks, topo)
           /\ \A x \in DOMAIN Hop2(o, walks, less) :
                 Hop2(o, walks, less)[x] = Valid => Hop2(o, walks, topo)[x] = Valid
           /\ SameEdges(less, topo) =>
                 /\ DOMAIN Hop1(o, walks, less) = DOMAIN Hop1(o, walks, topo)
                 /\ DOMAIN Hop2(o, walks, less) = DOMAIN Hop2(o, walks, topo)
<1>1. less \in Topology /\ topo \in Topology
  BY DEF NoBetter
<1>2. \A a, b : /\ Joined(a, b, walks, less) => Joined(a, b, walks, topo)
                /\ Surely(a, b, walks, less) => Surely(a, b, walks, topo)
                /\ SameEdges(less, topo) => (Joined(a, b, walks, less) <=> Joined(a, b, walks, topo))
  BY LessJoins
<1>3. \A t \in {less, topo} :
         /\ DOMAIN Hop1(o, walks, t) = {x \in Entity \ {o} : Joined(o, x, walks, t)}
         /\ \A x \in DOMAIN Hop1(o, walks, t) : Hop1(o, walks, t)[x] = Valid <=> Surely(o, x, walks, t)
  BY <1>1, Hop1Is
<1>4. \A t \in {less, topo} :
         /\ DOMAIN Hop2(o, walks, t) =
               {x \in Entity \ {o} : /\ ~Joined(o, x, walks, t)
                                     /\ \E r \in Entity \ {o} : Joined(o, r, walks, t) /\ Joined(r, x, walks, t)}
         /\ \A x \in DOMAIN Hop2(o, walks, t) :
               Hop2(o, walks, t)[x] = Valid <=>
                  \E r \in Entity \ {o} : Surely(o, r, walks, t) /\ Surely(r, x, walks, t)
  BY <1>1, Hop2Is
<1>5. /\ DOMAIN Hop1(o, walks, less) \subseteq DOMAIN Hop1(o, walks, topo)
      /\ \A x \in DOMAIN Hop1(o, walks, less) :
            Hop1(o, walks, less)[x] = Valid => Hop1(o, walks, topo)[x] = Valid
  BY <1>2, <1>3
<1>6. ASSUME NEW x \in DOMAIN Hop2(o, walks, less) PROVE x \in DOMAIN Hop2(o, walks, topo)
  <2>1. x \in Entity \ {o} /\ ~Joined(o, x, walks, less)
    BY <1>4
  <2>2. PICK r \in Entity \ {o} : Joined(o, r, walks, less) /\ Joined(r, x, walks, less)
    BY <1>4
  <2>3. x # r
    BY <2>1, <2>2
  <2>4. Joined(o, r, walks, topo) /\ Joined(r, x, walks, topo)
    BY <1>2, <2>2
  <2>5. ~Joined(o, x, walks, topo)
    BY <2>1, <2>3, <2>4, NoWayBack
  <2>. QED
    BY <1>4, <2>1, <2>4, <2>5
<1>7. \A x \in DOMAIN Hop2(o, walks, less) :
         Hop2(o, walks, less)[x] = Valid => Hop2(o, walks, topo)[x] = Valid
  <2> SUFFICES ASSUME NEW x \in DOMAIN Hop2(o, walks, less), Hop2(o, walks, less)[x] = Valid
               PROVE  Hop2(o, walks, topo)[x] = Valid
    OBVIOUS
  <2>1. PICK r \in Entity \ {o} : Surely(o, r, walks, less) /\ Surely(r, x, walks, less)
    BY <1>4
  <2>2. Surely(o, r, walks, topo) /\ Surely(r, x, walks, topo)
    BY <1>2, <2>1
  <2>. QED
    BY <1>4, <1>6, <2>2
<1>8. SameEdges(less, topo) =>
         /\ DOMAIN Hop1(o, walks, less) = DOMAIN Hop1(o, walks, topo)
         /\ DOMAIN Hop2(o, walks, less) = DOMAIN Hop2(o, walks, topo)
  BY <1>2, <1>3, <1>4
<1>. QED
  BY <1>5, <1>6, <1>7, <1>8

(* Where a member of a phenomenon was looked for, and what came of it.       *)
LEMMA LookIs ==
    ASSUME NEW p, NEW a, NEW fps, NEW topo, NEW m \in p.members
    PROVE  LET look == Looked(p, a, fps, topo)
               to   == Targets(m.check, p, a, topo)
           IN  /\ DOMAIN look = p.members
               /\ look[m].seen = {e \in DOMAIN to \cap DOMAIN fps : Observable(m.check, fps[e])}
               /\ HitsOf(look, m) = {e \in look[m].seen : Satisfied(m.check, fps[e])}
               /\ \A e \in HitsOf(look, m) : look[m].hits[e] = to[e]
<1> DEFINE to == Targets(m.check, p, a, topo)
           seen == {e \in DOMAIN to \cap DOMAIN fps : Observable(m.check, fps[e])}
<1>1. DOMAIN Looked(p, a, fps, topo) = p.members
  BY DEF Looked
<1>2. Looked(p, a, fps, topo)[m] = SeenAt(m.check, p, a, fps, topo)
  BY DEF Looked
<1>3. SeenAt(m.check, p, a, fps, topo) =
         [seen |-> seen, hits |-> [e \in {x \in seen : Satisfied(m.check, fps[x])} |-> to[e]]]
  BY Zenon DEF SeenAt
<1> HIDE DEF seen, to
<1>4. Looked(p, a, fps, topo)[m].seen = seen
      /\ Looked(p, a, fps, topo)[m].hits = [e \in {x \in seen : Satisfied(m.check, fps[x])} |-> to[e]]
  BY <1>2, <1>3
<1>5. HitsOf(Looked(p, a, fps, topo), m) = {e \in seen : Satisfied(m.check, fps[e])}
  BY <1>4 DEF HitsOf
<1>6. \A e \in HitsOf(Looked(p, a, fps, topo), m) : Looked(p, a, fps, topo)[m].hits[e] = to[e]
  BY <1>4, <1>5
<1>. QED
  BY <1>1, <1>4, <1>5, <1>6 DEF seen, to

LEMMA LessTargets ==
    ASSUME NEW less, NEW topo, NoBetter(less, topo), NEW a \in Entity, NEW p, NEW c
    PROVE  /\ DOMAIN Targets(c, p, a, less) \subseteq DOMAIN Targets(c, p, a, topo)
           /\ \A e \in DOMAIN Targets(c, p, a, less) :
                 Targets(c, p, a, less)[e] = Valid => Targets(c, p, a, topo)[e] = Valid
           /\ SameEdges(less, topo) => DOMAIN Targets(c, p, a, less) = DOMAIN Targets(c, p, a, topo)
<1>1. Origin(a, less) = Origin(a, topo)
  BY DEF Origin, NoBetter
<1>2. CASE c.on = "anchor"
  BY <1>2 DEF Targets
<1>3. CASE c.on # "anchor" /\ Origin(a, topo) = {}
  BY <1>1, <1>3 DEF Targets, NothingReached
<1>4. CASE c.on # "anchor" /\ Origin(a, topo) # {}
  <2> DEFINE o == CHOOSE x \in Origin(a, topo) : TRUE
  <2>1. o \in Entity
    <3>1. o \in Origin(a, topo)
      BY <1>4
    <3>2. Origin(a, topo) \subseteq Entity
      BY DEF Origin, NoBetter, Topology
    <3>. QED
      BY <3>1, <3>2
  <2>2. Targets(c, p, a, topo) = IF c.on = "neighbour" THEN Hop1(o, p.walks, topo) ELSE Hop2(o, p.walks, topo)
    BY <1>4, Zenon DEF Targets
  <2>3. Targets(c, p, a, less) = IF c.on = "neighbour" THEN Hop1(o, p.walks, less) ELSE Hop2(o, p.walks, less)
    <3>1. (CHOOSE x \in Origin(a, less) : TRUE) = o /\ Origin(a, less) # {}
      BY <1>1, <1>4
    <3>2. Targets(c, p, a, less) =
             IF c.on = "neighbour" THEN Hop1(CHOOSE x \in Origin(a, less) : TRUE, p.walks, less)
             ELSE Hop2(CHOOSE x \in Origin(a, less) : TRUE, p.walks, less)
      BY <1>4, <3>1, Zenon DEF Targets
    <3> HIDE DEF o
    <3>. QED
      BY <3>1, <3>2
  <2> HIDE DEF o
  <2>4. /\ DOMAIN Hop1(o, p.walks, less) \subseteq DOMAIN Hop1(o, p.walks, topo)
        /\ \A x \in DOMAIN Hop1(o, p.walks, less) :
              Hop1(o, p.walks, less)[x] = Valid => Hop1(o, p.walks, topo)[x] = Valid
        /\ DOMAIN Hop2(o, p.walks, less) \subseteq DOMAIN Hop2(o, p.walks, topo)
        /\ \A x \in DOMAIN Hop2(o, p.walks, less) :
              Hop2(o, p.walks, less)[x] = Valid => Hop2(o, p.walks, topo)[x] = Valid
        /\ SameEdges(less, topo) =>
              /\ DOMAIN Hop1(o, p.walks, less) = DOMAIN Hop1(o, p.walks, topo)
              /\ DOMAIN Hop2(o, p.walks, less) = DOMAIN Hop2(o, p.walks, topo)
    BY <2>1, LessReach
  <2>. QED
    BY <2>2, <2>3, <2>4
<1>. QED
  BY <1>2, <1>3, <1>4

(* Every hit stays a hit, and a certain one certain, in the better topology. *)
LEMMA LessHits ==
    ASSUME NEW less, NEW topo, NoBetter(less, topo), NEW a \in Entity, NEW p, NEW fps, NEW m \in p.members
    PROVE  /\ HitsOf(Looked(p, a, fps, less), m) \subseteq HitsOf(Looked(p, a, fps, topo), m)
           /\ \A e \in HitsOf(Looked(p, a, fps, less), m) :
                 Looked(p, a, fps, less)[m].hits[e] = Valid => Looked(p, a, fps, topo)[m].hits[e] = Valid
           /\ SameEdges(less, topo) =>
                 /\ Looked(p, a, fps, less)[m].seen = Looked(p, a, fps, topo)[m].seen
                 /\ HitsOf(Looked(p, a, fps, less), m) = HitsOf(Looked(p, a, fps, topo), m)
<1> DEFINE l0 == Looked(p, a, fps, less)
           l1 == Looked(p, a, fps, topo)
           t0 == Targets(m.check, p, a, less)
           t1 == Targets(m.check, p, a, topo)
<1>1. /\ l0[m].seen = {e \in DOMAIN t0 \cap DOMAIN fps : Observable(m.check, fps[e])}
      /\ HitsOf(l0, m) = {e \in l0[m].seen : Satisfied(m.check, fps[e])}
      /\ \A e \in HitsOf(l0, m) : l0[m].hits[e] = t0[e]
  BY LookIs
<1>2. /\ l1[m].seen = {e \in DOMAIN t1 \cap DOMAIN fps : Observable(m.check, fps[e])}
      /\ HitsOf(l1, m) = {e \in l1[m].seen : Satisfied(m.check, fps[e])}
      /\ \A e \in HitsOf(l1, m) : l1[m].hits[e] = t1[e]
  BY LookIs
<1>3. /\ DOMAIN t0 \subseteq DOMAIN t1 /\ \A e \in DOMAIN t0 : t0[e] = Valid => t1[e] = Valid
      /\ SameEdges(less, topo) => DOMAIN t0 = DOMAIN t1
  BY LessTargets
<1> HIDE DEF l0, l1, t0, t1
<1>4. \A e \in HitsOf(l0, m) : e \in DOMAIN t0 /\ e \in HitsOf(l1, m)
  BY <1>1, <1>2, <1>3
<1>5. \A e \in HitsOf(l0, m) : l0[m].hits[e] = Valid => l1[m].hits[e] = Valid
  BY <1>1, <1>2, <1>3, <1>4
<1>6. SameEdges(less, topo) => l0[m].seen = l1[m].seen
  BY <1>1, <1>2, <1>3
<1>7. SameEdges(less, topo) => HitsOf(l0, m) = HitsOf(l1, m)
  BY <1>1, <1>2, <1>6
<1>. QED
  BY <1>4, <1>5, <1>6, <1>7 DEF l0, l1

(* A full match stays a match, evidence stays evidence, and unless an edge   *)
(* went missing nothing else surfaces.                                       *)
LEMMA LessMatch ==
    ASSUME NEW less, NEW topo, NoBetter(less, topo), NEW a \in Entity, NEW id \in DOMAIN Phenomenon, NEW fps,
           NEW p, p = Phenomenon[id], NEW l0, l0 = Looked(p, a, fps, less), NEW l1, l1 = Looked(p, a, fps, topo)
    PROVE  /\ Surfaces(l0) /\ IsFull(l0) => Surfaces(l1)
           /\ Evidence(l0) \subseteq Evidence(l1)
           /\ SameEdges(less, topo) =>
                 /\ Evidence(l0) = Evidence(l1)
                 /\ Surfaces(l0) => Surfaces(l1)
                 /\ IsFull(l0) => IsFull(l1)
<1>1. IsPhenomenon(p) /\ CompletenessNum \in Nat /\ CompletenessDen \in Nat /\ CompletenessNum < CompletenessDen
  BY MatcherAssumption
<1>2. DOMAIN l0 = p.members /\ DOMAIN l1 = p.members
  BY DEF Looked
<1>3. ASSUME NEW m \in p.members
      PROVE  /\ HitsOf(l0, m) \subseteq HitsOf(l1, m)
             /\ \A e \in HitsOf(l0, m) : l0[m].hits[e] = Valid => l1[m].hits[e] = Valid
             /\ SameEdges(less, topo) => l0[m].seen = l1[m].seen /\ HitsOf(l0, m) = HitsOf(l1, m)
  BY LessHits
<1>4. Required(l0) = Required(l1) /\ Required(l1) \subseteq p.members
  BY <1>2 DEF Required
<1>5. Met(l0) \subseteq Met(l1)
  BY <1>2, <1>3 DEF Met
<1>6. Evidence(l0) \subseteq Evidence(l1)
  <2> SUFFICES ASSUME NEW x \in Evidence(l0) PROVE x \in Evidence(l1)
    OBVIOUS
  <2>1. PICK m \in Met(l0) : x \in {<<e, m.check.metric>> : e \in HitsOf(l0, m)}
    BY DEF Evidence
  <2>2. m \in Met(l1) /\ m \in p.members
    BY <1>2, <1>5, <2>1 DEF Met
  <2>3. x \in {<<e, m.check.metric>> : e \in HitsOf(l1, m)}
    BY <1>3, <2>1, <2>2
  <2>. QED
    BY <2>2, <2>3 DEF Evidence
<1>7. Surfaces(l0) /\ IsFull(l0) => Surfaces(l1)
  <2> SUFFICES ASSUME Surfaces(l0), IsFull(l0) PROVE Surfaces(l1)
    OBVIOUS
  <2>1. Required(l1) \subseteq Met(l1)
    BY <1>4, <1>5 DEF IsFull
  <2>2. Required(l1) \cap Refuted(l1) = {}
    BY <2>1 DEF Met, Refuted
  <2>3. \E m \in Required(l1) \cap Met(l1) : m.check.on = "anchor"
    BY <1>4, <1>5 DEF Surfaces, Happens
  <2>4. Required(l1) \cap Met(l1) = Required(l1)
    BY <2>1
  <2>5. Cardinality(Required(l1)) \in Nat
    <3>1. IsFiniteSet(p.members)
      BY <1>1 DEF IsPhenomenon
    <3>2. IsFiniteSet(Required(l1))
      BY <1>4, <3>1, FS_Subset
    <3>. QED
      BY <3>2, FS_CardinalityType
  <2>6. \A k \in Nat : k * CompletenessDen >= CompletenessNum * k
    BY <1>1
  <2>7. CompleteEnough(l1)
    BY <2>4, <2>5, <2>6 DEF CompleteEnough
  <2>. QED
    BY <2>2, <2>3, <2>7 DEF Surfaces, Happens
<1>8. SameEdges(less, topo) =>
         /\ Met(l0) = Met(l1) /\ Refuted(l0) = Refuted(l1) /\ Evidence(l0) = Evidence(l1)
         /\ OnSuspicion(l1) \subseteq OnSuspicion(l0)
  <2> SUFFICES ASSUME SameEdges(less, topo)
               PROVE  /\ Met(l0) = Met(l1) /\ Refuted(l0) = Refuted(l1) /\ Evidence(l0) = Evidence(l1)
                      /\ OnSuspicion(l1) \subseteq OnSuspicion(l0)
    OBVIOUS
  <2>1. \A m \in p.members : l0[m].seen = l1[m].seen /\ HitsOf(l0, m) = HitsOf(l1, m)
    BY <1>3
  <2>2. Met(l0) = Met(l1) /\ Met(l1) \subseteq p.members
    BY <1>2, <2>1 DEF Met
  <2>3. Refuted(l0) = Refuted(l1)
    BY <1>2, <2>1 DEF Refuted
  <2>4. Evidence(l1) \subseteq Evidence(l0)
    <3> SUFFICES ASSUME NEW x \in Evidence(l1) PROVE x \in Evidence(l0)
      OBVIOUS
    <3>1. PICK m \in Met(l1) : x \in {<<e, m.check.metric>> : e \in HitsOf(l1, m)}
      BY DEF Evidence
    <3>2. m \in Met(l0) /\ x \in {<<e, m.check.metric>> : e \in HitsOf(l0, m)}
      BY <2>1, <2>2, <3>1
    <3>. QED
      BY <3>2 DEF Evidence
  <2>5. OnSuspicion(l1) \subseteq OnSuspicion(l0)
    BY <1>3, <2>1, <2>2 DEF OnSuspicion
  <2>. QED
    BY <1>6, <2>2, <2>3, <2>4, <2>5
<1>9. ASSUME SameEdges(less, topo)
      PROVE  /\ Evidence(l0) = Evidence(l1)
             /\ Surfaces(l0) => Surfaces(l1)
             /\ IsFull(l0) => IsFull(l1)
  <2>1. /\ Met(l0) = Met(l1) /\ Refuted(l0) = Refuted(l1) /\ Evidence(l0) = Evidence(l1)
        /\ OnSuspicion(l1) \subseteq OnSuspicion(l0)
    BY <1>8, <1>9
  <2>2. IsFull(l0) => IsFull(l1)
    BY <1>4, <2>1 DEF IsFull
  <2>3. Happens(l0) => Happens(l1)
    BY <1>4, <2>1 DEF Happens
  <2>4. CompleteEnough(l0) => CompleteEnough(l1)
    BY <1>4, <2>1 DEF CompleteEnough
  <2>. QED
    BY <2>1, <2>2, <2>3, <2>4 DEF Surfaces
<1>. QED
  BY <1>6, <1>7, <1>9

-----------------------------------------------------------------------------
(* What a tick saw, nothing included.                                        *)
LEMMA SightIs ==
    ASSUME DetectInv
    PROVE  /\ sight.topo \in Topology /\ DOMAIN sight.fps \subseteq Entity
           /\ findings = Findings(sight.fps, sight.topo)
<1>1. CASE sight \in Sighting
  BY <1>1, DetectAssumption DEF DetectInv
<1>2. CASE sight = Blind
  <2>1. Blind.topo \in Topology /\ DOMAIN Blind.fps = {}
    BY DEF Blind, Topology, Absent, Valid
  <2>. QED
    BY <1>2, <2>1 DEF DetectInv
<1>. QED
  BY <1>1, <1>2 DEF DetectInv

(* What lies two valid edges away, and is no neighbour.                      *)
LEMMA Hop2Valid ==
    ASSUME NEW topo \in Topology, NEW o, NEW walks,
           NEW x \in DOMAIN Hop2(o, walks, topo), Hop2(o, walks, topo)[x] = Valid
    PROVE  /\ x \in Entity \ {o} /\ ~Joined(o, x, walks, topo)
           /\ \E r \in Entity \ {o} : Surely(o, r, walks, topo) /\ Surely(r, x, walks, topo)
<1> DEFINE D == {y \in Entity \ {o} : /\ ~Joined(o, y, walks, topo)
                                     /\ \E r \in Entity \ {o} : Joined(o, r, walks, topo) /\ Joined(r, y, walks, topo)}
<1>1. DOMAIN Hop2(o, walks, topo) = D
  BY Hop2Is, Zenon
<1>2. x \in D
  BY <1>1
<1>3. \A y \in DOMAIN Hop2(o, walks, topo) :
         Hop2(o, walks, topo)[y] = Valid <=>
            \E r \in Entity \ {o} : Surely(o, r, walks, topo) /\ Surely(r, y, walks, topo)
  BY Hop2Is, Zenon
<1>. QED
  BY <1>2, <1>3

(* A target reached for certain is reached over valid edges.                 *)
LEMMA ReachIsValid ==
    ASSUME sight.topo \in Topology, NEW a \in Entity, NEW p, NEW c \in Check,
           NEW e \in DOMAIN Targets(c, p, a, sight.topo), Targets(c, p, a, sight.topo)[e] = Valid
    PROVE  IF c.on = "anchor" THEN e = a
           ELSE \E o \in {a, TopoAnchor(a, sight.topo)} : ValidlyAway(c, o, e, p)
<1> DEFINE topo == sight.topo
<1>1. CASE c.on = "anchor"
  BY <1>1 DEF Targets
<1>2. CASE c.on # "anchor"
  <2> DEFINE o == CHOOSE x \in Origin(a, topo) : TRUE
  <2>1. Origin(a, topo) # {}
    BY <1>2 DEF Targets, NothingReached
  <2>2. Targets(c, p, a, topo) = IF c.on = "neighbour" THEN Hop1(o, p.walks, topo) ELSE Hop2(o, p.walks, topo)
    BY <1>2, <2>1, Zenon DEF Targets
  <2>3. o \in Origin(a, topo)
    BY <2>1
  <2> HIDE DEF o
  <2>4. o \in {a, TopoAnchor(a, topo)}
    BY <2>3 DEF Origin, TopoAnchor
  <2>5. \A x, y : ValidStep(x, y, p) <=> Surely(x, y, p.walks, topo)
    BY DEF ValidStep, Surely
  <2>6. CASE c.on = "neighbour"
    <3>1. Surely(o, e, p.walks, topo)
      BY <2>2, <2>6, Hop1Is
    <3>. QED
      BY <1>2, <2>4, <2>5, <2>6, <3>1 DEF ValidlyAway
  <2>7. CASE c.on = "two-hop"
    <3>1. e \in DOMAIN Hop2(o, p.walks, topo) /\ Hop2(o, p.walks, topo)[e] = Valid
      BY <2>2, <2>7
    <3>2. e \in Entity \ {o} /\ ~Joined(o, e, p.walks, topo)
      BY <3>1, Hop2Valid
    <3>3. PICK r \in Entity \ {o} : Surely(o, r, p.walks, topo) /\ Surely(r, e, p.walks, topo)
      BY <3>1, Hop2Valid
    <3>4. Joined(o, r, p.walks, topo)
      BY <3>3 DEF Surely, Joined, Valid, Absent
    <3>5. r \in Entity \ {o, e} /\ e # o
      BY <3>2, <3>3, <3>4
    <3>. QED
      BY <1>2, <2>4, <2>5, <2>7, <3>3, <3>5 DEF ValidlyAway
  <2>. QED
    BY <1>2, <2>6, <2>7 DEF Check
<1>. QED
  BY <1>1, <1>2

(* A full match rests on what was read, fresh and unambiguous, on the anchor *)
(* or over valid edges only (detect/match.go evalSpanned and qualityOf).     *)
THEOREM FullMatchIsWitnessed == Spec => []FullIsWitnessed
<1>1. DetectInv => FullIsWitnessed
  <2> SUFFICES ASSUME DetectInv, NEW f \in findings, f.quality = "full",
                      NEW m \in Phenomenon[f.phenomenon].members, m.role = "required"
               PROVE  \E e \in DOMAIN sight.fps :
                         /\ Satisfied(m.check, sight.fps[e])
                         /\ IF m.check.on = "anchor" THEN e = f.entity
                            ELSE \E o \in {f.entity, TopoAnchor(f.entity, sight.topo)} :
                                     ValidlyAway(m.check, o, e, Phenomenon[f.phenomenon])
    BY DEF FullIsWitnessed
  <2>1. sight.topo \in Topology /\ DOMAIN sight.fps \subseteq Entity /\ findings = Findings(sight.fps, sight.topo)
    BY SightIs
  <2>2. PICK x \in Evaluated(sight.fps) :
            f = FindingOf(x[1], x[2], Looked(Phenomenon[x[1]], x[2], sight.fps, sight.topo), sight.topo)
    BY <2>1 DEF Findings
  <2> DEFINE p    == Phenomenon[x[1]]
             a    == x[2]
             look == Looked(p, a, sight.fps, sight.topo)
             to   == Targets(m.check, p, a, sight.topo)
  <2>3. f.phenomenon = x[1] /\ f.entity = a /\ IsFull(look)
    BY <2>2 DEF FindingOf
  <2>4. x[1] \in DOMAIN Phenomenon /\ a \in Entity
    BY <2>1 DEF Evaluated
  <2>5. m \in p.members /\ m.check \in Check
    <3>1. IsPhenomenon(p)
      BY <2>4, MatcherAssumption
    <3>. QED
      BY <2>3, <3>1 DEF IsPhenomenon, Member
  <2>6. /\ DOMAIN look = p.members
        /\ look[m].seen = {e \in DOMAIN to \cap DOMAIN sight.fps : Observable(m.check, sight.fps[e])}
        /\ HitsOf(look, m) = {e \in look[m].seen : Satisfied(m.check, sight.fps[e])}
        /\ \A e \in HitsOf(look, m) : look[m].hits[e] = to[e]
    BY <2>5, LookIs
  <2> HIDE DEF look
  <2>7. m \in Met(look) /\ m \notin OnSuspicion(look)
    BY <2>3, <2>5, <2>6 DEF IsFull, Required
  <2>8. PICK e \in HitsOf(look, m) : look[m].hits[e] = Valid
    BY <2>7 DEF OnSuspicion
  <2>9. e \in DOMAIN to /\ e \in DOMAIN sight.fps /\ Satisfied(m.check, sight.fps[e]) /\ to[e] = Valid
    BY <2>6, <2>8
  <2>10. IF m.check.on = "anchor" THEN e = a
         ELSE \E o \in {a, TopoAnchor(a, sight.topo)} : ValidlyAway(m.check, o, e, p)
    BY <2>1, <2>4, <2>5, <2>9, ReachIsValid
  <2>. QED
    BY <2>3, <2>9, <2>10
<1>. QED
  BY <1>1, DetectInvariant, PTL

(* Losing an edge, or trusting it less, never makes a match fuller or adds   *)
(* evidence; distrust alone makes nothing surface (detect/match.go).  That   *)
(* pods are never joined to pods matters here: if they were, an entity could *)
(* become a second-order neighbour by ceasing to be a first-order one.       *)
THEOREM LessCertaintyIsNeverMore == Spec => []LessIsNeverMore
<1>1. DetectInv => LessIsNeverMore
  <2> SUFFICES ASSUME DetectInv, NEW e \in Edge, NEW v \in Absent..(sight.topo.verdict[e] - 1),
                      NEW g \in Findings(sight.fps, Worse(e, v))
               PROVE  LET before == {f \in findings : KeyOf(f) = KeyOf(g)} IN
                      /\ g.quality = "full" => before # {}
                      /\ \A f \in before : g.evidence \subseteq f.evidence
                      /\ v = Suspect => \E f \in before : /\ f.evidence = g.evidence
                                                          /\ g.quality = "full" => f.quality = "full"
    BY DEF LessIsNeverMore
  <2> DEFINE topo == sight.topo
             less == Worse(e, v)
  <2>1. topo \in Topology /\ DOMAIN sight.fps \subseteq Entity /\ findings = Findings(sight.fps, topo)
    BY SightIs
  <2>2. topo.verdict[e] \in {0, 1, 2} /\ \A y \in Edge : topo.verdict[y] \in Absent..Valid
    BY <2>1 DEF Topology, Absent, Valid
  <2>3. v \in {0, 1} /\ v < topo.verdict[e] /\ v \in Absent..Valid /\ (v = Suspect => topo.verdict[e] = 2)
    BY <2>2 DEF Absent, Suspect, Valid
  <2>4. /\ less \in Topology /\ less.pods = topo.pods
        /\ \A y \in Edge : less.verdict[y] = IF y = e THEN v ELSE topo.verdict[y]
    <3>1. topo = [verdict |-> topo.verdict, pods |-> topo.pods] /\ topo.verdict \in [Edge -> Absent..Valid]
      BY <2>1 DEF Topology
    <3>2. [topo.verdict EXCEPT ![e] = v] \in [Edge -> Absent..Valid]
      BY <2>3, <3>1
    <3>3. less = [verdict |-> [topo.verdict EXCEPT ![e] = v], pods |-> topo.pods]
      BY <3>1 DEF Worse
    <3>4. \A y \in Edge : [topo.verdict EXCEPT ![e] = v][y] = IF y = e THEN v ELSE topo.verdict[y]
      BY <3>1
    <3>5. topo.pods \in SUBSET Entity
      BY <2>1 DEF Topology
    <3> HIDE DEF less, topo
    <3>. QED
      BY <3>2, <3>3, <3>4, <3>5 DEF Topology
  <2>5. NoBetter(less, topo)
    <3>1. \A y \in Edge : less.verdict[y] =< topo.verdict[y]
      <4> TAKE y \in Edge
      <4>1. topo.verdict[y] \in Int
        BY <2>2
      <4> HIDE DEF less, topo
      <4>. QED
        BY <2>2, <2>3, <2>4, <4>1
    <3>. QED
      BY <2>1, <2>4, <3>1 DEF NoBetter
  <2>6. v = Suspect => SameEdges(less, topo)
    <3> HIDE DEF less, topo
    <3>. QED
      BY <2>3, <2>4 DEF SameEdges, Suspect, Absent
  <2> HIDE DEF less, topo
  <2>7. PICK x \in Evaluated(sight.fps) :
            LET look == Looked(Phenomenon[x[1]], x[2], sight.fps, less)
            IN  Surfaces(look) /\ g = FindingOf(x[1], x[2], look, less)
    BY DEF Findings, less
  <2>8. x[1] \in DOMAIN Phenomenon /\ x[2] \in Entity
    BY <2>1 DEF Evaluated
  <2> DEFINE p  == Phenomenon[x[1]]
             l0 == Looked(p, x[2], sight.fps, less)
             l1 == Looked(p, x[2], sight.fps, topo)
             f1 == FindingOf(x[1], x[2], l1, topo)
  <2>9. Surfaces(l0) /\ g = FindingOf(x[1], x[2], l0, less)
    BY <2>7
  <2>10. /\ Surfaces(l0) /\ IsFull(l0) => Surfaces(l1)
         /\ Evidence(l0) \subseteq Evidence(l1)
         /\ SameEdges(less, topo) => Evidence(l0) = Evidence(l1) /\ (Surfaces(l0) => Surfaces(l1))
                                     /\ (IsFull(l0) => IsFull(l1))
    BY <2>5, <2>8, LessMatch
  <2>11. Surfaces(l1) => f1 \in findings
    BY <2>1 DEF Findings
  <2>12. ASSUME NEW f \in findings, KeyOf(f) = KeyOf(g) PROVE f = f1
    <3>1. PICK y \in Evaluated(sight.fps) :
              f = FindingOf(y[1], y[2], Looked(Phenomenon[y[1]], y[2], sight.fps, topo), topo)
      BY <2>1 DEF Findings
    <3>2. y[1] = x[1] /\ y[2] = x[2]
      BY <2>9, <2>12, <3>1 DEF KeyOf, FindingOf
    <3>. QED
      BY <3>1, <3>2
  <2> HIDE DEF l0, l1
  <2>13. /\ KeyOf(f1) = KeyOf(g) /\ f1.evidence = Evidence(l1) /\ g.evidence = Evidence(l0)
         /\ g.quality = "full" => IsFull(l0)
         /\ IsFull(l1) => f1.quality = "full"
    BY <2>9 DEF FindingOf, KeyOf
  <2> HIDE DEF f1
  <2>14. g.quality = "full" => f1 \in findings
    BY <2>9, <2>10, <2>11, <2>13
  <2>15. v = Suspect => /\ f1 \in findings /\ f1.evidence = g.evidence
                        /\ g.quality = "full" => f1.quality = "full"
    BY <2>6, <2>9, <2>10, <2>11, <2>13
  <2>16. \A f \in findings : KeyOf(f) = KeyOf(g) => g.evidence \subseteq f.evidence
    BY <2>10, <2>12, <2>13
  <2>. QED
    BY <2>13, <2>14, <2>15, <2>16
<1>. QED
  BY <1>1, DetectInvariant, PTL

=============================================================================
