-------------------------------- MODULE Detect --------------------------------
(* Detection tick by tick (cmd/obsd/binder.go over internal/detect): every   *)
(* tick matches the fingerprints against the topology snapshot, recognises   *)
(* cascades with the triggers of earlier ticks, and then lets the tracker    *)
(* remember its own.  A restart empties the tracker.                         *)
EXTENDS Matcher

CONSTANTS
    Sighting,    \* what a tick may see: [fps, topo]
    Window,      \* the cascade window
    MaxTime      \* bound on the clock

ASSUME DetectAssumption ==
    /\ \A s \in Sighting :
           /\ DOMAIN s.fps \subseteq Entity
           /\ \A e \in DOMAIN s.fps : s.fps[e] \subseteq Variable
           /\ s.topo \in Topology
    /\ Window \in Nat /\ MaxTime \in Nat

VARIABLES
    now,        \* the instant of the latest tick, 0 before the first
    sight,      \* what it saw
    findings,   \* what it found
    cascades,   \* the cascades it recognised
    recent,     \* the tracker: <<phenomenon, entity>> -> its latest instant
    surfaced    \* history: the same for all the ticks of this run

vars == <<now, sight, findings, cascades, recent, surfaced>>

Key == (DOMAIN Phenomenon) \X Entity
KeyOf(f) == <<f.phenomenon, f.entity>>
Nothing == [k \in {} |-> 0]
Blind == [fps |-> [e \in {} |-> {}],
          topo |-> [verdict |-> [e \in Edge |-> Absent], pods |-> {}]]

(* The matcher is a function of what the tick sees.                          *)
Match == {[sight |-> s, findings |-> Findings(s.fps, s.topo)] : s \in Sighting}

(* The latest instant of every key, a new set of findings taking precedence. *)
Noted(refs, fs, at) ==
    LET keys == {KeyOf(f) : f \in fs}
    IN  [k \in DOMAIN refs \cup keys |-> IF k \in keys THEN at ELSE refs[k]]

SlipOpenWindow(refs, at) == [k \in {x \in DOMAIN refs : at - refs[x] < Window} |-> refs[k]]

Within(refs, at) == [k \in {x \in DOMAIN refs : at - refs[x] =< Window} |-> refs[k]]

-----------------------------------------------------------------------------
Cascade == [trigger : Key, at : 1..MaxTime, downstream : Key]

(* A finding with a declared trigger that surfaced on a related entity, in   *)
(* this tick or within the window; nothing is its own trigger.               *)
Cascades(fs, refs, topo, at) ==
    LET triggers == Noted(Within(refs, at), fs, at)
    IN  {[trigger |-> x[1], at |-> triggers[x[1]], downstream |-> KeyOf(x[2])] :
            x \in {y \in (DOMAIN triggers) \X fs :
                      /\ y[2].phenomenon \in Downstream(y[1][1])
                      /\ y[1] # KeyOf(y[2])
                      /\ Related(y[1][2], y[2].entity, topo)}}

(* CascadeTracker.Observe: note the tick's findings, drop what is too old.   *)
Observe(fs, refs, at) == Within(Noted(refs, fs, at), at)

-----------------------------------------------------------------------------
Init ==
    /\ now = 0 /\ sight = Blind
    /\ findings = {} /\ cascades = {}
    /\ recent = Nothing /\ surfaced = Nothing

Tick ==
    \E m \in Match, at \in (now + 1)..MaxTime :
        /\ now' = at /\ sight' = m.sight /\ findings' = m.findings
        /\ cascades' = Cascades(m.findings, recent, m.sight.topo, at)
        /\ recent' = Observe(m.findings, recent, at)
        /\ surfaced' = Noted(surfaced, m.findings, at)

Restart ==
    /\ now > 0
    /\ sight' = Blind /\ findings' = {} /\ cascades' = {}
    /\ recent' = Nothing /\ surfaced' = Nothing
    /\ UNCHANGED now

Next == Tick \/ Restart

Spec == Init /\ [][Next]_vars

-----------------------------------------------------------------------------
(* Findings, cascades and the tracker's references are of their types, and   *)
(* the tracker holds nothing older than the window at its last tick.         *)
DetectTypeOK ==
    /\ now \in 0..MaxTime
    /\ sight \in Sighting \cup {Blind}
    /\ \A f \in findings : f \in Finding
    /\ \A c \in cascades : c \in Cascade
    /\ DOMAIN recent \subseteq Key
    /\ \A k \in DOMAIN recent : recent[k] \in 1..now /\ now - recent[k] =< Window

(* A full match is witnessed: each required member holds on a fresh,         *)
(* unambiguous variable, on the anchor itself or at the end of a path of     *)
(* valid edges of the phenomenon's types that has the length the check asks  *)
(* for, starting from the anchor or the pod that contains it.                *)
ValidStep(a, b, p) ==
    \E e \in Edge : e.type \in p.walks /\ {e.from, e.to} = {a, b} /\ sight.topo.verdict[e] = Valid

ValidlyAway(c, o, e, p) ==
    \/ c.on = "neighbour" /\ ValidStep(o, e, p)
    \/ c.on = "two-hop" /\ e # o /\ \E r \in Entity \ {o, e} : ValidStep(o, r, p) /\ ValidStep(r, e, p)

FullIsWitnessed ==
    \A f \in findings : f.quality = "full" =>
        LET p == Phenomenon[f.phenomenon] IN
        \A m \in {x \in p.members : x.role = "required"} : \E e \in DOMAIN sight.fps :
            /\ Satisfied(m.check, sight.fps[e])
            /\ IF m.check.on = "anchor" THEN e = f.entity
               ELSE \E o \in {f.entity, TopoAnchor(f.entity, sight.topo)} :
                        ValidlyAway(m.check, o, e, p)

(* Less certain topology never convinces more: make any one edge worse, and  *)
(* what still matches in full matched before, no finding gains evidence it   *)
(* did not have, and an edge turned suspect makes nothing surface.           *)
Worse(e, v) == [sight.topo EXCEPT !.verdict[e] = v]

LessIsNeverMore ==
    \A e \in Edge : \A v \in Absent..(sight.topo.verdict[e] - 1) :
        \A g \in Findings(sight.fps, Worse(e, v)) :
            LET before == {f \in findings : KeyOf(f) = KeyOf(g)} IN
            /\ g.quality = "full" => before # {}
            /\ \A f \in before : g.evidence \subseteq f.evidence
            /\ v = Suspect => \E f \in before : /\ f.evidence = g.evidence
                                                /\ g.quality = "full" => f.quality = "full"

(* The tracker's pruning shows in no story: the cascades of a tick are those *)
(* that the whole history of the run gives, one per downstream finding and   *)
(* related trigger key that surfaced no more than a window ago, with the     *)
(* latest instant.                                                           *)
CascadesTellTheHistory ==
    cascades =
        {c \in [trigger : DOMAIN surfaced, at : {surfaced[k] : k \in DOMAIN surfaced},
                downstream : {KeyOf(f) : f \in findings}] :
            /\ c.at = surfaced[c.trigger] /\ now - c.at =< Window
            /\ c.trigger # c.downstream
            /\ c.downstream[1] \in Downstream(c.trigger[1])
            /\ Related(c.trigger[2], c.downstream[2], sight.topo)}

(* A story was at risk before it was told: when a tick pairs a finding with  *)
(* a trigger of the tick before, over an unchanged topology, the finding's   *)
(* entity was in that trigger's blast radius, if it was selected for the     *)
(* phenomenon.                                                               *)
ToldInAdvance ==
    sight'.topo = sight.topo =>
        \A c \in cascades', f \in findings :
            (c.trigger = KeyOf(f) /\ c.at = now /\ c.downstream[1] \in Selected[c.downstream[2]])
            => c.downstream \in f.atRisk

StoryWasAtRisk == [][ToldInAdvance]_vars
=============================================================================
