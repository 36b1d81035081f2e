------------------------------ MODULE EdgeStore ------------------------------
(***************************************************************************)
(* The topology edge store of internal/identity/edges.go: every edge       *)
(* (pod runs on node, service selects pod, a node's lease...) is one       *)
(* timestamped assertion, confirmed again and again, retracted when its    *)
(* source goes, asserted anew when it comes back, and dropped a while      *)
(* after its retraction. Detection walks ask whether an edge's existence   *)
(* overlaps an evaluation window, and how fresh its confirmation was.      *)
(*                                                                         *)
(* An edge is its key (type, from, to). The stamps the callers pass are    *)
(* not the store's clock: they are read before the lock is taken, or come  *)
(* from a node's own lease, so they may lie behind or ahead of now.        *)
(***************************************************************************)
EXTENDS Integers, FiniteSets

(* Definitions named Slip... are slips a change of the code could make; no  *)
(* specification uses them. Each stands before the definition it spoils     *)
(* and shows that some property would notice.                               *)

CONSTANTS
    EdgeType,       \* runs-on, mounts, selects, node-lease
    CEI,            \* instance keys: the ends of edges
    Edge,           \* the edges that can be asserted
    Budget,         \* staleness budget of each edge type
    Horizon,        \* how long a retracted edge stays queryable
    Lag,            \* how far behind the clock a stamp may lie
    Lead,           \* how far ahead of the clock a stamp may lie
    MaxTime         \* bound on the clock, for model checking

ASSUME EdgeAssumption ==
    /\ Edge \subseteq [type : EdgeType, from : CEI, to : CEI]
    /\ Budget \in [EdgeType -> Nat]
    /\ Horizon \in Nat /\ Lag \in Nat /\ Lead \in Nat /\ MaxTime \in Nat

VARIABLES
    now,      \* the injected clock
    edges,    \* the assertion of each edge, NoAssertion when not resident
    byFrom,   \* the resident edges of each source
    byTo      \* the resident edges of each target

edgeVars == <<now, edges, byFrom, byTo>>

Instant == 1 .. MaxTime
Zero == 0                               \* time.Time{}: "live" in retracted

NoAssertion == [asserted |-> Zero, confirmed |-> Zero, retracted |-> Zero]
EdgeAssertion == [asserted : Nat, confirmed : Nat, retracted : Nat]

Known(a)     == a.asserted # Zero
Retracted(a) == Known(a) /\ a.retracted # Zero
Live(a)      == Known(a) /\ a.retracted = Zero

Stamp == {t \in Instant : now - Lag =< t /\ t =< now + Lead}

-----------------------------------------------------------------------------
(* Traversal: validity intersected with an evaluation window.              *)

Window == {w \in [start : Instant, end : Instant] : w.start =< w.end}

\* Existence is [asserted, retracted), the window is closed at both ends.
Overlaps(a, w) ==
    /\ a.asserted =< w.end
    /\ a.retracted # Zero => a.retracted > w.start

\* The store may be the live one or one rebuilt from a snapshot.
TraverseIn(store, e, w) ==
    LET a == store[e]
    IN  IF ~ Known(a) \/ ~ Overlaps(a, w) THEN "absent"
        ELSE IF Live(a) /\ w.end - a.confirmed > Budget[e.type] THEN "suspect"
        ELSE "valid"

Traverse(e, w) == TraverseIn(edges, e, w)

\* The status of an edge at an instant; NodeLiveness is that of a lease's edge.
Status(e, at) ==
    LET a == edges[e]
    IN  IF ~ Known(a) THEN "absent"
        ELSE IF Retracted(a) THEN "retracted"
        ELSE IF at - a.confirmed > Budget[e.type] THEN "suspect"
        ELSE "valid"

\* The walks along an edge type, out of a source and into a target.
NeighboursIn(store, index, typ, c, w) ==
    {<<e, TraverseIn(store, e, w)>> :
        e \in {x \in index[c] : x.type = typ /\ TraverseIn(store, x, w) # "absent"}}

-----------------------------------------------------------------------------
(* What assert and retract make of one assertion.                          *)

SlipRevives(a, at) ==
    IF ~ Known(a) \/ Retracted(a)
    THEN [asserted |-> at, confirmed |-> at, retracted |-> Zero]
    ELSE [a EXCEPT !.confirmed = IF at > @ THEN at ELSE @]

\* A retracted edge comes back only by a stamp later than its retraction, and
\* then begins a fresh interval; a live one is confirmed, never backwards.
Asserted(a, at) ==
    IF ~ Known(a) \/ (Retracted(a) /\ at > a.retracted)
    THEN [asserted |-> at, confirmed |-> at, retracted |-> Zero]
    ELSE IF Retracted(a) THEN a
    ELSE [a EXCEPT !.confirmed = IF at > @ THEN at ELSE @]

SlipUnclamped(a, at) == IF Live(a) THEN [a EXCEPT !.retracted = at] ELSE a

\* No validity of negative length: the retraction is moved to the assertion.
RetractedAs(a, at) ==
    IF Live(a) THEN [a EXCEPT !.retracted = IF at < a.asserted THEN a.asserted ELSE at]
    ELSE a

-----------------------------------------------------------------------------
(* The operations.                                                         *)

Assert(e, at) ==
    /\ edges' = [edges EXCEPT ![e] = Asserted(@, at)]
    /\ byFrom' = [byFrom EXCEPT ![e.from] = @ \cup {e}]
    /\ byTo' = [byTo EXCEPT ![e.to] = @ \cup {e}]
    /\ UNCHANGED now

Retract(e, at) ==
    /\ edges' = [edges EXCEPT ![e] = RetractedAs(@, at)]
    /\ UNCHANGED <<now, byFrom, byTo>>

\* The whole out-set of a source is known: assert it, retract the rest.
ReconcileOut(typ, c, want, at) ==
    LET mine   == {e \in Edge : e.type = typ /\ e.from = c}
        wanted == {e \in mine : e.to \in want}
    IN  /\ edges' = [e \in Edge |->
                        IF e \in wanted THEN Asserted(edges[e], at)
                        ELSE IF e \in mine \cap byFrom[c] THEN RetractedAs(edges[e], at)
                        ELSE edges[e]]
        /\ byFrom' = [byFrom EXCEPT ![c] = @ \cup wanted]
        /\ byTo' = [d \in CEI |-> byTo[d] \cup {e \in wanted : e.to = d}]
        /\ UNCHANGED now

RetractEach(E, at) ==
    /\ edges' = [e \in Edge |-> IF e \in E THEN RetractedAs(edges[e], at) ELSE edges[e]]
    /\ UNCHANGED <<now, byFrom, byTo>>

RetractAllFrom(c, at) == RetractEach(byFrom[c], at)
RetractAllTo(c, at)   == RetractEach(byTo[c], at)

SlipReclaimsByConfirmation ==
    {e \in Edge : Retracted(edges[e]) /\ now - edges[e].confirmed >= Horizon}

Reclaimable == {e \in Edge : Retracted(edges[e]) /\ now - edges[e].retracted >= Horizon}

Unindexed(E) ==
    /\ byFrom' = [c \in CEI |-> byFrom[c] \ E]
    /\ byTo' = [c \in CEI |-> byTo[c] \ E]

GC ==
    /\ edges' = [e \in Edge |-> IF e \in Reclaimable THEN NoAssertion ELSE edges[e]]
    /\ Unindexed(Reclaimable)
    /\ UNCHANGED now

Advance ==
    /\ now < MaxTime
    /\ now' = now + 1
    /\ UNCHANGED <<edges, byFrom, byTo>>

-----------------------------------------------------------------------------
(* The snapshot a replay bundle carries, and the store rebuilt from it.    *)

Snapshot == {<<e, edges[e]>> : e \in {x \in Edge : Known(edges[x])}}

Rebuilt(rows) ==
    [e \in Edge |-> IF \E r \in rows : r[1] = e
                    THEN (CHOOSE r \in rows : r[1] = e)[2] ELSE NoAssertion]

RebuiltFrom(rows) == [c \in CEI |-> {e \in Edge : e.from = c /\ \E r \in rows : r[1] = e}]

-----------------------------------------------------------------------------
Init ==
    /\ now = 1
    /\ edges = [e \in Edge |-> NoAssertion]
    /\ byFrom = [c \in CEI |-> {}]
    /\ byTo = [c \in CEI |-> {}]

Next ==
    \/ \E e \in Edge, at \in Stamp : Assert(e, at) \/ Retract(e, at)
    \/ \E e \in Edge, want \in SUBSET {x.to : x \in Edge}, at \in Stamp :
          ReconcileOut(e.type, e.from, want, at)
    \/ \E c \in CEI, at \in Stamp : RetractAllFrom(c, at) \/ RetractAllTo(c, at)
    \/ GC
    \/ Advance

Spec == Init /\ [][Next]_edgeVars

-----------------------------------------------------------------------------
(* Properties.                                                             *)

EdgeTypeOK ==
    /\ now \in Nat
    /\ edges \in [Edge -> EdgeAssertion]
    /\ byFrom \in [CEI -> SUBSET Edge] /\ byTo \in [CEI -> SUBSET Edge]

\* Both indexes hold exactly the resident edges: no walk or source retraction
\* misses an edge, and none reaches one that GC dropped.
IndexesAgree ==
    \A c \in CEI :
        /\ byFrom[c] = {e \in Edge : Known(edges[e]) /\ e.from = c}
        /\ byTo[c] = {e \in Edge : Known(edges[e]) /\ e.to = c}

\* Whatever the stamps, an interval never ends before it begins and is never
\* confirmed before it begins.
IntervalsSound ==
    \A e \in Edge :
        /\ Known(edges[e]) => edges[e].asserted =< edges[e].confirmed
        /\ Retracted(edges[e]) => edges[e].asserted =< edges[e].retracted

\* The store is sound whatever stamps it is given: typed, its two indexes exact and
\* no interval ended or confirmed before it began.
EdgeInv == EdgeTypeOK /\ IndexesAgree /\ IntervalsSound

\* A retraction is undone only by a stamp after it, never by a stale event
\* delivered late, and its interval is forgotten by no sweep within the horizon.
RetractionIsFinal ==
    [][\A e \in Edge : Retracted(edges[e]) =>
         \/ edges'[e] = edges[e]
         \/ Live(edges'[e]) /\ edges'[e].asserted > edges[e].retracted
         \/ ~ Known(edges'[e]) /\ now - edges[e].retracted >= Horizon]_edgeVars

\* While an edge stays live its confirmation never moves back and its interval
\* keeps its beginning: a late, older confirmation cannot make it look staler.
ConfirmationMonotone ==
    [][\A e \in Edge : Live(edges[e]) =>
         /\ Known(edges'[e]) /\ edges'[e].asserted = edges[e].asserted
         /\ edges'[e].confirmed >= edges[e].confirmed]_edgeVars

\* What was once true of an edge stays on record: neither a late retraction, nor a
\* late confirmation, nor a sweep falsifies a window that is asked for afterwards.
HistoryKept == RetractionIsFinal /\ ConfirmationMonotone

\* Every walk over the store rebuilt from a snapshot gives what it gives over the
\* live store (edges_snapshot.go: a replayed tick traverses exactly the topology
\* the live tick saw), for retracted and suspect edges too.
ReplayWalksAlike ==
    \A typ \in EdgeType, c \in CEI, w \in Window :
        NeighboursIn(Rebuilt(Snapshot), RebuiltFrom(Snapshot), typ, c, w)
            = NeighboursIn(edges, byFrom, typ, c, w)

=============================================================================
