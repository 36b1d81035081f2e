----------------------------- MODULE Unexplained -----------------------------
(* The unexplained channel (internal/unexplained) and its timeline           *)
(* (internal/store/unexplained.go).  Every evaluation window routes the loud *)
(* metrics that no phenomenon match covers to cards, one per entity; the     *)
(* cards of the window are then written to a durable table, which may fail.  *)
(* A restart empties the tracker and keeps the table.                        *)
EXTENDS Integers, FiniteSets, FiniteSetsExt, Functions

CONSTANTS
    Scope,        \* the entities that have a fingerprint
    Metric,       \* the metrics with a bar or a rate guard
    KindOf,       \* the kind of each entity
    Match,        \* the possible findings: [phenomenon, covers], see MatchType
    Loudness,     \* what may be loud in a window: some functions Scope -> SUBSET Metric
    MaxWindows    \* bound on the windows evaluated

(* A finding's met members: the metrics it consumed, on its anchor or on a   *)
(* neighbour it reached.                                                     *)
MatchType == [phenomenon : Nat, covers : SUBSET (Scope \X Metric)]

ASSUME UnexplainedAssumption ==
    /\ Match \subseteq MatchType
    /\ Loudness \subseteq [Scope -> SUBSET Metric]
    /\ IsFiniteSet(Scope) /\ Scope \subseteq DOMAIN KindOf
    /\ MaxWindows \in Nat

VARIABLES
    now,      \* the stamp of the latest window
    open,     \* the open cards: <<scope, metrics>> -> card
    recur,    \* the recurrence map: <<kind, metrics>> -> windows and entities
    loud,     \* the loud metrics of the latest window
    matches,  \* its findings
    out,      \* the cards it touched, not yet written to the table
    phase,    \* "idle" or "routed"
    rows,     \* the table: <<scope, metrics>> -> row
    heardFrom \* history: for each kind, in how many windows since the tracker
              \* began its entities had something unexplained

vars == <<now, open, recur, loud, matches, out, phase, rows, heardFrom>>

Kind == {KindOf[s] : s \in Scope}
Key == Scope \X ((SUBSET Metric) \ {{}})
Time == 1..MaxWindows
Card == [first : Time, last : Time, occurs : Time]
Status == {"new", "aging", "superseded", "resolved"}
OpenStatus == {"new", "aging"}
Finding == [key : Key, first : Time, last : Time, occurs : Time, status : Status, by : SUBSET Nat]

NoCards == [k \in {} |-> 0]

-----------------------------------------------------------------------------
(* Coverage.                                                                 *)

Covered(ms) == UNION {m.covers : m \in ms}

Uncovered(heard, ms, s) == {x \in heard[s] : <<s, x>> \notin Covered(ms)}

(* The cards this window would have: one per scope with something uncovered. *)
Current(heard, ms) ==
    {<<s, Uncovered(heard, ms, s)>> : s \in {t \in Scope : Uncovered(heard, ms, t) # {}}}

(* Who covers a card: the smallest match that covers it alone, else every    *)
(* match that covers some of it, unless they leave a metric out.             *)
CoveringPhenomena(ms, k) ==
    LET needed == {k[1]} \X k[2]
        alone  == {m \in ms : needed \subseteq m.covers}
    IN  IF alone # {} THEN {Min({m.phenomenon : m \in alone})}
        ELSE IF needed \subseteq Covered(ms)
        THEN {m.phenomenon : m \in {c \in ms : c.covers \cap needed # {}}}
        ELSE {}

-----------------------------------------------------------------------------
(* Reconciling the open cards with those of the window.                      *)

(* A slip: a drifted set starts a new card.                                  *)
SlipNoDrift(current, k) == {k} \cap DOMAIN open

(* The open card a current one continues: the one with the same key or, when *)
(* the set has drifted, one of the scope it overlaps.  A scope has one open  *)
(* card (OneCardPerScope), so the order in which they are visited is moot.   *)
Origins(current, k) ==
    IF k \in DOMAIN open THEN {k}
    ELSE {o \in DOMAIN open \ current : o[1] = k[1] /\ o[2] \cap k[2] # {}}

CardOf(current, k, at) ==
    LET origins == Origins(current, k)
    IN  IF origins = {} THEN [first |-> at, last |-> at, occurs |-> 1]
        ELSE LET o == CHOOSE x \in origins : TRUE
             IN  [first |-> open[o].first, last |-> at, occurs |-> open[o].occurs + 1]

(* A slip: a card whose key is gone is reported but stays open.              *)
SlipKeepsGone(current, at) ==
    [k \in current \cup DOMAIN open |-> IF k \in current THEN CardOf(current, k, at) ELSE open[k]]

Reconciled(current, at) == [k \in current |-> CardOf(current, k, at)]

Closing(current) == DOMAIN open \ (current \cup UNION {Origins(current, k) : k \in current})

(* A slip: one metric still loud is taken for all of them.                   *)
SlipSomeLoud(heard, k) == k[2] \cap heard[k[1]] # {}

StillLoud(heard, k) == k[2] \subseteq heard[k[1]]

Active(current, at) ==
    {LET c == CardOf(current, k, at) IN
     [key |-> k, first |-> c.first, last |-> at, occurs |-> c.occurs, by |-> {},
      status |-> IF Origins(current, k) = {} THEN "new" ELSE "aging"] : k \in current}

Closed(current, heard, ms, at) ==
    {LET explained == StillLoud(heard, k) IN
     [key |-> k, first |-> open[k].first, last |-> at, occurs |-> open[k].occurs,
      by     |-> IF explained THEN CoveringPhenomena(ms, k) ELSE {},
      status |-> IF explained THEN "superseded" ELSE "resolved"] : k \in Closing(current)}

(* The long-run recurrence of a set of metrics on a kind of entity.          *)
Signature(k) == <<KindOf[k[1]], k[2]>>

NoRecurrence == [windows |-> 0, entities |-> {}]
StatOf(sig) == IF sig \in DOMAIN recur THEN recur[sig] ELSE NoRecurrence

(* A slip: a drifted card is counted under the set it had as well.           *)
SlipDriftCountedTwice(current) ==
    LET counted == current \cup UNION {Origins(current, k) : k \in current} IN
    [sig \in DOMAIN recur \cup {Signature(k) : k \in counted} |->
       LET seen == {k \in counted : Signature(k) = sig}
       IN  [windows  |-> StatOf(sig).windows + Cardinality(seen),
            entities |-> StatOf(sig).entities \cup {k[1] : k \in seen}]]

RecordRecurrence(current) ==
    [sig \in DOMAIN recur \cup {Signature(k) : k \in current} |->
       LET seen == {k \in current : Signature(k) = sig}
       IN  [windows  |-> StatOf(sig).windows + Cardinality(seen),
            entities |-> StatOf(sig).entities \cup {k[1] : k \in seen}]]

-----------------------------------------------------------------------------
(* The table.  A row's first stamp is the one it was inserted with.          *)

(* A slip: the stamp of the insertion is kept for the end as well.           *)
SlipFirstWins(f) ==
    [first |-> IF f.key \in DOMAIN rows THEN rows[f.key].first ELSE f.first,
     last  |-> IF f.key \in DOMAIN rows THEN rows[f.key].last ELSE f.last,
     occurs |-> f.occurs, status |-> f.status, by |-> f.by]

RowAfter(f) ==
    [first |-> IF f.key \in DOMAIN rows THEN rows[f.key].first ELSE f.first,
     last  |-> f.last, occurs |-> f.occurs, status |-> f.status, by |-> f.by]

-----------------------------------------------------------------------------
NoLoudness == [s \in Scope |-> {}]
Unheard    == [kind \in Kind |-> 0]

(* The entities of a kind that have something unexplained in a window.       *)
Unaccounted(kind, heard, ms) == {s \in Scope : KindOf[s] = kind /\ Uncovered(heard, ms, s) # {}}

Init ==
    /\ now = 0 /\ phase = "idle" /\ out = {}
    /\ open = NoCards /\ recur = NoCards /\ rows = NoCards
    /\ loud = NoLoudness /\ matches = {} /\ heardFrom = Unheard

(* One evaluation window.                                                    *)
Route ==
    /\ phase = "idle" /\ now < MaxWindows
    /\ \E heard \in Loudness, ms \in SUBSET Match :
         LET at      == now + 1
             current == Current(heard, ms)
         IN  /\ now' = at
             /\ open' = Reconciled(current, at)
             /\ out' = Active(current, at) \cup Closed(current, heard, ms, at)
             /\ recur' = RecordRecurrence(current)
             /\ loud' = heard /\ matches' = ms
             /\ heardFrom' = [kind \in Kind |->
                                 heardFrom[kind] + Cardinality(Unaccounted(kind, heard, ms))]
    /\ phase' = "routed"
    /\ UNCHANGED rows

(* The window is over: its inputs are gone.                                  *)
Forget == loud' = NoLoudness /\ matches' = {} /\ out' = {} /\ phase' = "idle"

(* One transaction writes all of the window's cards, or none.                *)
UpsertUnexplained ==
    /\ phase = "routed"
    /\ rows' = [k \in DOMAIN rows \cup {f.key : f \in out} |->
                  IF \E f \in out : f.key = k
                  THEN RowAfter(CHOOSE f \in out : f.key = k)
                  ELSE rows[k]]
    /\ Forget
    /\ UNCHANGED <<now, open, recur, heardFrom>>

UpsertFails ==
    /\ phase = "routed"
    /\ Forget
    /\ UNCHANGED <<now, open, recur, rows, heardFrom>>

Restart ==
    /\ open' = NoCards /\ recur' = NoCards /\ heardFrom' = Unheard
    /\ Forget
    /\ UNCHANGED <<now, rows>>

Next == Route \/ UpsertUnexplained \/ UpsertFails \/ Restart

Spec == Init /\ [][Next]_vars

-----------------------------------------------------------------------------
(* The types of the channel: keys are entities with a non-empty metric set,  *)
(* stamps are windows that happened.                                         *)
TypeOK ==
    /\ now \in 0..MaxWindows
    /\ DOMAIN open \subseteq Key /\ \A k \in DOMAIN open : open[k] \in Card
    /\ DOMAIN rows \subseteq Key
    /\ \A k \in DOMAIN rows :
         rows[k] \in [first : Time, last : Time, occurs : Time, status : Status, by : SUBSET Nat]
    /\ \A sig \in DOMAIN recur : recur[sig] \in [windows : Nat \ {0}, entities : SUBSET Scope]
    /\ heardFrom \in [Kind -> Nat]
    /\ out \subseteq Finding
    /\ phase \in {"idle", "routed"}

(* An entity never has two open cards, however its set drifts, and after a   *)
(* window the open cards are exactly the uncovered loudness: no card lingers *)
(* and none is missing, whatever was open before (doc 08, 3.3 and 3.4).      *)
OneCardPerScope ==
    /\ \A k1, k2 \in DOMAIN open : k1[1] = k2[1] => k1 = k2
    /\ phase = "routed" => DOMAIN open = Current(loud, matches)

(* A card is closed for the reason it states: superseded means every one of  *)
(* its metrics is still loud, covered, and the matches named cover it;       *)
(* resolved means one of them is quiet.  No card of the window is still open *)
(* and closed.                                                               *)
ClosedForItsReason ==
    \A f \in out :
      /\ f.status \in OpenStatus <=> f.key \in DOMAIN open
      /\ f.status = "superseded" =>
           /\ f.key[2] \subseteq loud[f.key[1]]
           /\ {f.key[1]} \X f.key[2] \subseteq
                UNION {m.covers : m \in {c \in matches : c.phenomenon \in f.by}}
      /\ f.status = "resolved" => f.by = {} /\ ~ f.key[2] \subseteq loud[f.key[1]]

Windows(sigs) == FoldSet(LAMBDA sig, sum : sum + recur[sig].windows, 0, sigs)

(* The signatures of an entity's kind that know the entity.                  *)
Kin(s) == {sig \in DOMAIN recur : sig[1] = KindOf[s] /\ s \in recur[sig].entities}

(* Since the tracker began, the recurrence counts each window in which an    *)
(* entity had something unexplained once and only once, however the sets of  *)
(* its card drift from one signature to another; and an open card's windows, *)
(* those before its set drifted included, are under signatures that know the *)
(* entity (candidate.go, recordRecurrence).                                  *)
EveryWindowCountedOnce ==
    /\ \A kind \in Kind : Windows({sig \in DOMAIN recur : sig[1] = kind}) = heardFrom[kind]
    /\ \A k \in DOMAIN open : Signature(k) \in Kin(k[1]) /\ open[k].occurs <= Windows(Kin(k[1]))

(* No row of an entity begins after the entity's open card, although rows    *)
(* outlive the tracker and are shared by the cards that had their key.       *)
RowsReachBack ==
    \A k \in DOMAIN rows :
      /\ rows[k].first <= rows[k].last /\ rows[k].last <= now
      /\ \A c \in DOMAIN open : c[1] = k[1] => rows[k].first <= open[c].first

(* Cards and rows stay in order: typed, one open card for each entity, and no *)
(* row that begins after it.                                                 *)
ChannelSound == TypeOK /\ OneCardPerScope /\ RowsReachBack

(* While an entity stays loud and uncovered on an overlapping set of metrics *)
(* its card is one story: it keeps its beginning, counts one more window and *)
(* is reported once, as aging.                                               *)
ContinuesAsOne ==
    phase' = "routed" =>
      \A o \in DOMAIN open, k \in DOMAIN open' :
        o[1] = k[1] /\ o[2] \cap k[2] # {} =>
          /\ open'[k].first = open[o].first /\ open'[k].occurs = open[o].occurs + 1
          /\ {f \in out' : f.key[1] = k[1]} =
               {[key |-> k, first |-> open[o].first, last |-> now', occurs |-> open'[k].occurs,
                 by |-> {}, status |-> "aging"]}

OneAgingCard == [][ContinuesAsOne]_vars

(* A transaction that commits leaves the timeline agreeing with the tracker  *)
(* on every card of the window, open or closed.                              *)
WindowRecorded ==
    rows' # rows =>
      /\ \A k \in DOMAIN open :
           /\ k \in DOMAIN rows' /\ rows'[k].last = now
           /\ rows'[k].occurs = open[k].occurs /\ rows'[k].status \in OpenStatus
      /\ \A k \in DOMAIN rows' :
           rows'[k].last = now => (rows'[k].status \in OpenStatus <=> k \in DOMAIN open)

TimelineRecordsTheWindow == [][WindowRecorded]_vars
=============================================================================
