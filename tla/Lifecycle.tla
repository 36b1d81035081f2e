------------------------------ MODULE Lifecycle ------------------------------
(***************************************************************************)
(* The identity lifecycle store of internal/identity: one record per       *)
(* observed Kubernetes object (a pod or a node incarnation), kept alive,   *)
(* then as a tombstone, then evicted; and the time-aware lookup            *)
(* "which UID was (kind, namespace, name) at instant t" that stamps every  *)
(* scraped sample with its identity.                                       *)
(*                                                                         *)
(* A UID stands for an instance CEI key (the key contains the name and the *)
(* UID, so the two determine each other), a Name for a nameKey.            *)
(* The module says what the store does under ANY sequence of calls; module *)
(* IdentityWatch restricts the calls to those of the informer handlers.    *)
(***************************************************************************)
EXTENDS Integers, FiniteSets

(* Definitions named Slip... are slips a change of the code could make; no  *)
(* specification uses them. Each stands before the definition it spoils     *)
(* and shows that some property would notice.                               *)

CONSTANTS
    UID,            \* instance CEI keys
    Name,           \* (kind, namespace, name) triples
    NameOf,         \* the name of each instance
    NoUID,          \* "no such instance"
    Role,           \* role CEIs
    NoRole,         \* the zero role CEI (Nodes have no role layer)
    FullRetention,  \* age below which a tombstone is complete
    StubRetention,  \* age from which a tombstone no longer resolves
    MaxEntries,     \* hard cap on the number of tombstones
    MaxTime         \* bound on the clock, for model checking

ASSUME LifecycleAssumption ==
    /\ NameOf \in [UID -> Name]
    /\ NoUID \notin UID
    /\ IsFiniteSet(UID)
    /\ FullRetention \in Nat /\ StubRetention \in Nat
    /\ MaxEntries \in Nat \ {0}     \* NewStore raises a cap below 1 to 1
    /\ MaxTime \in Nat

VARIABLES
    now,    \* the injected clock
    rec,    \* byCEI: the record of each instance, Absent when not resident
    after,  \* byName: <<v, u>> when v comes after u in their name's list
    dead    \* the heap of tombstones

lifecycleVars == <<now, rec, after, dead>>

Instant == 1 .. MaxTime
Zero == 0                           \* time.Time{}: "not dead yet"

Absent == [st |-> "absent", born |-> Zero, died |-> Zero,
           role |-> NoRole, pred |-> NoUID, succ |-> NoUID]

InstanceRecord ==
    [st : {"absent", "discovered", "active", "terminated"},
     born : Instant \cup {Zero}, died : Instant \cup {Zero},
     role : Role \cup {NoRole},
     pred : UID \cup {NoUID}, succ : UID \cup {NoUID}]

Resident(u) == rec[u].st # "absent"
Alive(u)    == Resident(u) /\ rec[u].died = Zero

\* The resident instances of a name: the elements of byName[n].
OfName(n) == {u \in UID : Resident(u) /\ NameOf[u] = n}

-----------------------------------------------------------------------------
(* Lookup.                                                                 *)

\* Half-open [born, died): the instant of death is not covered.
CoversInstant(u, t) == rec[u].born =< t /\ (rec[u].died = Zero \/ t < rec[u].died)

TierOf(u) ==
    IF Alive(u) THEN "alive"
    ELSE IF now - rec[u].died < FullRetention THEN "full"
    ELSE IF now - rec[u].died < StubRetention THEN "stub"
    ELSE "expired"

Covering(n, t) == {u \in OfName(n) : CoversInstant(u, t)}

SlipOldestFirst(n, t) ==
    {u \in Covering(n, t) : \A v \in Covering(n, t) : <<u, v>> \notin after}

\* The list is scanned from its newest end; the first covering record answers.
NewestCovering(n, t) ==
    {u \in Covering(n, t) : \A v \in Covering(n, t) : <<v, u>> \notin after}

\* An expired tombstone reads as absent even before GC reclaims it.
Lookup(n, t) ==
    IF Covering(n, t) = {} THEN NoUID
    ELSE LET u == CHOOSE w \in NewestCovering(n, t) : TRUE
         IN  IF TierOf(u) = "expired" THEN NoUID ELSE u

-----------------------------------------------------------------------------
(* Tombstones and eviction.                                                *)

\* No negative lifetimes: a death before the birth is moved to the birth.
DeathAt(u, t) == IF t < rec[u].born THEN rec[u].born ELSE t

\* What a run of heap pops may evict from the tombstones D, whose records are
\* in r: just enough to respect the cap, oldest deaths first (ties either way).
CapEvictions(D, r) ==
    {E \in SUBSET D :
        /\ Cardinality(D \ E) =< MaxEntries
        /\ E # {} => Cardinality(D \ E) = MaxEntries
        /\ \A e \in E, k \in D \ E : r[e].died =< r[k].died}

SlipHeapOnly(r, E) == r

Reclaim(r, E) == [u \in UID |-> IF u \in E THEN Absent ELSE r[u]]
Unlist(R, E)  == {p \in R : p[1] \notin E /\ p[2] \notin E}

-----------------------------------------------------------------------------
(* Operations of the store. Each runs under its mutex, hence is one step.  *)

Init ==
    /\ now = 1
    /\ rec = [u \in UID |-> Absent]
    /\ after = {}
    /\ dead = {}

\* Observe of a resident instance: a live record advances its state and takes
\* the role it is given; a dead one is never resurrected.
Refresh(u, role, state) ==
    /\ Resident(u)
    /\ rec' = IF Alive(u)
              THEN [rec EXCEPT ![u].st = IF state = "active" THEN state ELSE @,
                               ![u].role = IF role # NoRole THEN role ELSE @]
              ELSE rec
    /\ UNCHANGED <<now, after, dead>>

SlipNobodyClosed(u)  == {}
SlipDeadClosedToo(u) == OfName(NameOf[u])

\* Alive records of the newcomer's name. By OneAlive there is at most one, so
\* "the last one closed" of the code is "any one" here.
LiveNamesakes(u) == {p \in OfName(NameOf[u]) : Alive(p)}
Predecessor(u) ==
    IF LiveNamesakes(u) = {} THEN NoUID ELSE CHOOSE p \in LiveNamesakes(u) : TRUE

\* The records once u is admitted and the live namesakes are closed at its birth.
Succession(u, role, born, state) ==
    [v \in UID |->
        IF v = u
        THEN [st |-> state, born |-> born, died |-> Zero, role |-> role,
              pred |-> Predecessor(u), succ |-> NoUID]
        ELSE IF v \in LiveNamesakes(u)
        THEN [rec[v] EXCEPT !.st = "terminated", !.died = DeathAt(v, born),
                            !.succ = IF v = Predecessor(u) THEN u ELSE @]
        ELSE rec[v]]

\* insertByNameLocked: after every namesake born no later, before the others.
InsertByName(u, born) ==
    after \cup {<<u, v>> : v \in {w \in OfName(NameOf[u]) : rec[w].born =< born}}
          \cup {<<v, u>> : v \in {w \in OfName(NameOf[u]) : rec[w].born > born}}

\* Observe of an unknown instance: it is listed by birth among its namesakes,
\* and a live namesake is closed at the newcomer's birth and linked to it.
\* Closing it may push the tombstones over the cap.
Discover(u, role, born, state) ==
    LET succeeded == Succession(u, role, born, state)
        tombs     == dead \cup LiveNamesakes(u)
    IN  /\ ~ Resident(u)
        /\ \E E \in IF LiveNamesakes(u) = {} THEN {{}} ELSE CapEvictions(tombs, succeeded) :
              /\ rec'   = Reclaim(succeeded, E)
              /\ after' = Unlist(InsertByName(u, born), E)
              /\ dead'  = tombs \ E
        /\ UNCHANGED now

Observe(u, role, born, state) ==
    Refresh(u, role, state) \/ Discover(u, role, born, state)

\* The records once u is closed at instant t.
Closed(u, t) == [rec EXCEPT ![u].st = "terminated", ![u].died = DeathAt(u, t)]

\* Unknown and already dead instances are left alone (a stuttering step).
TerminateInstance(u, t) ==
    /\ Alive(u)
    /\ \E E \in CapEvictions(dead \cup {u}, Closed(u, t)) :
          /\ rec'   = Reclaim(Closed(u, t), E)
          /\ after' = Unlist(after, E)
          /\ dead'  = (dead \cup {u}) \ E
    /\ UNCHANGED now

\* The periodic sweep: every tombstone past the stub horizon goes.
Expired == {u \in dead : now - rec[u].died >= StubRetention}

GC ==
    /\ Expired # {}
    /\ rec'   = Reclaim(rec, Expired)
    /\ after' = Unlist(after, Expired)
    /\ dead'  = dead \ Expired
    /\ UNCHANGED now

Advance == now < MaxTime /\ now' = now + 1 /\ UNCHANGED <<rec, after, dead>>

Next ==
    \/ \E u \in UID, role \in Role \cup {NoRole}, t \in Instant,
          state \in {"discovered", "active"} : Observe(u, role, t, state)
    \/ \E u \in UID, t \in Instant : TerminateInstance(u, t)
    \/ GC
    \/ Advance

Spec == Init /\ [][Next]_lifecycleVars

-----------------------------------------------------------------------------
(* Properties.                                                             *)

TypeOK ==
    /\ now \in Nat
    /\ rec \in [UID -> InstanceRecord]
    /\ after \in SUBSET (UID \X UID)
    /\ dead \in SUBSET UID

\* At most one record of a name is alive: two would make the join of a current
\* sample ambiguous. Observe must therefore close every live namesake even when
\* closing it evicts other records of the same list (lifecycle.go, Observe).
OneAlive ==
    \A u, v \in UID : Alive(u) /\ Alive(v) /\ NameOf[u] = NameOf[v] => u = v

\* The tombstone heap and the record map never drift apart: the heap holds the
\* dead residents, no more and no fewer, so that Active = len(byCEI) - dead.Len()
\* is right and no dead record escapes both the cap and the sweep.
HeapIsTheDead == dead = {u \in UID : Resident(u) /\ ~ Alive(u)}

\* The list of a name is a strict order of its residents by birth: two distinct
\* namesakes are listed one way round, the younger after, and nothing else is
\* listed. Newest-first lookup is well defined only because of this.
ListIsByBirth ==
    /\ \A p \in after : /\ p[1] # p[2] /\ NameOf[p[1]] = NameOf[p[2]]
                        /\ Resident(p[1]) /\ Resident(p[2])
                        /\ rec[p[1]].born >= rec[p[2]].born
    /\ \A u, v \in UID : /\ Resident(u) /\ Resident(v)
                         /\ NameOf[u] = NameOf[v] /\ u # v
                         => (<<u, v>> \in after <=> <<v, u>> \notin after)
    /\ \A u, v, w \in UID :
          <<u, v>> \in after /\ <<v, w>> \in after => <<u, w>> \in after

\* The hard cap of doc 14 section 1.4 holds after every operation, GC or not.
CapRespected == Cardinality(dead) =< MaxEntries

\* A resident record is dead exactly when it says terminated, and no lifetime
\* is negative, whatever order and clock the deletion events came with.
LifetimesSound ==
    \A u \in UID : /\ Resident(u) => rec[u].born # Zero
                   /\ rec[u].st = "terminated" <=> Resident(u) /\ ~ Alive(u)
                   /\ rec[u].died # Zero => rec[u].born =< rec[u].died

\* Where recorded lifetimes of a name overlap (late and skewed deletion events
\* make them overlap), lookup's newest-first scan still has one answer, and it is
\* the youngest of the records that cover the instant.
YoungestAnswers ==
    \A n \in Name, t \in Instant :
        \A u \in NewestCovering(n, t), v \in Covering(n, t) :
            u = v \/ (<<u, v>> \in after /\ rec[u].born >= rec[v].born)

StoreInv ==
    /\ OneAlive
    /\ HeapIsTheDead
    /\ ListIsByBirth
    /\ CapRespected
    /\ LifetimesSound

\* The store is consistent after every call: typed, at most one live record of a
\* name, record map, name lists and tombstone heap in agreement, the cap kept and
\* no lifetime negative. (The proofs take the conjuncts one by one.)
StoreSound == TypeOK /\ StoreInv

\* A tombstone is final: while it stays resident no operation changes its death
\* or its birth, and it leaves only by eviction; a resync never resurrects it.
TombstoneFinal ==
    [][\A u \in UID : u \in dead =>
          \/ rec'[u] = Absent
          \/ rec'[u].st = "terminated" /\ rec'[u].died = rec[u].died
                                       /\ rec'[u].born = rec[u].born]_lifecycleVars
=============================================================================
