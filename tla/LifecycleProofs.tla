--------------------------- MODULE LifecycleProofs ---------------------------
(***************************************************************************)
(* Proofs about the identity lifecycle store, for every set of instances   *)
(* and names, every pair of retention horizons and every tombstone cap,    *)
(* and about the watcher over it, for every sequence of incarnations of a  *)
(* name, every bound on its notifications and every number of restarts.    *)
(*                                                                         *)
(* StoreInv is inductive by itself: each of its parts needs only itself    *)
(* and the types, save OneAlive, which also needs that an unknown instance *)
(* enters alone because its live namesakes are closed in the same step.    *)
(*                                                                         *)
(* The watcher's properties are not inductive: that a settled name agrees  *)
(* with the cluster depends on all that was pending before. WatchInv says, *)
(* of each name, how the records, the notifications in line, the cache and *)
(* the cluster's own order relate while nothing is settled.                *)
(***************************************************************************)
EXTENDS IdentityWatch, FiniteSetTheorems, SequenceTheorems, WellFoundedInduction, TLAPS

\* A death is never moved before the birth, nor before the clock's first instant.
LEMMA DeathAtType ==
    ASSUME NEW u \in UID, NEW t \in Instant, TypeOK
    PROVE  /\ DeathAt(u, t) \in Instant
           /\ rec[u].born =< DeathAt(u, t)
<1>1. rec[u].born \in Instant \cup {Zero}
  BY DEF TypeOK, InstanceRecord
<1>2. MaxTime \in Nat
  BY LifecycleAssumption
<1> QED
  BY <1>1, <1>2 DEF DeathAt, Instant, Zero

\* What closing one live record does to it, and to the others: nothing.
LEMMA ClosedRecords ==
    ASSUME NEW u \in UID, NEW t \in Instant, TypeOK
    PROVE  /\ Closed(u, t) \in [UID -> InstanceRecord]
           /\ \A v \in UID : v # u => Closed(u, t)[v] = rec[v]
           /\ Closed(u, t)[u].st = "terminated"
           /\ Closed(u, t)[u].died = DeathAt(u, t)
           /\ Closed(u, t)[u].born = rec[u].born
<1>1. rec \in [UID -> InstanceRecord]
  BY DEF TypeOK
<1>2. DeathAt(u, t) \in Instant
  BY DeathAtType
<1>3. Closed(u, t) = [v \in UID |-> IF v = u THEN [rec[u] EXCEPT !.st = "terminated", !.died = DeathAt(u, t)]
                                     ELSE rec[v]]
  BY <1>1 DEF Closed
<1>4. [rec[u] EXCEPT !.st = "terminated", !.died = DeathAt(u, t)] \in InstanceRecord
  BY <1>1, <1>2 DEF InstanceRecord
<1>5. rec[u] \in InstanceRecord
  BY <1>1
<1>6. /\ [rec[u] EXCEPT !.st = "terminated", !.died = DeathAt(u, t)].st = "terminated"
      /\ [rec[u] EXCEPT !.st = "terminated", !.died = DeathAt(u, t)].died = DeathAt(u, t)
      /\ [rec[u] EXCEPT !.st = "terminated", !.died = DeathAt(u, t)].born = rec[u].born
  BY <1>5 DEF InstanceRecord
<1> QED
  BY <1>1, <1>3, <1>4, <1>6

\* What admitting a newcomer does: the newcomer is alive from its birth, its live
\* namesakes are dead from then (or from their own birth), nothing else moves.
LEMMA SuccessionRecords ==
    ASSUME NEW u \in UID, NEW role \in Role \cup {NoRole}, NEW t \in Instant,
           NEW state \in {"discovered", "active"}, TypeOK
    PROVE  /\ Succession(u, role, t, state) \in [UID -> InstanceRecord]
           /\ Succession(u, role, t, state)[u].st = state
           /\ Succession(u, role, t, state)[u].born = t
           /\ Succession(u, role, t, state)[u].died = Zero
           /\ \A v \in LiveNamesakes(u) \ {u} :
                 /\ Succession(u, role, t, state)[v].st = "terminated"
                 /\ Succession(u, role, t, state)[v].died = DeathAt(v, t)
                 /\ Succession(u, role, t, state)[v].born = rec[v].born
           /\ \A v \in UID \ (LiveNamesakes(u) \cup {u}) : Succession(u, role, t, state)[v] = rec[v]
<1> DEFINE newcomer == [st |-> state, born |-> t, died |-> Zero, role |-> role,
                        pred |-> Predecessor(u), succ |-> NoUID]
           closed(v) == [rec[v] EXCEPT !.st = "terminated", !.died = DeathAt(v, t),
                                       !.succ = IF v = Predecessor(u) THEN u ELSE @]
<1>1. LiveNamesakes(u) \subseteq UID
  BY DEF LiveNamesakes, OfName
<1>2. Predecessor(u) \in UID \cup {NoUID}
  BY <1>1 DEF Predecessor
<1>3. newcomer \in InstanceRecord
  BY <1>2 DEF InstanceRecord
<1>4. ASSUME NEW v \in UID
      PROVE  /\ closed(v) \in InstanceRecord
             /\ closed(v).st = "terminated"
             /\ closed(v).died = DeathAt(v, t)
             /\ closed(v).born = rec[v].born
  <2>1. DeathAt(v, t) \in Instant
    BY DeathAtType
  <2>2. rec[v] \in InstanceRecord
    BY DEF TypeOK
  <2> QED
    BY <2>1, <2>2 DEF InstanceRecord
<1>5. \A v \in UID : rec[v] \in InstanceRecord
  BY DEF TypeOK
<1>6. Succession(u, role, t, state) =
        [v \in UID |-> IF v = u THEN newcomer ELSE IF v \in LiveNamesakes(u) THEN closed(v) ELSE rec[v]]
  BY DEF Succession
<1>7. newcomer.st = state /\ newcomer.born = t /\ newcomer.died = Zero
  OBVIOUS
<1> HIDE DEF newcomer, closed
<1> QED
  BY <1>1, <1>3, <1>4, <1>5, <1>6, <1>7

-----------------------------------------------------------------------------
(* Types.                                                                  *)

\* Evicting keeps the types of the three structures.
LEMMA EvictionTypes ==
    ASSUME NEW r \in [UID -> InstanceRecord], NEW R \in SUBSET (UID \X UID),
           NEW D \in SUBSET UID, NEW E
    PROVE  /\ Reclaim(r, E) \in [UID -> InstanceRecord]
           /\ Unlist(R, E) \in SUBSET (UID \X UID)
           /\ D \ E \in SUBSET UID
<1>1. Absent \in InstanceRecord
  BY DEF Absent, InstanceRecord
<1> QED
  BY <1>1 DEF Reclaim, Unlist

LEMMA ListedPairs ==
    ASSUME NEW u \in UID, NEW t, TypeOK
    PROVE  InsertByName(u, t) \in SUBSET (UID \X UID)
BY DEF InsertByName, OfName, TypeOK

LEMMA TypeStep == TypeOK /\ [Next]_lifecycleVars => TypeOK'
<1> SUFFICES ASSUME TypeOK, [Next]_lifecycleVars PROVE TypeOK'
  OBVIOUS
<1>1. ASSUME NEW u \in UID, NEW role \in Role \cup {NoRole},
             NEW state \in {"discovered", "active"}, Refresh(u, role, state)
      PROVE  TypeOK'
  <2>1. rec[u] \in InstanceRecord
    BY DEF TypeOK
  <2>2. [rec EXCEPT ![u].st = IF state = "active" THEN state ELSE @,
                    ![u].role = IF role # NoRole THEN role ELSE @] \in [UID -> InstanceRecord]
    BY <2>1 DEF TypeOK, InstanceRecord
  <2> QED
    BY <1>1, <2>2 DEF Refresh, TypeOK
<1>2. ASSUME NEW u \in UID, NEW role \in Role \cup {NoRole}, NEW t \in Instant,
             NEW state \in {"discovered", "active"}, Discover(u, role, t, state)
      PROVE  TypeOK'
  <2>1. Succession(u, role, t, state) \in [UID -> InstanceRecord]
    BY SuccessionRecords
  <2>2. dead \cup LiveNamesakes(u) \in SUBSET UID
    BY DEF LiveNamesakes, OfName, TypeOK
  <2>3. PICK E : /\ rec' = Reclaim(Succession(u, role, t, state), E)
                 /\ after' = Unlist(InsertByName(u, t), E)
                 /\ dead' = (dead \cup LiveNamesakes(u)) \ E
                 /\ now' = now
    BY <1>2, Zenon DEF Discover
  <2>4. InsertByName(u, t) \in SUBSET (UID \X UID)
    BY ListedPairs
  <2> QED
    BY <2>1, <2>2, <2>3, <2>4, EvictionTypes DEF TypeOK
<1>3. ASSUME NEW u \in UID, NEW t \in Instant, TerminateInstance(u, t)
      PROVE  TypeOK'
  <2>1. Closed(u, t) \in [UID -> InstanceRecord]
    BY ClosedRecords
  <2> QED
    BY <1>3, <2>1, EvictionTypes DEF TerminateInstance, TypeOK
<1>4. CASE GC
  BY <1>4, EvictionTypes DEF GC, TypeOK
<1>5. CASE Advance
  BY <1>5 DEF Advance, TypeOK
<1>6. CASE UNCHANGED lifecycleVars
  BY <1>6 DEF lifecycleVars, TypeOK
<1> QED
  BY <1>1, <1>2, <1>3, <1>4, <1>5, <1>6 DEF Next, Observe

\* Every reachable state of the store is well typed: a lifetime is made of real
\* instants, and nothing but an eviction or an unknown key reads as Absent.
THEOREM TypeCorrect == Spec => []TypeOK
<1>1. Init => TypeOK
  BY DEF Init, TypeOK, Absent, InstanceRecord
<1> QED
  BY <1>1, TypeStep, PTL DEF Spec

-----------------------------------------------------------------------------
(* Consistency of the three structures.                                    *)

\* Each part of the invariant after a call that replaces the records by r,
\* evicts E from the tombstones D and lists R, seen from what the call changed.
LEMMA EvictionKeepsHeap ==
    ASSUME NEW r, NEW E, NEW D \in SUBSET UID,
           D = {v \in UID : r[v].st # "absent" /\ r[v].died # Zero},
           rec' = Reclaim(r, E), dead' = D \ E
    PROVE  HeapIsTheDead'
<1>1. ASSUME NEW v \in UID
      PROVE  v \in D \ E <=> rec'[v].st # "absent" /\ rec'[v].died # Zero
  BY <1>1 DEF Reclaim, Absent
<1> QED
  BY <1>1 DEF HeapIsTheDead, Alive, Resident

LEMMA EvictionKeepsLifetimes ==
    ASSUME NEW r, NEW E, rec' = Reclaim(r, E),
           \A v \in UID : /\ r[v].st # "absent" => r[v].born # Zero
                          /\ r[v].st = "terminated" <=> r[v].st # "absent" /\ r[v].died # Zero
                          /\ r[v].died # Zero => r[v].born =< r[v].died
    PROVE  LifetimesSound'
<1> SUFFICES ASSUME NEW v \in UID
             PROVE  /\ rec'[v].st # "absent" => rec'[v].born # Zero
                    /\ rec'[v].st = "terminated" <=> rec'[v].st # "absent" /\ rec'[v].died # Zero
                    /\ rec'[v].died # Zero => rec'[v].born =< rec'[v].died
  BY DEF LifetimesSound, Resident, Alive
<1>1. CASE v \in E
  BY <1>1 DEF Reclaim, Absent
<1>2. CASE v \notin E
  BY <1>2 DEF Reclaim, Absent
<1> QED
  BY <1>1, <1>2

LEMMA EvictionKeepsList ==
    ASSUME NEW r, NEW E, NEW R \in SUBSET (UID \X UID),
           rec' = Reclaim(r, E), after' = Unlist(R, E),
           \A p \in R : /\ p[1] # p[2] /\ NameOf[p[1]] = NameOf[p[2]]
                        /\ r[p[1]].st # "absent" /\ r[p[2]].st # "absent"
                        /\ r[p[1]].born >= r[p[2]].born,
           \A v, w \in UID : /\ r[v].st # "absent" /\ r[w].st # "absent"
                             /\ NameOf[v] = NameOf[w] /\ v # w
                             => (<<v, w>> \in R <=> <<w, v>> \notin R),
           \A v, w, x \in UID : <<v, w>> \in R /\ <<w, x>> \in R => <<v, x>> \in R
    PROVE  ListIsByBirth'
<1>1. \A v \in UID : v \notin E => rec'[v] = r[v]
  BY DEF Reclaim
<1>2. \A v \in UID : rec'[v].st # "absent" => v \notin E
  BY DEF Reclaim, Absent
<1>3. ASSUME NEW p \in after'
      PROVE  /\ p[1] # p[2] /\ NameOf[p[1]] = NameOf[p[2]]
             /\ rec'[p[1]].st # "absent" /\ rec'[p[2]].st # "absent"
             /\ rec'[p[1]].born >= rec'[p[2]].born
  <2>1. p \in R /\ p[1] \notin E /\ p[2] \notin E /\ p[1] \in UID /\ p[2] \in UID
    BY <1>3 DEF Unlist
  <2> QED
    BY <1>1, <2>1
<1>4. ASSUME NEW v \in UID, NEW w \in UID, rec'[v].st # "absent", rec'[w].st # "absent",
             NameOf[v] = NameOf[w], v # w
      PROVE  <<v, w>> \in after' <=> <<w, v>> \notin after'
  <2>1. v \notin E /\ w \notin E /\ r[v].st # "absent" /\ r[w].st # "absent"
    BY <1>1, <1>2, <1>4
  <2>2. /\ <<v, w>> \in after' <=> <<v, w>> \in R
        /\ <<w, v>> \in after' <=> <<w, v>> \in R
    BY <2>1 DEF Unlist
  <2> QED
    BY <1>4, <2>1, <2>2
<1>5. \A v, w, x \in UID : <<v, w>> \in after' /\ <<w, x>> \in after' => <<v, x>> \in after'
  BY DEF Unlist
<1> QED
  BY <1>3, <1>4, <1>5 DEF ListIsByBirth, Resident

\* Observe of an unknown key keeps the store consistent.
LEMMA DiscoverKeepsInv ==
    ASSUME TypeOK, StoreInv, NEW u \in UID, NEW role \in Role \cup {NoRole},
           NEW t \in Instant, NEW state \in {"discovered", "active"},
           Discover(u, role, t, state)
    PROVE  StoreInv'
<1> DEFINE r == Succession(u, role, t, state)
           R == InsertByName(u, t)
           D == dead \cup LiveNamesakes(u)
<1>1. PICK E : /\ rec' = Reclaim(r, E)
               /\ after' = Unlist(R, E)
               /\ dead' = D \ E
               /\ LiveNamesakes(u) = {} => E = {}
               /\ LiveNamesakes(u) # {} => Cardinality(D \ E) =< MaxEntries
  <2>1. CASE LiveNamesakes(u) = {}
    BY <2>1, Zenon DEF Discover
  <2>2. CASE LiveNamesakes(u) # {}
    <3>1. PICK E \in CapEvictions(D, r) :
             rec' = Reclaim(r, E) /\ after' = Unlist(R, E) /\ dead' = D \ E
      BY <2>2, Zenon DEF Discover
    <3>2. Cardinality(D \ E) =< MaxEntries
      BY <3>1 DEF CapEvictions
    <3> QED
      BY <2>2, <3>1, <3>2
  <2> QED
    BY <2>1, <2>2
<1>2. /\ r[u].st = state /\ r[u].born = t /\ r[u].died = Zero
      /\ \A v \in LiveNamesakes(u) \ {u} : /\ r[v].st = "terminated"
                                           /\ r[v].died = DeathAt(v, t)
                                           /\ r[v].born = rec[v].born
      /\ \A v \in UID \ (LiveNamesakes(u) \cup {u}) : r[v] = rec[v]
  BY SuccessionRecords
<1>3. /\ rec[u].st = "absent"
      /\ \A v \in LiveNamesakes(u) : /\ v \in UID /\ v # u /\ NameOf[v] = NameOf[u]
                                    /\ rec[v].st # "absent" /\ rec[v].died = Zero
      /\ \A v \in UID : /\ v # u /\ NameOf[v] = NameOf[u]
                         /\ rec[v].st # "absent" /\ rec[v].died = Zero => v \in LiveNamesakes(u)
  BY Zenon DEF Discover, LiveNamesakes, OfName, Alive, Resident
<1>4. /\ \A v \in UID : rec[v] \in InstanceRecord
      /\ after \in SUBSET (UID \X UID) /\ dead \in SUBSET UID /\ R \in SUBSET (UID \X UID)
  BY ListedPairs DEF TypeOK
<1>5. \A v \in LiveNamesakes(u) : DeathAt(v, t) \in Instant /\ rec[v].born =< DeathAt(v, t)
  BY <1>3, DeathAtType
<1>6. Zero \notin Instant /\ Instant \subseteq Nat /\ Zero \in Nat
  BY LifecycleAssumption DEF Instant, Zero
<1> HIDE DEF r, R, D
<1>7. OneAlive'
  <2> SUFFICES ASSUME NEW v \in UID, NEW w \in UID, rec'[v].st # "absent", rec'[v].died = Zero,
                      rec'[w].st # "absent", rec'[w].died = Zero, NameOf[v] = NameOf[w]
               PROVE  v = w
    BY DEF OneAlive, Alive, Resident
  <2>1. ASSUME NEW x \in UID, rec'[x].st # "absent", rec'[x].died = Zero
        PROVE  x = u \/ (x # u /\ rec[x].st # "absent" /\ rec[x].died = Zero /\ x \notin LiveNamesakes(u))
    <3>1. r[x].st # "absent" /\ r[x].died = Zero
      BY <1>1, <2>1 DEF Reclaim, Absent
    <3> QED
      BY <1>2, <1>5, <1>6, <3>1
  <2>2. CASE v = u
    BY <2>1, <2>2, <1>3
  <2>3. CASE w = u
    BY <2>1, <2>3, <1>3
  <2>4. CASE v # u /\ w # u
    BY <2>1, <2>4 DEF StoreInv, OneAlive, Alive, Resident
  <2> QED
    BY <2>2, <2>3, <2>4
<1>8. HeapIsTheDead'
  <2>1. D \in SUBSET UID
    BY <1>3, <1>4 DEF D
  <2>2. ASSUME NEW v \in UID
        PROVE  v \in D <=> r[v].st # "absent" /\ r[v].died # Zero
    <3>1. v \in dead <=> rec[v].st # "absent" /\ rec[v].died # Zero
      BY DEF StoreInv, HeapIsTheDead, Alive, Resident
    <3>2. CASE v = u
      BY <3>1, <3>2, <1>2, <1>3 DEF D
    <3>3. CASE v \in LiveNamesakes(u)
      BY <3>3, <1>2, <1>3, <1>5, <1>6 DEF D
    <3>4. CASE v # u /\ v \notin LiveNamesakes(u)
      BY <3>1, <3>4, <1>2 DEF D
    <3> QED
      BY <3>2, <3>3, <3>4
  <2>3. D = {v \in UID : r[v].st # "absent" /\ r[v].died # Zero}
    BY <2>1, <2>2
  <2> QED
    BY <1>1, <2>1, <2>3, EvictionKeepsHeap
<1>9. ListIsByBirth'
  <2>1. ASSUME NEW v \in UID
        PROVE  /\ v # u => r[v].born = rec[v].born
               /\ r[v].st # "absent" <=> v = u \/ rec[v].st # "absent"
    BY <1>2, <1>3
  <2>2. R = after \cup {<<u, v>> : v \in {w \in UID : /\ rec[w].st # "absent" /\ NameOf[w] = NameOf[u]
                                                    /\ rec[w].born =< t}}
                  \cup {<<v, u>> : v \in {w \in UID : /\ rec[w].st # "absent" /\ NameOf[w] = NameOf[u]
                                                    /\ rec[w].born > t}}
    BY DEF R, InsertByName, OfName, Resident
  <2>3. \A p \in after : /\ p[1] \in UID /\ p[2] \in UID
                         /\ p[1] # p[2] /\ NameOf[p[1]] = NameOf[p[2]]
                         /\ rec[p[1]].st # "absent" /\ rec[p[2]].st # "absent"
                         /\ rec[p[1]].born >= rec[p[2]].born
    BY <1>4 DEF StoreInv, ListIsByBirth, Resident
  <2>4. ASSUME NEW p \in R
        PROVE  /\ p[1] # p[2] /\ NameOf[p[1]] = NameOf[p[2]]
               /\ r[p[1]].st # "absent" /\ r[p[2]].st # "absent"
               /\ r[p[1]].born >= r[p[2]].born
    <3>1. CASE p \in after
      BY <3>1, <2>1, <2>3, <1>3
    <3>2. CASE p \notin after
      <4>1. PICK v \in UID : /\ rec[v].st # "absent" /\ NameOf[v] = NameOf[u]
                             /\ \/ p = <<u, v>> /\ rec[v].born =< t
                                \/ p = <<v, u>> /\ rec[v].born > t
        BY <2>2, <2>4, <3>2
      <4>2. rec[v].born \in Nat /\ t \in Nat
        BY <1>4, <1>6 DEF InstanceRecord
      <4> QED
        BY <4>1, <4>2, <2>1, <1>2, <1>3
    <3> QED
      BY <3>1, <3>2
  <2>5. ASSUME NEW v \in UID, NEW w \in UID, r[v].st # "absent", r[w].st # "absent",
               NameOf[v] = NameOf[w], v # w
        PROVE  <<v, w>> \in R <=> <<w, v>> \notin R
    <3>1. \A x \in UID : <<x, u>> \notin after /\ <<u, x>> \notin after
      BY <2>3, <1>3
    <3>2. ASSUME NEW x \in UID, rec[x].st # "absent", NameOf[x] = NameOf[u], x # u
          PROVE  <<u, x>> \in R <=> <<x, u>> \notin R
      <4>1. rec[x].born \in Nat /\ t \in Nat
        BY <1>4, <1>6 DEF InstanceRecord
      <4>2. <<u, x>> \in R <=> rec[x].born =< t
        BY <3>1, <3>2, <2>2
      <4>3. <<x, u>> \in R <=> rec[x].born > t
        BY <3>1, <3>2, <2>2
      <4> QED
        BY <4>1, <4>2, <4>3
    <3>3. CASE v = u
      BY <3>2, <3>3, <2>1, <2>5
    <3>4. CASE w = u
      BY <3>2, <3>4, <2>1, <2>5
    <3>5. CASE v # u /\ w # u
      <4>1. rec[v].st # "absent" /\ rec[w].st # "absent"
        BY <3>5, <2>1, <2>5
      <4>2. <<v, w>> \in after <=> <<w, v>> \notin after
        BY <4>1, <2>5 DEF StoreInv, ListIsByBirth, Resident
      <4>3. (<<v, w>> \in R <=> <<v, w>> \in after) /\ (<<w, v>> \in R <=> <<w, v>> \in after)
        BY <3>5, <2>2
      <4> QED
        BY <4>2, <4>3
    <3> QED
      BY <3>3, <3>4, <3>5
  <2>6. R \in SUBSET (UID \X UID)
    BY <1>4
  <2>7. ASSUME NEW v \in UID, NEW w \in UID, NEW x \in UID, <<v, w>> \in R, <<w, x>> \in R
        PROVE  <<v, x>> \in R
    <3>1. \A y \in UID : <<y, u>> \notin after /\ <<u, y>> \notin after
      BY <2>3, <1>3
    <3>2. \A y, z \in UID : /\ y # u /\ z # u => (<<y, z>> \in R <=> <<y, z>> \in after)
                            /\ <<u, y>> \in R <=> /\ rec[y].st # "absent" /\ NameOf[y] = NameOf[u]
                                                  /\ rec[y].born =< t
                            /\ <<y, u>> \in R <=> /\ rec[y].st # "absent" /\ NameOf[y] = NameOf[u]
                                                  /\ rec[y].born > t
      <4>1. \A y \in UID : rec[y].born \in Nat /\ t \in Nat
        BY <1>4, <1>6 DEF InstanceRecord
      <4> QED
        BY <2>2, <3>1, <1>3, <4>1
    <3>3. \A y \in UID : rec[y].born \in Nat /\ t \in Nat
      BY <1>4, <1>6 DEF InstanceRecord
    <3>4. CASE v # u /\ w # u /\ x # u
      BY <2>7, <3>2, <3>4 DEF StoreInv, ListIsByBirth
    <3>5. /\ <<v, w>> \in after => /\ NameOf[v] = NameOf[w] /\ rec[v].born >= rec[w].born
                                   /\ rec[v].st # "absent" /\ rec[w].st # "absent"
          /\ <<w, x>> \in after => /\ NameOf[w] = NameOf[x] /\ rec[w].born >= rec[x].born
                                   /\ rec[w].st # "absent" /\ rec[x].st # "absent"
          /\ <<x, v>> \in after => rec[x].born >= rec[v].born
      BY <2>3
    <3>6. CASE v = u
      <4>1. w # u /\ rec[w].st # "absent" /\ NameOf[w] = NameOf[u] /\ rec[w].born =< t
        BY <2>7, <3>2, <3>6, <1>3
      <4>2. x # u
        BY <2>7, <3>2, <3>3, <3>6, <4>1
      <4>3. <<w, x>> \in after
        BY <2>7, <3>2, <4>1, <4>2
      <4>4. rec[x].st # "absent" /\ NameOf[x] = NameOf[u] /\ rec[x].born =< t
        BY <3>3, <3>5, <4>1, <4>3
      <4> QED
        BY <3>2, <3>6, <4>2, <4>4
    <3>7. CASE x = u
      <4>1. w # u /\ rec[w].st # "absent" /\ NameOf[w] = NameOf[u] /\ rec[w].born > t
        BY <2>7, <3>2, <3>7, <1>3
      <4>2. v # u
        BY <2>7, <3>2, <3>3, <3>7, <4>1
      <4>3. <<v, w>> \in after
        BY <2>7, <3>2, <4>1, <4>2
      <4>4. rec[v].st # "absent" /\ NameOf[v] = NameOf[u] /\ rec[v].born > t
        BY <3>3, <3>5, <4>1, <4>3
      <4> QED
        BY <3>2, <3>7, <4>2, <4>4
    <3>8. CASE w = u
      <4>1. /\ rec[v].st # "absent" /\ NameOf[v] = NameOf[u] /\ rec[v].born > t
            /\ rec[x].st # "absent" /\ NameOf[x] = NameOf[u] /\ rec[x].born =< t
        BY <2>7, <3>2, <3>8
      <4>2. /\ v # u /\ x # u /\ v # x /\ rec[v].born > rec[x].born /\ NameOf[v] = NameOf[x]
            /\ rec[v].st # "absent" /\ rec[x].st # "absent"
        BY <3>3, <4>1, <1>3
      <4>3. <<x, v>> \notin after
        BY <3>3, <3>5, <4>2
      <4>4. <<v, x>> \in after
        BY <4>2, <4>3 DEF StoreInv, ListIsByBirth, Resident
      <4> QED
        BY <3>2, <4>2, <4>4
    <3> QED
      BY <3>4, <3>6, <3>7, <3>8
  <2>8. \A v, w \in UID : /\ r[v].st # "absent" /\ r[w].st # "absent"
                          /\ NameOf[v] = NameOf[w] /\ v # w
                          => (<<v, w>> \in R <=> <<w, v>> \notin R)
    BY <2>5
  <2> QED
    BY <1>1, <2>4, <2>6, <2>7, <2>8, EvictionKeepsList
<1>10. CapRespected'
  <2>1. CASE LiveNamesakes(u) = {}
    <3>1. dead' = dead
      BY <1>1, <2>1 DEF D
    <3> QED
      BY <3>1 DEF StoreInv, CapRespected
  <2>2. CASE LiveNamesakes(u) # {}
    BY <1>1, <2>2 DEF CapRespected
  <2> QED
    BY <2>1, <2>2
<1>11. LifetimesSound'
  <2>1. ASSUME NEW v \in UID
        PROVE  /\ r[v].st # "absent" => r[v].born # Zero
               /\ r[v].st = "terminated" <=> r[v].st # "absent" /\ r[v].died # Zero
               /\ r[v].died # Zero => r[v].born =< r[v].died
    <3>1. /\ rec[v].st # "absent" => rec[v].born # Zero
          /\ rec[v].st = "terminated" <=> rec[v].st # "absent" /\ rec[v].died # Zero
          /\ rec[v].died # Zero => rec[v].born =< rec[v].died
      BY DEF StoreInv, LifetimesSound, Alive, Resident
    <3>2. CASE v = u
      BY <3>2, <1>2, <1>6
    <3>3. CASE v \in LiveNamesakes(u)
      BY <3>1, <3>3, <1>2, <1>3, <1>5, <1>6
    <3>4. CASE v # u /\ v \notin LiveNamesakes(u)
      BY <3>1, <3>4, <1>2
    <3> QED
      BY <3>2, <3>3, <3>4
  <2> QED
    BY <1>1, <2>1, EvictionKeepsLifetimes
<1> QED
  BY <1>7, <1>8, <1>9, <1>10, <1>11 DEF StoreInv

\* So does the death of a live record,
LEMMA TerminateKeepsInv ==
    ASSUME TypeOK, StoreInv, NEW u \in UID, NEW t \in Instant, TerminateInstance(u, t)
    PROVE  StoreInv'
<1> DEFINE r == Closed(u, t)
           D == dead \cup {u}
<1>1. PICK E \in CapEvictions(D, r) :
         rec' = Reclaim(r, E) /\ after' = Unlist(after, E) /\ dead' = D \ E
  BY Zenon DEF TerminateInstance
<1>2. /\ r[u].st = "terminated" /\ r[u].died = DeathAt(u, t) /\ r[u].born = rec[u].born
      /\ \A v \in UID : v # u => r[v] = rec[v]
  BY ClosedRecords
<1>3. rec[u].st # "absent" /\ rec[u].died = Zero
  BY DEF TerminateInstance, Alive, Resident
<1>4. DeathAt(u, t) # Zero /\ rec[u].born =< DeathAt(u, t)
  BY DeathAtType DEF Instant, Zero
<1>5. after \in SUBSET (UID \X UID) /\ D \in SUBSET UID
  BY DEF TypeOK
<1>6. ASSUME NEW v \in UID
      PROVE  /\ r[v].st # "absent" <=> rec[v].st # "absent"
             /\ r[v].born = rec[v].born
             /\ r[v].st # "absent" /\ r[v].died = Zero => rec[v].died = Zero
  BY <1>2, <1>3, <1>4
<1> HIDE DEF r
<1>7. OneAlive'
  <2>1. ASSUME NEW x \in UID, rec'[x].st # "absent", rec'[x].died = Zero
        PROVE  rec[x].st # "absent" /\ rec[x].died = Zero
    <3>1. r[x].st # "absent" /\ r[x].died = Zero
      BY <1>1, <2>1 DEF Reclaim, Absent
    <3> QED
      BY <1>6, <3>1
  <2> QED
    BY <2>1 DEF StoreInv, OneAlive, Alive, Resident
<1>8. HeapIsTheDead'
  <2>1. ASSUME NEW v \in UID
        PROVE  v \in D <=> r[v].st # "absent" /\ r[v].died # Zero
    <3>1. v \in dead <=> rec[v].st # "absent" /\ rec[v].died # Zero
      BY DEF StoreInv, HeapIsTheDead, Alive, Resident
    <3> QED
      BY <3>1, <1>2, <1>4
  <2>2. D = {v \in UID : r[v].st # "absent" /\ r[v].died # Zero}
    BY <1>5, <2>1
  <2> QED
    BY <1>1, <1>5, <2>2, EvictionKeepsHeap
<1>9. ListIsByBirth'
  <2>1. \A p \in after : /\ p[1] # p[2] /\ NameOf[p[1]] = NameOf[p[2]]
                         /\ r[p[1]].st # "absent" /\ r[p[2]].st # "absent"
                         /\ r[p[1]].born >= r[p[2]].born
    BY <1>5, <1>6 DEF StoreInv, ListIsByBirth, Resident
  <2>2. \A v, w \in UID : /\ r[v].st # "absent" /\ r[w].st # "absent"
                          /\ NameOf[v] = NameOf[w] /\ v # w
                          => (<<v, w>> \in after <=> <<w, v>> \notin after)
    BY <1>6 DEF StoreInv, ListIsByBirth, Resident
  <2>3. \A v, w, x \in UID : <<v, w>> \in after /\ <<w, x>> \in after => <<v, x>> \in after
    BY DEF StoreInv, ListIsByBirth
  <2> QED
    BY <1>1, <1>5, <2>1, <2>2, <2>3, EvictionKeepsList
<1>10. CapRespected'
  BY <1>1 DEF CapRespected, CapEvictions
<1>11. LifetimesSound'
  <2>1. ASSUME NEW v \in UID
        PROVE  /\ r[v].st # "absent" => r[v].born # Zero
               /\ r[v].st = "terminated" <=> r[v].st # "absent" /\ r[v].died # Zero
               /\ r[v].died # Zero => r[v].born =< r[v].died
    <3>1. /\ rec[v].st # "absent" => rec[v].born # Zero
          /\ rec[v].st = "terminated" <=> rec[v].st # "absent" /\ rec[v].died # Zero
          /\ rec[v].died # Zero => rec[v].born =< rec[v].died
      BY DEF StoreInv, LifetimesSound, Alive, Resident
    <3> QED
      BY <3>1, <1>2, <1>3, <1>4
  <2> QED
    BY <1>1, <2>1, EvictionKeepsLifetimes
<1> QED
  BY <1>7, <1>8, <1>9, <1>10, <1>11 DEF StoreInv

\* the sweep of the expired tombstones,
LEMMA GCKeepsInv ==
    ASSUME TypeOK, StoreInv, GC
    PROVE  StoreInv'
<1>1. rec' = Reclaim(rec, Expired) /\ after' = Unlist(after, Expired) /\ dead' = dead \ Expired
  BY DEF GC
<1>2. after \in SUBSET (UID \X UID) /\ dead \in SUBSET UID
  BY DEF TypeOK
<1>3. OneAlive'
  <2>1. ASSUME NEW x \in UID, rec'[x].st # "absent", rec'[x].died = Zero
        PROVE  rec[x].st # "absent" /\ rec[x].died = Zero
    BY <1>1, <2>1 DEF Reclaim, Absent
  <2> QED
    BY <2>1 DEF StoreInv, OneAlive, Alive, Resident
<1>4. HeapIsTheDead'
  <2>1. dead = {v \in UID : rec[v].st # "absent" /\ rec[v].died # Zero}
    BY DEF StoreInv, HeapIsTheDead, Alive, Resident
  <2> QED
    BY <1>1, <1>2, <2>1, EvictionKeepsHeap
<1>5. ListIsByBirth'
  <2>1. \A p \in after : /\ p[1] # p[2] /\ NameOf[p[1]] = NameOf[p[2]]
                         /\ rec[p[1]].st # "absent" /\ rec[p[2]].st # "absent"
                         /\ rec[p[1]].born >= rec[p[2]].born
    BY DEF StoreInv, ListIsByBirth, Resident
  <2>2. \A v, w \in UID : /\ rec[v].st # "absent" /\ rec[w].st # "absent"
                          /\ NameOf[v] = NameOf[w] /\ v # w
                          => (<<v, w>> \in after <=> <<w, v>> \notin after)
    BY DEF StoreInv, ListIsByBirth, Resident
  <2>3. \A v, w, x \in UID : <<v, w>> \in after /\ <<w, x>> \in after => <<v, x>> \in after
    BY DEF StoreInv, ListIsByBirth
  <2> QED
    BY <1>1, <1>2, <2>1, <2>2, <2>3, EvictionKeepsList
<1>6. CapRespected'
  <2>1. IsFiniteSet(dead)
    BY <1>2, LifecycleAssumption, FS_Subset
  <2>2. /\ Cardinality(dead \ Expired) =< Cardinality(dead)
        /\ IsFiniteSet(dead \ Expired)
    BY <2>1, FS_Subset
  <2>3. Cardinality(dead) \in Nat /\ Cardinality(dead \ Expired) \in Nat
    BY <2>1, <2>2, FS_CardinalityType
  <2> QED
    BY <1>1, <2>2, <2>3, LifecycleAssumption DEF StoreInv, CapRespected
<1>7. LifetimesSound'
  <2>1. \A v \in UID : /\ rec[v].st # "absent" => rec[v].born # Zero
                       /\ rec[v].st = "terminated" <=> rec[v].st # "absent" /\ rec[v].died # Zero
                       /\ rec[v].died # Zero => rec[v].born =< rec[v].died
    BY DEF StoreInv, LifetimesSound, Alive, Resident
  <2> QED
    BY <1>1, <2>1, EvictionKeepsLifetimes
<1> QED
  BY <1>3, <1>4, <1>5, <1>6, <1>7 DEF StoreInv

\* and a resync, which may only change the state and the role of a live record.
LEMMA RefreshKeepsInv ==
    ASSUME TypeOK, StoreInv, NEW u \in UID, NEW role \in Role \cup {NoRole},
           NEW state \in {"discovered", "active"}, Refresh(u, role, state)
    PROVE  StoreInv'
<1>1. rec \in [UID -> InstanceRecord]
  BY DEF TypeOK
<1>2. \A v \in UID : /\ rec'[v].st # "absent" <=> rec[v].st # "absent"
                     /\ rec'[v].st = "terminated" <=> rec[v].st = "terminated"
                     /\ rec'[v].born = rec[v].born /\ rec'[v].died = rec[v].died
  <2>1. CASE Alive(u)
    <3>1. /\ rec[u].died = Zero /\ rec[u].st # "absent" /\ rec[u].st # "terminated"
      BY <2>1 DEF Alive, Resident, StoreInv, LifetimesSound
    <3>2. rec' = [rec EXCEPT ![u].st = IF state = "active" THEN state ELSE @,
                             ![u].role = IF role # NoRole THEN role ELSE @]
      BY <2>1 DEF Refresh
    <3>3. rec[u] \in InstanceRecord
      BY <1>1
    <3> QED
      BY <1>1, <3>1, <3>2, <3>3 DEF InstanceRecord
  <2>2. CASE ~ Alive(u)
    BY <2>2 DEF Refresh
  <2> QED
    BY <2>1, <2>2
<1>3. after' = after /\ dead' = dead
  BY DEF Refresh
<1>4. OneAlive'
  BY <1>2 DEF StoreInv, OneAlive, Alive, Resident
<1>5. HeapIsTheDead'
  BY <1>2, <1>3 DEF StoreInv, HeapIsTheDead, Alive, Resident
<1>6. ListIsByBirth'
  <2>1. \A p \in after : p[1] \in UID /\ p[2] \in UID
    BY DEF TypeOK
  <2> QED
    BY <1>2, <1>3, <2>1 DEF StoreInv, ListIsByBirth, Resident
<1>7. CapRespected'
  BY <1>3 DEF StoreInv, CapRespected
<1>8. LifetimesSound'
  BY <1>2 DEF StoreInv, LifetimesSound, Alive, Resident
<1> QED
  BY <1>4, <1>5, <1>6, <1>7, <1>8 DEF StoreInv

LEMMA StoreStep == TypeOK /\ StoreInv /\ [Next]_lifecycleVars => StoreInv'
<1> SUFFICES ASSUME TypeOK, StoreInv, [Next]_lifecycleVars PROVE StoreInv'
  OBVIOUS
<1>1. CASE UNCHANGED <<rec, after, dead>>
  BY <1>1 DEF StoreInv, OneAlive, HeapIsTheDead, ListIsByBirth, CapRespected,
              LifetimesSound, Alive, Resident
<1>2. CASE Advance
  BY <1>1, <1>2 DEF Advance
<1>3. CASE UNCHANGED lifecycleVars
  BY <1>1, <1>3 DEF lifecycleVars
<1> QED
  BY <1>2, <1>3, DiscoverKeepsInv, RefreshKeepsInv, TerminateKeepsInv, GCKeepsInv
     DEF Next, Observe

\* A store that holds nothing is consistent: a new process begins with one.
Empty == rec = [u \in UID |-> Absent] /\ after = {} /\ dead = {}

LEMMA EmptyIsSound == Empty => StoreInv
<1> SUFFICES ASSUME Empty PROVE StoreInv
  OBVIOUS
<1>1. \A u \in UID : ~ Resident(u) /\ rec[u].died = Zero /\ rec[u].st # "terminated"
  BY DEF Empty, Resident, Absent
<1>2. Cardinality(dead) =< MaxEntries
  <2>1. dead = {} /\ Cardinality({}) = 0
    BY FS_EmptySet DEF Empty
  <2> QED
    BY <2>1, LifecycleAssumption
<1>3. after = {} /\ dead = {}
  BY DEF Empty
<1> QED
  BY <1>1, <1>2, <1>3 DEF StoreInv, OneAlive, HeapIsTheDead, ListIsByBirth,
                          CapRespected, LifetimesSound, Alive

\* Whatever the order of creations, deaths, resyncs, sweeps and cap evictions,
\* the record map, the per-name lists and the tombstone heap agree, at most one
\* record of a name is alive, lifetimes are not negative and the cap holds.
THEOREM StoreConsistent == Spec => []StoreInv
<1>1. Init => StoreInv
  BY EmptyIsSound DEF Init, Empty
<1> QED
  BY <1>1, StoreStep, TypeCorrect, PTL DEF Spec

\* The whole of what a run checks of the store after every call, types included.
THEOREM StoreIsSound == Spec => []StoreSound
<1>1. TypeOK /\ StoreInv => StoreSound
  BY DEF StoreSound
<1> QED
  BY <1>1, TypeCorrect, StoreConsistent, PTL

\* The parts of the invariant a reader asks about, one by one: a name never has
\* two live records;
THEOREM SingleAlive == Spec => []OneAlive
<1>1. StoreInv => OneAlive
  BY DEF StoreInv
<1> QED
  BY <1>1, StoreConsistent, PTL

\* the heap holds exactly the dead residents;
THEOREM HeapExact == Spec => []HeapIsTheDead
<1>1. StoreInv => HeapIsTheDead
  BY DEF StoreInv
<1> QED
  BY <1>1, StoreConsistent, PTL

\* the list of a name is a strict order of its residents by birth;
THEOREM ListSorted == Spec => []ListIsByBirth
<1>1. StoreInv => ListIsByBirth
  BY DEF StoreInv
<1> QED
  BY <1>1, StoreConsistent, PTL

\* no operation leaves more tombstones than the cap;
THEOREM CapHolds == Spec => []CapRespected
<1>1. StoreInv => CapRespected
  BY DEF StoreInv
<1> QED
  BY <1>1, StoreConsistent, PTL

\* and no recorded lifetime is negative.
THEOREM NoNegativeLifetime == Spec => []LifetimesSound
<1>1. StoreInv => LifetimesSound
  BY DEF StoreInv
<1> QED
  BY <1>1, StoreConsistent, PTL

-----------------------------------------------------------------------------
(* The lookup and the tombstones.                                          *)

\* However the recorded lifetimes of a name overlap, a record that answers for
\* an instant is listed after, and born no earlier than, any other that covers it.
THEOREM AnswerIsYoungest == Spec => []YoungestAnswers
<1>1. ListIsByBirth => YoungestAnswers
  <2> SUFFICES ASSUME ListIsByBirth, NEW n \in Name, NEW t \in Instant,
                      NEW u \in NewestCovering(n, t), NEW v \in Covering(n, t), u # v
               PROVE  <<u, v>> \in after /\ rec[u].born >= rec[v].born
    BY DEF YoungestAnswers
  <2>1. /\ u \in UID /\ v \in UID /\ Resident(u) /\ Resident(v)
        /\ NameOf[u] = NameOf[v] /\ <<v, u>> \notin after
    BY DEF NewestCovering, Covering, OfName
  <2>2. <<u, v>> \in after
    BY <2>1 DEF ListIsByBirth
  <2> QED
    BY <2>1, <2>2 DEF ListIsByBirth
<1> QED
  BY <1>1, ListSorted, PTL

\* A tombstone is final in every behaviour: a late or repeated event, a resync or
\* a successor's birth never moves a recorded death; only eviction removes it.
THEOREM TombstonesAreFinal == Spec => TombstoneFinal
<1> DEFINE Final == \A u \in UID : u \in dead =>
                      \/ rec'[u] = Absent
                      \/ rec'[u].st = "terminated" /\ rec'[u].died = rec[u].died
                                                   /\ rec'[u].born = rec[u].born
<1>1. TypeOK /\ StoreInv /\ [Next]_lifecycleVars => [Final]_lifecycleVars
  <2> SUFFICES ASSUME TypeOK, StoreInv, Next, NEW d \in UID, d \in dead
               PROVE  \/ rec'[d] = Absent
                      \/ rec'[d].st = "terminated" /\ rec'[d].died = rec[d].died
                                                   /\ rec'[d].born = rec[d].born
    OBVIOUS
  <2>1. Resident(d) /\ ~ Alive(d) /\ rec[d].st = "terminated"
    BY DEF StoreInv, HeapIsTheDead, LifetimesSound
  <2>2. ASSUME NEW u \in UID, NEW role \in Role \cup {NoRole}, NEW state \in {"discovered", "active"},
               Refresh(u, role, state)
        PROVE  rec'[d] = rec[d]
    BY <2>1, <2>2 DEF Refresh, TypeOK
  <2>3. ASSUME NEW u \in UID, NEW role \in Role \cup {NoRole}, NEW t \in Instant,
               NEW state \in {"discovered", "active"}, Discover(u, role, t, state)
        PROVE  rec'[d] \in {Absent, rec[d]}
    <3>1. PICK E : rec' = Reclaim(Succession(u, role, t, state), E)
      BY <2>3, Zenon DEF Discover
    <3>2. d # u /\ d \notin LiveNamesakes(u)
      BY <2>1, <2>3 DEF Discover, LiveNamesakes
    <3>3. Succession(u, role, t, state)[d] = rec[d]
      BY <3>2, SuccessionRecords
    <3> QED
      BY <3>1, <3>3 DEF Reclaim
  <2>4. ASSUME NEW u \in UID, NEW t \in Instant, TerminateInstance(u, t)
        PROVE  rec'[d] \in {Absent, rec[d]}
    <3>1. PICK E : rec' = Reclaim(Closed(u, t), E)
      BY <2>4, Zenon DEF TerminateInstance
    <3>2. d # u
      BY <2>1, <2>4 DEF TerminateInstance
    <3>3. Closed(u, t)[d] = rec[d]
      BY <3>2, ClosedRecords
    <3> QED
      BY <3>1, <3>3 DEF Reclaim
  <2>5. CASE GC
    BY <2>1, <2>5 DEF GC, Reclaim
  <2>6. CASE Advance
    BY <2>1, <2>6 DEF Advance
  <2> QED
    BY <2>1, <2>2, <2>3, <2>4, <2>5, <2>6 DEF Next, Observe
<1> QED
  BY <1>1, TypeCorrect, StoreConsistent, PTL DEF Spec, TombstoneFinal

-----------------------------------------------------------------------------
(* The identity watcher.                                                   *)

\* An instance the cluster gives to its name, and as which one.
Given(u) == \E i \in 1 .. Len(Incarnations[NameOf[u]]) : UidOf(NameOf[u], i) = u
Pos(u)   == CHOOSE i \in 1 .. Len(Incarnations[NameOf[u]]) : UidOf(NameOf[u], i) = u

LEMMA Positions ==
    /\ \A n \in Name : Len(Incarnations[n]) \in Nat
    /\ \A n \in Name : \A i \in 1 .. Len(Incarnations[n]) :
          UidOf(n, i) \in UID /\ NameOf[UidOf(n, i)] = n /\ Given(UidOf(n, i)) /\ Pos(UidOf(n, i)) = i
    /\ \A u \in UID : Given(u) => Pos(u) \in 1 .. Len(Incarnations[NameOf[u]]) /\ UidOf(NameOf[u], Pos(u)) = u
    /\ \A u \in UID : NameOf[u] \in Name
<1>1. \A n \in Name : Incarnations[n] \in Seq(UID)
  BY WatchAssumption DEF WatchAssumption
<1>2. \A n \in Name : Len(Incarnations[n]) \in Nat
  BY <1>1
<1>3. \A n \in Name : \A i \in 1 .. Len(Incarnations[n]) : UidOf(n, i) \in UID /\ NameOf[UidOf(n, i)] = n
  BY <1>1, WatchAssumption DEF WatchAssumption, UidOf
<1>4. \A n \in Name : \A i, j \in 1 .. Len(Incarnations[n]) : UidOf(n, i) = UidOf(n, j) => i = j
  BY WatchAssumption DEF WatchAssumption, UidOf
<1>5. \A u \in UID : NameOf[u] \in Name
  BY LifecycleAssumption DEF LifecycleAssumption
<1>6. \A u \in UID : Given(u) => Pos(u) \in 1 .. Len(Incarnations[NameOf[u]]) /\ UidOf(NameOf[u], Pos(u)) = u
  BY DEF Given, Pos
<1>7. ASSUME NEW n \in Name, NEW i \in 1 .. Len(Incarnations[n])
      PROVE  Given(UidOf(n, i)) /\ Pos(UidOf(n, i)) = i
  <2>1. Given(UidOf(n, i))
    BY <1>3 DEF Given
  <2>2. Pos(UidOf(n, i)) \in 1 .. Len(Incarnations[n]) /\ UidOf(n, Pos(UidOf(n, i))) = UidOf(n, i)
    BY <1>3, <1>6, <2>1
  <2> QED
    BY <1>4, <2>1, <2>2
<1> QED
  BY <1>2, <1>3, <1>5, <1>6, <1>7

\* Two instances of a name at one position are the same.
LEMMA OnePosition ==
    ASSUME NEW u \in UID, NEW v \in UID, Given(u), Given(v), NameOf[u] = NameOf[v], Pos(u) = Pos(v)
    PROVE  u = v
BY Positions

-----------------------------------------------------------------------------
Time   == Instant \cup {Zero}
Stamps == [born : Time, gone : Time, deletion : Time]
Event  == [op : {"upsert", "delete"}, uid : {u \in UID : Given(u)}, deletion : Time]

WatchTypes ==
    /\ now \in Instant
    /\ made \in [Name -> Nat] /\ seen \in [Name -> Nat] /\ cache \in [Name -> Nat]
    /\ truth \in [UID -> Stamps]
    /\ pending \in [Name -> Seq(Event)]

\* What the cluster did: incarnations one after the other, none ahead of the clock.
TruthInv ==
    /\ \A n \in Name : made[n] =< Len(Incarnations[n])
    /\ \A u \in UID : /\ truth[u].born =< now /\ truth[u].gone =< now
                      /\ truth[u].born # Zero <=> Given(u) /\ Pos(u) =< made[NameOf[u]]
                      /\ truth[u].gone # Zero => truth[u].born # Zero /\ truth[u].born =< truth[u].gone
    /\ \A u, v \in UID : /\ Given(u) /\ Given(v) /\ NameOf[u] = NameOf[v]
                         /\ Pos(u) < Pos(v) /\ truth[v].born # Zero
                         => truth[u].gone # Zero /\ truth[u].gone =< truth[v].born

\* What the store recorded of it: no other births, listed in the order they happened.
RecordsInv ==
    /\ \A u \in UID : Resident(u) => Given(u) /\ truth[u].born # Zero /\ rec[u].born = truth[u].born
    /\ \A p \in after : Pos(p[2]) < Pos(p[1])

\* The residents of a name, the cached incarnation and the last one seen.
CacheInv(n) ==
    /\ seen[n] =< made[n] /\ cache[n] \in {0, seen[n]}
    /\ cache[n] = 0 /\ seen[n] # 0 => truth[UidOf(n, seen[n])].gone # Zero
    /\ \A u \in UID : NameOf[u] = n /\ Resident(u) =>
          Pos(u) =< seen[n] /\ (cache[n] # 0 /\ ~ Alive(u) => Pos(u) < cache[n])

\* Notifications are of incarnations in their order, a deletion between two of them.
InLine(n, k) ==
    LET e == pending[n][k]
    IN  /\ NameOf[e.uid] = n /\ Pos(e.uid) =< seen[n]
        /\ cache[n] # 0 /\ e.op = "delete" => Pos(e.uid) < cache[n]
        /\ \A l \in 1 .. (k - 1) :
              LET f == pending[n][l]
              IN  Pos(f.uid) =< Pos(e.uid) /\ (e.op = "upsert" /\ f.op = "delete" => Pos(f.uid) < Pos(e.uid))

QueueInv(n) == \A k \in 1 .. Len(pending[n]) : InLine(n, k)

\* The store is behind them: it knows none younger, and what it holds dead is older
\* than any that is announced.
BehindInv(n) ==
    \A k \in 1 .. Len(pending[n]) :
        LET e == pending[n][k]
        IN  \A u \in UID : NameOf[u] = n /\ Resident(u) =>
               Pos(u) =< Pos(e.uid) /\ (e.op = "upsert" /\ ~ Alive(u) => Pos(u) < Pos(e.uid))

\* A deletion finds its object alive, or nothing: it is announced before, or it is the
\* only one that lives.
Announced(n, k) ==
    \E l \in 1 .. (k - 1) : pending[n][l].op = "upsert" /\ pending[n][l].uid = pending[n][k].uid
OnlyOneLeft(n, k) ==
    /\ \A l \in 1 .. (k - 1) : pending[n][l].op = "delete"
    /\ \A u \in UID : NameOf[u] = n /\ Alive(u) => u = pending[n][k].uid

DeletesInv(n) ==
    \A k \in 1 .. Len(pending[n]) : pending[n][k].op = "delete" => Announced(n, k) \/ OnlyOneLeft(n, k)

\* The queue ends in what the cache says, and so does the store once it is empty.
TipInv(n) ==
    /\ pending[n] = << >> =>
          /\ \A u \in UID : NameOf[u] = n /\ Alive(u) => cache[n] # 0 /\ u = UidOf(n, cache[n])
          /\ cache[n] # 0 => Alive(UidOf(n, cache[n]))
    /\ pending[n] # << >> =>
          LET e == pending[n][Len(pending[n])]
          IN  IF cache[n] = 0 THEN e.op = "delete" ELSE e.op = "upsert" /\ e.uid = UidOf(n, cache[n])

NameInv(n) == CacheInv(n) /\ QueueInv(n) /\ BehindInv(n) /\ DeletesInv(n) /\ TipInv(n)

WatchInv ==
    /\ TypeOK /\ StoreInv /\ WatchTypes /\ TruthInv /\ RecordsInv
    /\ \A n \in Name : NameInv(n)

-----------------------------------------------------------------------------
\* What a call of the store does to the records, as far as the watcher can tell: it may
\* evict the dead, and it closes no one but the one it is about.
Fades(closed) ==
    /\ \A v \in UID : /\ Resident(v)' => Resident(v) /\ rec'[v].born = rec[v].born
                      /\ Alive(v)' <=> Alive(v) /\ v # closed
    /\ after' \subseteq after

\* A newcomer is the only one alive under its name.
Arrives(u, t) ==
    /\ ~ Resident(u) /\ Alive(u)' /\ rec'[u].born = t
    /\ \A v \in UID \ {u} : /\ Resident(v)' => Resident(v) /\ rec'[v].born = rec[v].born
                            /\ Alive(v)' <=> Alive(v) /\ NameOf[v] # NameOf[u]
    /\ after' \subseteq InsertByName(u, t)

LEMMA RefreshFades ==
    ASSUME TypeOK, NEW u \in UID, NEW role \in Role \cup {NoRole}, NEW state \in {"discovered", "active"},
           Refresh(u, role, state)
    PROVE  Fades(NoUID)
<1>1. rec \in [UID -> InstanceRecord]
  BY DEF TypeOK
<1>2. \A v \in UID : /\ rec'[v].st # "absent" <=> rec[v].st # "absent"
                     /\ rec'[v].born = rec[v].born /\ rec'[v].died = rec[v].died
  <2>1. CASE Alive(u)
    <3>1. /\ rec[u].died = Zero /\ rec[u].st # "absent" /\ rec[u] \in InstanceRecord
      BY <1>1, <2>1 DEF Alive, Resident
    <3>2. rec' = [rec EXCEPT ![u].st = IF state = "active" THEN state ELSE @,
                             ![u].role = IF role # NoRole THEN role ELSE @]
      BY <2>1 DEF Refresh
    <3> QED
      BY <1>1, <3>1, <3>2 DEF InstanceRecord
  <2>2. CASE ~ Alive(u)
    BY <2>2 DEF Refresh
  <2> QED
    BY <2>1, <2>2
<1>3. \A v \in UID : v # NoUID
  BY LifecycleAssumption DEF LifecycleAssumption
<1> QED
  BY <1>2, <1>3 DEF Fades, Alive, Resident, Refresh

LEMMA TerminateFades ==
    ASSUME TypeOK, StoreInv, NEW u \in UID, NEW t \in Instant, TerminateInstance(u, t)
    PROVE  Fades(u)
<1> DEFINE r == Closed(u, t)
<1>1. PICK E \in CapEvictions(dead \cup {u}, r) : rec' = Reclaim(r, E) /\ after' = Unlist(after, E)
  BY Zenon DEF TerminateInstance
<1>2. E \subseteq dead \cup {u}
  BY <1>1 DEF CapEvictions
<1>3. /\ r[u].st = "terminated" /\ r[u].died # Zero /\ r[u].born = rec[u].born
      /\ \A v \in UID : v # u => r[v] = rec[v]
  <2>1. /\ r[u].st = "terminated" /\ r[u].died = DeathAt(u, t) /\ r[u].born = rec[u].born
        /\ \A v \in UID : v # u => r[v] = rec[v]
    BY ClosedRecords
  <2>2. DeathAt(u, t) \in Instant
    BY DeathAtType
  <2>3. DeathAt(u, t) # Zero
    BY <2>2 DEF Instant, Zero
  <2> HIDE DEF r
  <2> QED
    BY <2>1, <2>3
<1>4. Alive(u) /\ \A v \in UID : v \in dead => ~ Alive(v)
  BY DEF TerminateInstance, StoreInv, HeapIsTheDead
<1> HIDE DEF r
<1>5. ASSUME NEW v \in UID
      PROVE  /\ Resident(v)' => Resident(v) /\ rec'[v].born = rec[v].born
             /\ Alive(v)' <=> Alive(v) /\ v # u
  <2>1. rec'[v] = IF v \in E THEN Absent ELSE r[v]
    BY <1>1 DEF Reclaim
  <2>2. CASE v \in E
    <3>1. ~ Resident(v)'
      BY <2>1, <2>2 DEF Resident, Absent
    <3> QED
      BY <1>2, <1>4, <2>2, <3>1 DEF Alive
  <2>3. CASE v \notin E /\ v = u
    BY <1>3, <1>4, <2>1, <2>3 DEF Resident, Alive
  <2>4. CASE v \notin E /\ v # u
    BY <1>3, <2>1, <2>4 DEF Resident, Alive
  <2> QED
    BY <2>2, <2>3, <2>4
<1>6. after' \subseteq after
  BY <1>1 DEF Unlist
<1> QED
  BY <1>5, <1>6 DEF Fades

LEMMA GCFades ==
    ASSUME TypeOK, StoreInv, GC
    PROVE  Fades(NoUID)
<1>1. rec' = Reclaim(rec, Expired) /\ after' = Unlist(after, Expired)
  BY DEF GC
<1>2. \A v \in UID : v \in Expired => ~ Alive(v)
  BY DEF Expired, StoreInv, HeapIsTheDead
<1>3. ASSUME NEW v \in UID
      PROVE  /\ Resident(v)' => Resident(v) /\ rec'[v].born = rec[v].born
             /\ Alive(v)' <=> Alive(v) /\ v # NoUID
  <2>1. rec'[v] = IF v \in Expired THEN Absent ELSE rec[v]
    BY <1>1 DEF Reclaim
  <2>2. v # NoUID
    BY LifecycleAssumption DEF LifecycleAssumption
  <2>3. CASE v \in Expired
    <3>1. ~ Resident(v)'
      BY <2>1, <2>3 DEF Resident, Absent
    <3> QED
      BY <1>2, <2>3, <3>1 DEF Alive
  <2>4. CASE v \notin Expired
    BY <2>1, <2>2, <2>4 DEF Resident, Alive
  <2> QED
    BY <2>3, <2>4
<1>4. after' \subseteq after
  BY <1>1 DEF Unlist
<1> QED
  BY <1>3, <1>4 DEF Fades

LEMMA DiscoverArrives ==
    ASSUME TypeOK, StoreInv, NEW u \in UID, NEW role \in Role \cup {NoRole}, NEW t \in Instant,
           NEW state \in {"discovered", "active"}, Discover(u, role, t, state)
    PROVE  Arrives(u, t)
<1> DEFINE r == Succession(u, role, t, state)
           D == dead \cup LiveNamesakes(u)
<1>1. PICK E \in SUBSET D : rec' = Reclaim(r, E) /\ after' = Unlist(InsertByName(u, t), E)
  <2>1. CASE LiveNamesakes(u) = {}
    BY <2>1, Zenon DEF Discover
  <2>2. CASE LiveNamesakes(u) # {}
    <3>1. PICK E \in CapEvictions(D, r) : rec' = Reclaim(r, E) /\ after' = Unlist(InsertByName(u, t), E)
      BY <2>2, Zenon DEF Discover
    <3>2. E \in SUBSET D
      BY <3>1 DEF CapEvictions
    <3> QED
      BY <3>1, <3>2
  <2> QED
    BY <2>1, <2>2
<1>2. /\ r[u].st = state /\ r[u].born = t /\ r[u].died = Zero
      /\ \A v \in LiveNamesakes(u) \ {u} : /\ r[v].died = DeathAt(v, t) /\ r[v].born = rec[v].born
      /\ \A v \in UID \ (LiveNamesakes(u) \cup {u}) : r[v] = rec[v]
  BY SuccessionRecords
<1>3. ~ Resident(u)
  BY DEF Discover
<1>4. \A v \in UID : /\ v \in dead => Resident(v) /\ ~ Alive(v)
                     /\ v \in LiveNamesakes(u) <=> Alive(v) /\ NameOf[v] = NameOf[u]
  BY DEF StoreInv, HeapIsTheDead, LiveNamesakes, OfName, Alive
<1>5. \A v \in LiveNamesakes(u) : DeathAt(v, t) # Zero
  BY DeathAtType DEF LiveNamesakes, OfName, Instant, Zero
<1> HIDE DEF r
<1>6. \A v \in UID : rec'[v] = IF v \in E THEN Absent ELSE r[v]
  BY <1>1 DEF Reclaim
<1>7. Alive(u)' /\ rec'[u].born = t
  <2>1. u \notin E
    BY <1>1, <1>3, <1>4 DEF Alive
  <2> QED
    BY <1>2, <1>6, <2>1 DEF Alive, Resident
<1>8. ASSUME NEW v \in UID \ {u}
      PROVE  /\ Resident(v)' => Resident(v) /\ rec'[v].born = rec[v].born
             /\ Alive(v)' <=> Alive(v) /\ NameOf[v] # NameOf[u]
  <2>1. CASE v \in E
    <3>1. ~ Resident(v)'
      BY <1>6, <2>1 DEF Resident, Absent
    <3> QED
      BY <1>1, <1>4, <2>1, <3>1 DEF Alive
  <2>2. CASE v \notin E /\ v \in LiveNamesakes(u)
    BY <1>2, <1>4, <1>5, <1>6, <2>2 DEF Resident, Alive
  <2>3. CASE v \notin E /\ v \notin LiveNamesakes(u)
    BY <1>2, <1>4, <1>6, <2>3 DEF Resident, Alive
  <2> QED
    BY <2>1, <2>2, <2>3
<1>9. after' \subseteq InsertByName(u, t)
  BY <1>1 DEF Unlist
<1> QED
  BY <1>3, <1>7, <1>8, <1>9 DEF Arrives

-----------------------------------------------------------------------------
\* What is known of a name.
LEMMA NameFacts ==
    ASSUME WatchInv, NEW n \in Name
    PROVE  /\ made[n] \in Nat /\ seen[n] \in Nat /\ cache[n] \in Nat
           /\ pending[n] \in Seq(Event) /\ Len(pending[n]) \in Nat
           /\ \A k \in 1 .. Len(pending[n]) :
                 /\ pending[n][k].uid \in UID /\ Given(pending[n][k].uid) /\ Pos(pending[n][k].uid) \in Nat
                 /\ pending[n][k].op \in {"upsert", "delete"} /\ pending[n][k].deletion \in Time
           /\ \A u \in UID : Resident(u) => Given(u) /\ Pos(u) \in Nat \ {0}
           /\ \A i \in 1 .. made[n] :
                 UidOf(n, i) \in UID /\ NameOf[UidOf(n, i)] = n /\ Given(UidOf(n, i)) /\ Pos(UidOf(n, i)) = i
<1>1. made[n] \in Nat /\ seen[n] \in Nat /\ cache[n] \in Nat /\ pending[n] \in Seq(Event)
  BY DEF WatchInv, WatchTypes
<1>2. Len(pending[n]) \in Nat /\ \A k \in 1 .. Len(pending[n]) : pending[n][k] \in Event
  BY <1>1
<1>3. \A u \in UID : Given(u) => Pos(u) \in Nat \ {0}
  <2> TAKE u \in UID
  <2>1. NameOf[u] \in Name
    BY Positions
  <2>2. Len(Incarnations[NameOf[u]]) \in Nat
    BY <2>1, Positions
  <2>3. Given(u) => Pos(u) \in 1 .. Len(Incarnations[NameOf[u]])
    BY Positions
  <2> QED
    BY <2>2, <2>3
<1>4. \A u \in UID : Resident(u) => Given(u)
  BY DEF WatchInv, RecordsInv
<1>5. made[n] =< Len(Incarnations[n]) /\ Len(Incarnations[n]) \in Nat
  BY Positions DEF WatchInv, TruthInv
<1>6. \A i \in 1 .. made[n] : i \in 1 .. Len(Incarnations[n])
  BY <1>1, <1>5
<1>7. \A i \in 1 .. made[n] :
         UidOf(n, i) \in UID /\ NameOf[UidOf(n, i)] = n /\ Given(UidOf(n, i)) /\ Pos(UidOf(n, i)) = i
  BY <1>6, Positions
<1>8. \A k \in 1 .. Len(pending[n]) :
         /\ pending[n][k].uid \in UID /\ Given(pending[n][k].uid)
         /\ pending[n][k].op \in {"upsert", "delete"} /\ pending[n][k].deletion \in Time
  BY <1>2 DEF Event
<1> QED
  BY <1>1, <1>2, <1>3, <1>4, <1>7, <1>8

\* A name no one is about keeps its part of the invariant: others may only evict its dead.
LEMMA NameUntouched ==
    ASSUME WatchInv, NEW n \in Name,
           \A u \in UID : NameOf[u] = n => (Resident(u)' => Resident(u)) /\ (Alive(u)' <=> Alive(u)),
           pending'[n] = pending[n], cache'[n] = cache[n], seen'[n] = seen[n],
           made'[n] \in Nat, made[n] =< made'[n],
           \A u \in UID : truth[u].gone # Zero => truth'[u].gone # Zero
    PROVE  NameInv(n)'
<1>1. NameInv(n)
  BY DEF WatchInv
<1>2. /\ made[n] \in Nat /\ seen[n] \in Nat /\ cache[n] \in Nat
      /\ \A i \in 1 .. made[n] : UidOf(n, i) \in UID /\ NameOf[UidOf(n, i)] = n
  BY NameFacts
<1>3. seen[n] =< made[n] /\ cache[n] \in {0, seen[n]}
  BY <1>1 DEF NameInv, CacheInv
<1>4. CacheInv(n)'
  <2>1. seen[n] # 0 => UidOf(n, seen[n]) \in UID
    BY <1>2, <1>3
  <2> QED
    BY <1>1, <1>2, <1>3, <2>1 DEF NameInv, CacheInv
<1>5. QueueInv(n)'
  BY <1>1 DEF NameInv, QueueInv, InLine
<1>6. BehindInv(n)'
  BY <1>1 DEF NameInv, BehindInv
<1>7. DeletesInv(n)'
  BY <1>1 DEF NameInv, DeletesInv, Announced, OnlyOneLeft
<1>8. TipInv(n)'
  <2>1. cache[n] # 0 => UidOf(n, cache[n]) \in UID /\ NameOf[UidOf(n, cache[n])] = n
    BY <1>2, <1>3
  <2> QED
    BY <1>1, <2>1 DEF NameInv, TipInv
<1> QED
  BY <1>4, <1>5, <1>6, <1>7, <1>8 DEF NameInv

LEMMA Appended ==
    ASSUME NEW S, NEW q \in Seq(S), NEW x \in S, NEW r, r = Append(q, x)
    PROVE  /\ r \in Seq(S) /\ r # << >> /\ Len(r) = Len(q) + 1 /\ r[Len(q) + 1] = x
           /\ \A k \in 1 .. Len(q) : r[k] = q[k]
BY AppendProperties

\* The informer announces an incarnation: a new one, or again the one it has cached.
LEMMA UpsertQueued ==
    ASSUME WatchInv, NEW n \in Name, NEW p \in 1 .. made[n], seen[n] < p \/ cache[n] = p,
           pending'[n] = Append(pending[n], Upsert(UidOf(n, p))), cache'[n] = p, seen'[n] = p,
           made'[n] = made[n], rec' = rec
    PROVE  NameInv(n)' /\ pending'[n] \in Seq(Event)
<1> DEFINE q == pending[n]
           u == UidOf(n, p)
<1>1. NameInv(n)
  BY DEF WatchInv
<1>2. /\ made[n] \in Nat /\ seen[n] \in Nat /\ cache[n] \in Nat /\ q \in Seq(Event) /\ Len(q) \in Nat
      /\ \A k \in 1 .. Len(q) : Pos(q[k].uid) \in Nat
      /\ \A v \in UID : Resident(v) => Pos(v) \in Nat
      /\ u \in UID /\ NameOf[u] = n /\ Given(u) /\ Pos(u) = p
  BY NameFacts
<1>3. Upsert(u) \in Event /\ Upsert(u).op = "upsert" /\ Upsert(u).uid = u
  BY <1>2 DEF Upsert, Event, Time
<1>4. /\ pending'[n] \in Seq(Event) /\ pending'[n] # << >> /\ Len(pending'[n]) = Len(q) + 1
      /\ pending'[n][Len(q) + 1] = Upsert(u)
      /\ \A k \in 1 .. Len(q) : pending'[n][k] = q[k]
  <2> HIDE DEF u, q
  <2>1. pending'[n] = Append(q, Upsert(u))
    BY DEF u, q
  <2> QED
    BY <1>2, <1>3, <2>1, Appended
<1>5. /\ seen[n] =< p /\ p # 0 /\ p \in Nat
      /\ cache[n] # 0 => cache[n] =< p
      /\ cache[n] = 0 => seen[n] < p
  BY <1>1, <1>2 DEF NameInv, CacheInv
<1>6. \A v \in UID : NameOf[v] = n /\ Resident(v) => Pos(v) =< p /\ (~ Alive(v) => Pos(v) < p)
  <2> TAKE v \in UID
  <2>1. NameOf[v] = n /\ Resident(v) => Pos(v) =< seen[n] /\ (cache[n] # 0 /\ ~ Alive(v) => Pos(v) < cache[n])
    BY <1>1 DEF NameInv, CacheInv
  <2> QED
    BY <1>2, <1>5, <2>1
<1>7. \A k \in 1 .. Len(q) : /\ NameOf[q[k].uid] = n /\ Pos(q[k].uid) =< p
                             /\ q[k].op = "delete" => Pos(q[k].uid) < p
  <2> TAKE k \in 1 .. Len(q)
  <2>1. /\ NameOf[q[k].uid] = n /\ Pos(q[k].uid) =< seen[n]
        /\ cache[n] # 0 /\ q[k].op = "delete" => Pos(q[k].uid) < cache[n]
    BY <1>1 DEF NameInv, QueueInv, InLine
  <2> QED
    BY <1>2, <1>5, <2>1
<1>8. \A v \in UID : (Resident(v)' <=> Resident(v)) /\ (Alive(v)' <=> Alive(v))
  BY DEF Resident, Alive
<1> HIDE DEF u
<1>9. CacheInv(n)'
  BY <1>2, <1>5, <1>6, <1>8 DEF CacheInv
<1>10. QueueInv(n)'
  <2> SUFFICES ASSUME NEW k \in 1 .. Len(pending'[n]) PROVE InLine(n, k)'
    BY DEF QueueInv
  <2>1. CASE k \in 1 .. Len(q)
    <3>1. pending'[n][k] = q[k] /\ \A l \in 1 .. (k - 1) : pending'[n][l] = q[l]
      BY <1>2, <1>4, <2>1
    <3>2. InLine(n, k)
      BY <1>1, <2>1 DEF NameInv, QueueInv
    <3> QED
      BY <1>7, <2>1, <3>1, <3>2 DEF InLine
  <2>2. CASE k = Len(q) + 1
    <3>1. \A l \in 1 .. (k - 1) : /\ pending'[n][l] = q[l] /\ Pos(q[l].uid) =< p
                                  /\ q[l].op = "delete" => Pos(q[l].uid) < p
      BY <1>2, <1>4, <1>7, <2>2
    <3>2. pending'[n][k].uid = u /\ pending'[n][k].op = "upsert"
      BY <1>3, <1>4, <2>2
    <3> QED
      BY <1>2, <1>5, <3>1, <3>2 DEF InLine
  <2>3. k \in 1 .. Len(q) \/ k = Len(q) + 1
    BY <1>2, <1>4
  <2> QED
    BY <2>1, <2>2, <2>3
<1>11. BehindInv(n)'
  <2> SUFFICES ASSUME NEW k \in 1 .. Len(pending'[n]), NEW v \in UID, NameOf[v] = n, Resident(v)
               PROVE  LET e == pending'[n][k]
                      IN  Pos(v) =< Pos(e.uid) /\ (e.op = "upsert" /\ ~ Alive(v) => Pos(v) < Pos(e.uid))
    BY <1>8 DEF BehindInv
  <2>1. CASE k \in 1 .. Len(q)
    BY <1>1, <1>4, <2>1 DEF NameInv, BehindInv
  <2>2. CASE k = Len(q) + 1
    BY <1>2, <1>3, <1>4, <1>6, <2>2
  <2> QED
    BY <1>2, <1>4, <2>1, <2>2
<1>12. DeletesInv(n)'
  <2> SUFFICES ASSUME NEW k \in 1 .. Len(pending'[n]), pending'[n][k].op = "delete"
               PROVE  Announced(n, k)' \/ OnlyOneLeft(n, k)'
    BY DEF DeletesInv
  <2>1. k \in 1 .. Len(q)
    BY <1>2, <1>3, <1>4
  <2>2. pending'[n][k] = q[k] /\ \A l \in 1 .. (k - 1) : pending'[n][l] = q[l]
    BY <1>2, <1>4, <2>1
  <2>3. Announced(n, k) \/ OnlyOneLeft(n, k)
    BY <1>1, <2>1, <2>2 DEF NameInv, DeletesInv
  <2> QED
    BY <1>8, <2>2, <2>3 DEF Announced, OnlyOneLeft
<1>13. TipInv(n)'
  BY <1>2, <1>3, <1>4, <1>5 DEF TipInv, u
<1> QED
  BY <1>4, <1>9, <1>10, <1>11, <1>12, <1>13 DEF NameInv

\* The informer announces the end of the incarnation it has cached, and holds none.
LEMMA DeleteQueued ==
    ASSUME WatchInv, NEW n \in Name, cache[n] # 0, NEW dts \in Time,
           pending'[n] = Append(pending[n], Delete(UidOf(n, cache[n]), dts)), cache'[n] = 0,
           seen'[n] \in Nat, seen[n] =< seen'[n], seen'[n] =< made[n], made'[n] = made[n],
           truth'[UidOf(n, seen'[n])].gone # Zero, rec' = rec
    PROVE  NameInv(n)' /\ pending'[n] \in Seq(Event)
<1> DEFINE q == pending[n]
           u == UidOf(n, cache[n])
<1>1. NameInv(n)
  BY DEF WatchInv
<1>2. /\ made[n] \in Nat /\ seen[n] \in Nat /\ cache[n] \in Nat /\ q \in Seq(Event) /\ Len(q) \in Nat
      /\ \A k \in 1 .. Len(q) : Pos(q[k].uid) \in Nat /\ q[k].op \in {"upsert", "delete"}
      /\ \A v \in UID : Resident(v) => Pos(v) \in Nat
  BY NameFacts
<1>3. cache[n] = seen[n] /\ seen[n] =< made[n]
  BY <1>1 DEF NameInv, CacheInv
<1>4. u \in UID /\ NameOf[u] = n /\ Given(u) /\ Pos(u) = seen[n]
  <2>1. cache[n] \in 1 .. made[n]
    BY <1>2, <1>3
  <2> QED
    BY <1>3, <2>1, NameFacts
<1>5. Delete(u, dts) \in Event /\ Delete(u, dts).op = "delete" /\ Delete(u, dts).uid = u
  BY <1>4 DEF Delete, Event
<1>6. /\ pending'[n] \in Seq(Event) /\ pending'[n] # << >> /\ Len(pending'[n]) = Len(q) + 1
      /\ pending'[n][Len(q) + 1] = Delete(u, dts)
      /\ \A k \in 1 .. Len(q) : pending'[n][k] = q[k]
  <2> HIDE DEF u, q
  <2>1. pending'[n] = Append(q, Delete(u, dts))
    BY DEF u, q
  <2> QED
    BY <1>2, <1>5, <2>1, Appended
<1>7. \A v \in UID : NameOf[v] = n /\ Resident(v) => Pos(v) =< seen[n]
  BY <1>1 DEF NameInv, CacheInv
<1>8. \A k \in 1 .. Len(q) : NameOf[q[k].uid] = n /\ Pos(q[k].uid) =< seen[n]
  BY <1>1 DEF NameInv, QueueInv, InLine
<1>9. \A v \in UID : (Resident(v)' <=> Resident(v)) /\ (Alive(v)' <=> Alive(v))
  BY DEF Resident, Alive
<1>10. CacheInv(n)'
  BY <1>2, <1>7, <1>9 DEF CacheInv
<1>11. \A k \in 1 .. Len(pending'[n]) : k \in 1 .. Len(q) \/ k = Len(q) + 1
  BY <1>2, <1>6
<1>12. QueueInv(n)'
  <2> SUFFICES ASSUME NEW k \in 1 .. Len(pending'[n]) PROVE InLine(n, k)'
    BY DEF QueueInv
  <2>1. CASE k \in 1 .. Len(q)
    <3>1. pending'[n][k] = q[k] /\ \A l \in 1 .. (k - 1) : pending'[n][l] = q[l]
      BY <1>2, <1>6, <2>1
    <3>2. InLine(n, k)
      BY <1>1, <2>1 DEF NameInv, QueueInv
    <3>3. NameOf[q[k].uid] = n /\ Pos(q[k].uid) =< seen'[n]
      BY <1>2, <1>8, <2>1
    <3>4. \A l \in 1 .. (k - 1) : /\ Pos(q[l].uid) =< Pos(q[k].uid)
                                  /\ q[k].op = "upsert" /\ q[l].op = "delete" => Pos(q[l].uid) < Pos(q[k].uid)
      BY <3>2 DEF InLine
    <3> QED
      BY <3>1, <3>3, <3>4 DEF InLine
  <2>2. CASE k = Len(q) + 1
    <3>1. \A l \in 1 .. (k - 1) : pending'[n][l] = q[l] /\ Pos(q[l].uid) =< seen[n]
      BY <1>2, <1>6, <1>8, <2>2
    <3>2. pending'[n][k].uid = u /\ pending'[n][k].op = "delete"
      BY <1>5, <1>6, <2>2
    <3> QED
      BY <1>4, <3>1, <3>2 DEF InLine
  <2> QED
    BY <1>11, <2>1, <2>2
<1>13. BehindInv(n)'
  <2> SUFFICES ASSUME NEW k \in 1 .. Len(pending'[n]), NEW v \in UID, NameOf[v] = n, Resident(v)
               PROVE  LET e == pending'[n][k]
                      IN  Pos(v) =< Pos(e.uid) /\ (e.op = "upsert" /\ ~ Alive(v) => Pos(v) < Pos(e.uid))
    BY <1>9 DEF BehindInv
  <2>1. CASE k \in 1 .. Len(q)
    BY <1>1, <1>6, <2>1 DEF NameInv, BehindInv
  <2>2. CASE k = Len(q) + 1
    BY <1>4, <1>5, <1>6, <1>7, <2>2
  <2> QED
    BY <1>11, <2>1, <2>2
<1>14. DeletesInv(n)'
  <2> SUFFICES ASSUME NEW k \in 1 .. Len(pending'[n]), pending'[n][k].op = "delete"
               PROVE  Announced(n, k)' \/ OnlyOneLeft(n, k)'
    BY DEF DeletesInv
  <2>1. CASE k \in 1 .. Len(q)
    <3>1. pending'[n][k] = q[k] /\ \A l \in 1 .. (k - 1) : pending'[n][l] = q[l]
      BY <1>2, <1>6, <2>1
    <3>2. Announced(n, k) \/ OnlyOneLeft(n, k)
      BY <1>1, <2>1, <3>1 DEF NameInv, DeletesInv
    <3> QED
      BY <1>9, <3>1, <3>2 DEF Announced, OnlyOneLeft
  <2>2. CASE k = Len(q) + 1 /\ Len(q) # 0
    <3>1. q[Len(q)].op = "upsert" /\ q[Len(q)].uid = u
      BY <1>1, <2>2 DEF NameInv, TipInv
    <3>2. Len(q) \in 1 .. (k - 1) /\ pending'[n][Len(q)] = q[Len(q)] /\ pending'[n][k].uid = u
      BY <1>2, <1>5, <1>6, <2>2
    <3> QED
      BY <3>1, <3>2 DEF Announced
  <2>3. CASE k = Len(q) + 1 /\ Len(q) = 0
    <3>1. \A v \in UID : NameOf[v] = n /\ Alive(v) => v = u
      BY <1>1, <1>2, <2>3 DEF NameInv, TipInv
    <3>2. pending'[n][k].uid = u /\ 1 .. (k - 1) = {}
      BY <1>5, <1>6, <2>3
    <3> QED
      BY <1>9, <3>1, <3>2 DEF OnlyOneLeft
  <2> QED
    BY <1>11, <2>1, <2>2, <2>3
<1>15. TipInv(n)'
  BY <1>2, <1>5, <1>6 DEF TipInv
<1> QED
  BY <1>6, <1>10, <1>12, <1>13, <1>14, <1>15 DEF NameInv

-----------------------------------------------------------------------------
\* The handler takes the first notification.
IsTail(S, q, r) ==
    /\ r \in Seq(S) /\ Len(r) = Len(q) - 1 /\ Len(q) \in Nat \ {0}
    /\ \A k \in 1 .. Len(r) : k + 1 \in 1 .. Len(q) /\ r[k] = q[k + 1]
    /\ r = << >> <=> Len(q) = 1

LEMMA Taken ==
    ASSUME NEW S, NEW q \in Seq(S), q # << >>
    PROVE  IsTail(S, q, Tail(q))
<1> DEFINE r == Tail(q)
<1>1. r = Tail(q)
  OBVIOUS
<1> HIDE DEF r
<1>2. /\ r \in Seq(S) /\ Len(r) = Len(q) - 1 /\ Len(q) \in Nat \ {0} /\ Head(q) = q[1]
      /\ \A k \in 1 .. Len(r) : k + 1 \in 1 .. Len(q) /\ r[k] = q[k + 1]
      /\ r = << >> <=> Len(q) = 1
  BY <1>1, HeadTailProperties, EmptySeq
<1> QED
  BY <1>1, <1>2 DEF IsTail

LEMMA TailLeft ==
    ASSUME WatchInv, NEW n \in Name, pending[n] # << >>, pending'[n] = Tail(pending[n])
    PROVE  IsTail(Event, pending[n], pending'[n])
<1>1. pending[n] \in Seq(Event)
  BY NameFacts
<1> QED
  BY <1>1, Taken, Zenon

\* What is left in line is in line.
LEMMA TailInLine ==
    ASSUME WatchInv, NEW n \in Name, pending[n] # << >>, pending'[n] = Tail(pending[n]),
           cache'[n] = cache[n], seen'[n] = seen[n]
    PROVE  QueueInv(n)' /\ pending'[n] \in Seq(Event)
<1>1. QueueInv(n)
  BY DEF WatchInv, NameInv
<1>2. /\ pending'[n] \in Seq(Event) /\ Len(pending'[n]) = Len(pending[n]) - 1 /\ Len(pending[n]) \in Nat
      /\ \A k \in 1 .. Len(pending'[n]) : k + 1 \in 1 .. Len(pending[n]) /\ pending'[n][k] = pending[n][k + 1]
  BY TailLeft DEF IsTail
<1>3. ASSUME NEW k \in 1 .. Len(pending'[n]) PROVE InLine(n, k)'
  <2>1. InLine(n, k + 1) /\ pending'[n][k] = pending[n][k + 1]
    BY <1>1, <1>2 DEF QueueInv
  <2>2. \A l \in 1 .. (k - 1) : pending'[n][l] = pending[n][l + 1] /\ l + 1 \in 1 .. ((k + 1) - 1)
    BY <1>2
  <2> QED
    BY <2>1, <2>2 DEF InLine
<1> QED
  BY <1>2, <1>3 DEF QueueInv

\* What a notification announced is alive in the end, and alone.
LEMMA UpsertHandled ==
    ASSUME WatchInv, NEW n \in Name, pending[n] # << >>, pending'[n] = Tail(pending[n]),
           cache'[n] = cache[n], seen'[n] = seen[n], made'[n] = made[n], truth' = truth,
           NEW u \in UID, pending[n][1].op = "upsert", pending[n][1].uid = u,
           \A v \in UID : NameOf[v] = n => (Resident(v)' => Resident(v) \/ v = u) /\ (Alive(v)' <=> v = u)
    PROVE  NameInv(n)'
<1> DEFINE q == pending[n]
<1>1. NameInv(n)
  BY DEF WatchInv
<1>2. /\ made[n] \in Nat /\ seen[n] \in Nat /\ cache[n] \in Nat /\ q \in Seq(Event)
      /\ \A k \in 1 .. Len(q) : /\ q[k].uid \in UID /\ Given(q[k].uid) /\ Pos(q[k].uid) \in Nat
                                /\ q[k].op \in {"upsert", "delete"}
      /\ \A v \in UID : Resident(v) => Given(v) /\ Pos(v) \in Nat
      /\ \A i \in 1 .. made[n] : UidOf(n, i) \in UID /\ NameOf[UidOf(n, i)] = n
  BY NameFacts
<1>3. /\ Len(pending'[n]) = Len(q) - 1 /\ Len(q) \in Nat \ {0}
      /\ \A k \in 1 .. Len(pending'[n]) : k + 1 \in 1 .. Len(q) /\ pending'[n][k] = q[k + 1]
      /\ pending'[n] = << >> <=> Len(q) = 1
  BY TailLeft DEF IsTail
<1>4. Given(u) /\ NameOf[u] = n /\ Pos(u) \in Nat /\ Pos(u) =< seen[n]
  <2>1. 1 \in 1 .. Len(q)
    BY <1>3
  <2>2. InLine(n, 1)
    BY <1>1, <2>1 DEF NameInv, QueueInv
  <2> QED
    BY <1>2, <2>1, <2>2 DEF InLine
<1>5. \A v \in UID : NameOf[v] = n /\ Resident(v) /\ v # u => Pos(v) < Pos(u)
  <2> TAKE v \in UID
  <2>1. NameOf[v] = n /\ Resident(v) => Pos(v) =< Pos(u)
    BY <1>1, <1>3 DEF NameInv, BehindInv
  <2> QED
    BY <1>2, <1>4, <2>1, OnePosition
<1>6. \A k \in 2 .. Len(q) : Pos(u) =< Pos(q[k].uid)
  BY <1>1, <1>3 DEF NameInv, QueueInv, InLine
<1>7. seen[n] =< made[n] /\ cache[n] \in {0, seen[n]}
  BY <1>1 DEF NameInv, CacheInv
<1>8. CacheInv(n)'
  <2>1. cache[n] = 0 /\ seen[n] # 0 => truth[UidOf(n, seen[n])].gone # Zero
    BY <1>1 DEF NameInv, CacheInv
  <2>2. ASSUME NEW v \in UID, NameOf[v] = n, Resident(v)'
        PROVE  Pos(v) =< seen[n] /\ (cache[n] # 0 /\ ~ Alive(v)' => Pos(v) < cache[n])
    <3>1. CASE v = u
      BY <1>4, <2>2, <3>1
    <3>2. CASE v # u
      <4>1. Resident(v) /\ Pos(v) < Pos(u) /\ Pos(v) \in Nat
        BY <1>2, <1>5, <2>2, <3>2
      <4> QED
        BY <1>2, <1>4, <1>7, <4>1
    <3> QED
      BY <3>1, <3>2
  <2> QED
    BY <1>7, <2>1, <2>2 DEF CacheInv
<1>9. QueueInv(n)'
  BY TailInLine
<1>10. BehindInv(n)'
  <2> SUFFICES ASSUME NEW k \in 1 .. Len(pending'[n]), NEW v \in UID, NameOf[v] = n, Resident(v)'
               PROVE  LET e == pending'[n][k]
                      IN  Pos(v) =< Pos(e.uid) /\ (e.op = "upsert" /\ ~ Alive(v)' => Pos(v) < Pos(e.uid))
    BY DEF BehindInv
  <2>1. pending'[n][k] = q[k + 1] /\ Pos(u) =< Pos(q[k + 1].uid) /\ Pos(q[k + 1].uid) \in Nat
    BY <1>2, <1>3, <1>6
  <2>2. CASE v = u
    BY <2>1, <2>2
  <2>3. CASE v # u
    <3>1. Pos(v) < Pos(u) /\ Pos(v) \in Nat
      BY <1>2, <1>5, <2>3
    <3> QED
      BY <1>4, <2>1, <3>1
  <2> QED
    BY <2>2, <2>3
<1>11. DeletesInv(n)'
  <2> SUFFICES ASSUME NEW k \in 1 .. Len(pending'[n]), pending'[n][k].op = "delete"
               PROVE  Announced(n, k)' \/ OnlyOneLeft(n, k)'
    BY DEF DeletesInv
  <2> DEFINE d == q[k + 1].uid
  <2>1. k + 1 \in 1 .. Len(q) /\ q[k + 1].op = "delete" /\ pending'[n][k].uid = d
    BY <1>3
  <2>2. \A l \in 1 .. (k - 1) : pending'[n][l] = q[l + 1] /\ l + 1 \in 1 .. k
    BY <1>3
  <2>3. Announced(n, k + 1)
    <3>1. Announced(n, k + 1) \/ OnlyOneLeft(n, k + 1)
      BY <1>1, <2>1 DEF NameInv, DeletesInv
    <3>2. 1 \in 1 .. ((k + 1) - 1)
      BY <2>1
    <3> QED
      BY <3>1, <3>2 DEF OnlyOneLeft
  <2>4. PICK l \in 1 .. k : q[l].op = "upsert" /\ q[l].uid = d
    BY <2>3 DEF Announced
  <2>5. CASE l # 1
    <3>1. l - 1 \in 1 .. (k - 1) /\ pending'[n][l - 1] = q[(l - 1) + 1] /\ (l - 1) + 1 = l
      BY <2>2, <2>5
    <3> QED
      BY <2>1, <2>4, <3>1 DEF Announced
  <2>6. CASE l = 1
    <3>1. d = u
      BY <2>4, <2>6
    <3>2. CASE \E m \in 1 .. (k - 1) : q[m + 1].op = "upsert"
      <4>1. PICK m \in 1 .. (k - 1) : q[m + 1].op = "upsert"
        BY <3>2
      <4>2. /\ m + 1 \in 2 .. Len(q) /\ m + 1 \in 1 .. ((k + 1) - 1) /\ k + 1 \in 1 .. Len(q)
        BY <1>3, <2>1
      <4>3. Pos(u) =< Pos(q[m + 1].uid) /\ Pos(q[m + 1].uid) =< Pos(u)
        BY <1>1, <1>6, <3>1, <4>2 DEF NameInv, QueueInv, InLine
      <4>4. q[m + 1].uid = u
        <5>1. m + 1 \in 1 .. Len(q)
          BY <4>2
        <5>2. /\ Given(q[m + 1].uid) /\ NameOf[q[m + 1].uid] = n /\ q[m + 1].uid \in UID
              /\ Pos(q[m + 1].uid) \in Nat
          BY <1>1, <1>2, <5>1 DEF NameInv, QueueInv, InLine
        <5>3. Pos(q[m + 1].uid) = Pos(u)
          BY <1>4, <4>3, <5>2
        <5> QED
          BY <1>4, <5>2, <5>3, OnePosition
      <4> QED
        BY <2>1, <2>2, <3>1, <4>1, <4>4 DEF Announced
    <3>3. CASE \A m \in 1 .. (k - 1) : q[m + 1].op # "upsert"
      <4>1. \A m \in 1 .. (k - 1) : pending'[n][m].op = "delete"
        <5> TAKE m \in 1 .. (k - 1)
        <5>1. m + 1 \in 1 .. Len(q) /\ pending'[n][m] = q[m + 1]
          BY <1>3, <2>1, <2>2
        <5> QED
          BY <1>2, <3>3, <5>1
      <4> QED
        BY <2>1, <3>1, <4>1 DEF OnlyOneLeft
    <3> QED
      BY <3>2, <3>3
  <2> QED
    BY <2>5, <2>6
<1>12. TipInv(n)'
  <2>1. IF cache[n] = 0 THEN q[Len(q)].op = "delete" ELSE q[Len(q)].op = "upsert" /\ q[Len(q)].uid = UidOf(n, cache[n])
    BY <1>1 DEF NameInv, TipInv
  <2>2. CASE pending'[n] = << >>
    <3>1. cache[n] # 0 /\ u = UidOf(n, cache[n])
      BY <1>3, <2>1, <2>2
    <3> QED
      BY <1>4, <2>2, <3>1 DEF TipInv
  <2>3. CASE pending'[n] # << >>
    <3>1. pending'[n][Len(pending'[n])] = q[Len(q)]
      BY <1>3, <2>3
    <3> QED
      BY <2>1, <2>3, <3>1 DEF TipInv
  <2> QED
    BY <2>2, <2>3
<1> QED
  BY <1>8, <1>9, <1>10, <1>11, <1>12 DEF NameInv

\* What ended is not alive any more, and nothing else died.
LEMMA DeleteHandled ==
    ASSUME WatchInv, NEW n \in Name, pending[n] # << >>, pending'[n] = Tail(pending[n]),
           cache'[n] = cache[n], seen'[n] = seen[n], made'[n] = made[n], truth' = truth,
           NEW u \in UID, pending[n][1].op = "delete", pending[n][1].uid = u,
           \A v \in UID : NameOf[v] = n => (Resident(v)' => Resident(v)) /\ (Alive(v)' <=> Alive(v) /\ v # u)
    PROVE  NameInv(n)'
<1> DEFINE q == pending[n]
<1>1. NameInv(n)
  BY DEF WatchInv
<1>2. /\ seen[n] \in Nat /\ cache[n] \in Nat /\ q \in Seq(Event)
      /\ \A k \in 1 .. Len(q) : /\ Pos(q[k].uid) \in Nat /\ q[k].op \in {"upsert", "delete"}
  BY NameFacts
<1>3. /\ Len(pending'[n]) = Len(q) - 1 /\ Len(q) \in Nat \ {0}
      /\ \A k \in 1 .. Len(pending'[n]) : k + 1 \in 1 .. Len(q) /\ pending'[n][k] = q[k + 1]
      /\ pending'[n] = << >> <=> Len(q) = 1
  BY TailLeft DEF IsTail
<1>4. 1 \in 1 .. Len(q)
  BY <1>3
<1>5. CacheInv(n)'
  <2>1. cache[n] # 0 => Pos(u) < cache[n]
    BY <1>1, <1>4 DEF NameInv, QueueInv, InLine
  <2> QED
    BY <1>1, <2>1 DEF NameInv, CacheInv
<1>6. QueueInv(n)'
  BY TailInLine
<1>7. BehindInv(n)'
  <2> SUFFICES ASSUME NEW k \in 1 .. Len(pending'[n]), NEW v \in UID, NameOf[v] = n, Resident(v)'
               PROVE  LET e == pending'[n][k]
                      IN  Pos(v) =< Pos(e.uid) /\ (e.op = "upsert" /\ ~ Alive(v)' => Pos(v) < Pos(e.uid))
    BY DEF BehindInv
  <2>1. pending'[n][k] = q[k + 1] /\ k + 1 \in 1 .. Len(q) /\ Resident(v)
    BY <1>3
  <2>2. Pos(v) =< Pos(q[k + 1].uid) /\ (q[k + 1].op = "upsert" /\ ~ Alive(v) => Pos(v) < Pos(q[k + 1].uid))
    BY <1>1, <2>1 DEF NameInv, BehindInv
  <2>3. q[k + 1].op = "upsert" => Pos(u) < Pos(q[k + 1].uid)
    <3>1. InLine(n, k + 1) /\ 1 \in 1 .. ((k + 1) - 1)
      BY <1>1, <2>1 DEF NameInv, QueueInv
    <3> QED
      BY <3>1 DEF InLine
  <2> QED
    BY <2>1, <2>2, <2>3
<1>8. DeletesInv(n)'
  <2> SUFFICES ASSUME NEW k \in 1 .. Len(pending'[n]), pending'[n][k].op = "delete"
               PROVE  Announced(n, k)' \/ OnlyOneLeft(n, k)'
    BY DEF DeletesInv
  <2>1. k + 1 \in 1 .. Len(q) /\ q[k + 1].op = "delete" /\ pending'[n][k] = q[k + 1]
    BY <1>3
  <2>2. \A l \in 1 .. (k - 1) : pending'[n][l] = q[l + 1] /\ l + 1 \in 1 .. ((k + 1) - 1)
    BY <1>3
  <2>3. CASE Announced(n, k + 1)
    <3>1. PICK l \in 1 .. ((k + 1) - 1) : q[l].op = "upsert" /\ q[l].uid = q[k + 1].uid
      BY <2>3 DEF Announced
    <3>2. l # 1 /\ l \in 1 .. k
      BY <3>1
    <3>3. l - 1 \in 1 .. (k - 1) /\ pending'[n][l - 1] = q[(l - 1) + 1] /\ (l - 1) + 1 = l
      BY <2>2, <3>2
    <3> QED
      BY <2>1, <3>1, <3>3 DEF Announced
  <2>4. CASE OnlyOneLeft(n, k + 1)
    BY <2>1, <2>2, <2>4 DEF OnlyOneLeft
  <2> QED
    BY <1>1, <2>1, <2>3, <2>4 DEF NameInv, DeletesInv
<1>9. TipInv(n)'
  <2>1. IF cache[n] = 0 THEN q[Len(q)].op = "delete" ELSE q[Len(q)].op = "upsert" /\ q[Len(q)].uid = UidOf(n, cache[n])
    BY <1>1 DEF NameInv, TipInv
  <2>2. CASE pending'[n] = << >>
    <3>1. cache[n] = 0
      BY <1>3, <2>1, <2>2
    <3>2. OnlyOneLeft(n, 1)
      <4>1. Announced(n, 1) \/ OnlyOneLeft(n, 1)
        BY <1>1, <1>4 DEF NameInv, DeletesInv
      <4> QED
        BY <4>1 DEF Announced
    <3> QED
      BY <2>2, <3>1, <3>2 DEF TipInv, OnlyOneLeft
  <2>3. CASE pending'[n] # << >>
    <3>1. pending'[n][Len(pending'[n])] = q[Len(q)]
      BY <1>3, <2>3
    <3> QED
      BY <2>1, <2>3, <3>1 DEF TipInv
  <2> QED
    BY <2>2, <2>3
<1> QED
  BY <1>5, <1>6, <1>7, <1>8, <1>9 DEF NameInv

-----------------------------------------------------------------------------
\* Records that fade stay true to the cluster.
LEMMA FadedRecords ==
    ASSUME RecordsInv, NEW c, Fades(c), \A u \in UID : truth[u].born # Zero => truth'[u].born = truth[u].born
    PROVE  RecordsInv'
<1>1. \A u \in UID : Resident(u)' => Given(u) /\ truth'[u].born # Zero /\ rec'[u].born = truth'[u].born
  BY DEF RecordsInv, Fades
<1>2. \A p \in after' : Pos(p[2]) < Pos(p[1])
  BY DEF RecordsInv, Fades
<1> QED
  BY <1>1, <1>2 DEF RecordsInv

\* The first notification is about an incarnation the cluster made.
LEMMA FirstInLine ==
    ASSUME WatchInv, NEW n \in Name, pending[n] # << >>
    PROVE  /\ 1 \in 1 .. Len(pending[n]) /\ Head(pending[n]) = pending[n][1]
           /\ pending[n][1].uid \in UID /\ Given(pending[n][1].uid) /\ NameOf[pending[n][1].uid] = n
           /\ truth[pending[n][1].uid].born \in Instant /\ pending[n][1].deletion \in Time
<1>1. pending[n] \in Seq(Event)
  BY NameFacts
<1>2. 1 \in 1 .. Len(pending[n]) /\ Head(pending[n]) = pending[n][1]
  BY <1>1, EmptySeq
<1>3. /\ pending[n][1].uid \in UID /\ Given(pending[n][1].uid) /\ Pos(pending[n][1].uid) \in Nat
      /\ seen[n] \in Nat /\ made[n] \in Nat /\ pending[n][1].deletion \in Time
  BY <1>2, NameFacts
<1>4. NameOf[pending[n][1].uid] = n /\ Pos(pending[n][1].uid) =< seen[n] /\ seen[n] =< made[n]
  BY <1>2 DEF WatchInv, NameInv, QueueInv, InLine, CacheInv
<1>5. Pos(pending[n][1].uid) =< made[NameOf[pending[n][1].uid]]
  BY <1>3, <1>4
<1>6. truth[pending[n][1].uid].born # Zero
  BY <1>3, <1>5 DEF WatchInv, TruthInv
<1>7. truth[pending[n][1].uid].born \in Time
  BY <1>3 DEF WatchInv, WatchTypes, Stamps
<1> QED
  BY <1>2, <1>3, <1>4, <1>6, <1>7 DEF Time

\* A newcomer is listed after every namesake it finds: they were born before it.
LEMMA ArrivedRecords ==
    ASSUME WatchInv, NEW u \in UID, Given(u), truth[u].born \in Instant, Arrives(u, truth[u].born), truth' = truth,
           \A v \in UID : NameOf[v] = NameOf[u] /\ Resident(v) => Pos(v) =< Pos(u)
    PROVE  RecordsInv'
<1> DEFINE t == truth[u].born
<1>1. /\ ~ Resident(u) /\ rec'[u].born = t
      /\ \A v \in UID \ {u} : Resident(v)' => Resident(v) /\ rec'[v].born = rec[v].born
      /\ after' \subseteq InsertByName(u, t)
  BY DEF Arrives
<1>2. \A v \in UID : Resident(v) => Given(v) /\ truth[v].born # Zero /\ rec[v].born = truth[v].born
  BY DEF WatchInv, RecordsInv
<1>3. \A v \in UID : Resident(v)' => Given(v) /\ truth'[v].born # Zero /\ rec'[v].born = truth'[v].born
  BY <1>1, <1>2 DEF Instant, Zero
<1>4. NameOf[u] \in Name
  BY Positions
<1>5. Pos(u) \in Nat /\ \A v \in UID : Resident(v) => Pos(v) \in Nat
  <2>1. \A v \in UID : Given(v) => Pos(v) \in 1 .. Len(Incarnations[NameOf[v]]) /\ Len(Incarnations[NameOf[v]]) \in Nat
    BY Positions
  <2> QED
    BY <1>2, <2>1
<1>6. \A v \in OfName(NameOf[u]) : Pos(v) < Pos(u) /\ rec[v].born =< t
  <2> SUFFICES ASSUME NEW v \in UID, Resident(v), NameOf[v] = NameOf[u] PROVE Pos(v) < Pos(u) /\ rec[v].born =< t
    BY DEF OfName
  <2>1. Pos(v) < Pos(u)
    <3>1. Pos(v) =< Pos(u) /\ v # u /\ Given(v)
      BY <1>1, <1>2
    <3> QED
      BY <1>5, <3>1, OnePosition
  <2>2. truth[v].gone # Zero /\ truth[v].gone =< t
    BY <1>2, <2>1 DEF WatchInv, TruthInv, Instant, Zero
  <2>3. truth[v].born =< truth[v].gone
    BY <2>2 DEF WatchInv, TruthInv
  <2>4. truth[v] \in Stamps /\ truth[u] \in Stamps
    BY DEF WatchInv, WatchTypes
  <2>5. MaxTime \in Nat
    BY LifecycleAssumption DEF LifecycleAssumption
  <2>6. /\ truth[v].born \in Nat /\ truth[v].gone \in Nat /\ t \in Nat
    BY <2>4, <2>5 DEF Stamps, Time, Instant, Zero
  <2> QED
    BY <1>2, <2>1, <2>2, <2>3, <2>6
<1>7. \A v \in OfName(NameOf[u]) : ~ (rec[v].born > t)
  <2>1. t \in Int /\ \A v \in OfName(NameOf[u]) : rec[v].born \in Int
    <3>1. MaxTime \in Nat
      BY LifecycleAssumption DEF LifecycleAssumption
    <3> QED
      BY <3>1 DEF WatchInv, TypeOK, InstanceRecord, OfName, Instant, Zero
  <2> QED
    BY <1>6, <2>1
<1>8. \A p \in InsertByName(u, t) : p \in after \/ \E v \in OfName(NameOf[u]) : p = <<u, v>>
  BY <1>7 DEF InsertByName
<1>9. ASSUME NEW p \in after' PROVE Pos(p[2]) < Pos(p[1])
  <2>1. p \in after \/ \E v \in OfName(NameOf[u]) : p = <<u, v>>
    BY <1>1, <1>8
  <2> QED
    BY <1>6, <2>1 DEF WatchInv, RecordsInv
<1> QED
  BY <1>3, <1>9 DEF RecordsInv

-----------------------------------------------------------------------------
(* The handlers.                                                           *)

\* Handling the announcement of an incarnation leaves it the only one alive.
LEMMA UpsertMoves ==
    ASSUME WatchInv, NEW n \in Name, pending[n] # << >>, NEW u \in UID, u = pending[n][1].uid,
           pending[n][1].op = "upsert", UpsertPod(u), truth' = truth
    PROVE  /\ TypeOK' /\ StoreInv' /\ RecordsInv' /\ now' = now
           /\ \A v \in UID : NameOf[v] = n => (Resident(v)' => Resident(v) \/ v = u) /\ (Alive(v)' <=> v = u)
           /\ \A v \in UID : NameOf[v] # n => (Resident(v)' => Resident(v)) /\ (Alive(v)' <=> Alive(v))
<1> DEFINE t == truth[u].born
<1>1. 1 \in 1 .. Len(pending[n]) /\ Given(u) /\ NameOf[u] = n /\ t \in Instant
  BY FirstInLine
<1>2. TypeOK /\ StoreInv /\ RecordsInv
  BY DEF WatchInv
<1>3. PICK role \in Role \cup {NoRole}, state \in {"discovered", "active"} : Observe(u, role, t, state)
  BY DEF UpsertPod
<1>4. Next
  BY <1>1, <1>3 DEF Next
<1>5. TypeOK' /\ StoreInv'
  BY <1>2, <1>4, TypeStep, StoreStep
<1>6. now' = now
  BY <1>3 DEF Observe, Refresh, Discover
<1>7. \A v \in UID : NameOf[v] = n /\ Resident(v) => Pos(v) =< Pos(u) /\ (~ Alive(v) => Pos(v) < Pos(u))
  BY <1>1 DEF WatchInv, NameInv, BehindInv
<1>8. \A v \in UID : Alive(v) /\ Alive(u) /\ NameOf[v] = n => v = u
  BY <1>1 DEF WatchInv, StoreInv, OneAlive
<1>9. CASE Refresh(u, role, state)
  <2>1. Fades(NoUID)
    BY <1>2, <1>9, RefreshFades
  <2>2. RecordsInv'
    BY <1>2, <2>1, FadedRecords
  <2>3. Resident(u) /\ Pos(u) \in Nat
    <3>1. Resident(u)
      BY <1>9 DEF Refresh
    <3> QED
      BY <3>1, NameFacts
  <2>4. Alive(u)
    BY <1>1, <1>7, <2>3
  <2>5. \A v \in UID : v # NoUID
    BY LifecycleAssumption DEF LifecycleAssumption
  <2> QED
    BY <1>1, <1>5, <1>6, <1>8, <2>1, <2>2, <2>4, <2>5 DEF Fades
<1>10. CASE Discover(u, role, t, state)
  <2>1. Arrives(u, t)
    BY <1>1, <1>2, <1>10, DiscoverArrives
  <2>2. RecordsInv'
    BY <1>1, <1>7, <2>1, ArrivedRecords
  <2> QED
    BY <1>1, <1>5, <1>6, <2>1, <2>2 DEF Arrives
<1> QED
  BY <1>3, <1>9, <1>10 DEF Observe

\* Handling the end of one closes it, if it lives, and no other.
LEMMA DeleteMoves ==
    ASSUME WatchInv, NEW n \in Name, pending[n] # << >>, NEW u \in UID, u = pending[n][1].uid,
           DeletePod(u, pending[n][1].deletion), truth' = truth
    PROVE  /\ TypeOK' /\ StoreInv' /\ RecordsInv' /\ now' = now
           /\ \A v \in UID : (Resident(v)' => Resident(v)) /\ (Alive(v)' <=> Alive(v) /\ v # u)
<1>1. TypeOK /\ StoreInv /\ RecordsInv
  BY DEF WatchInv
<1>2. CASE Alive(u) /\ TerminateInstance(u, DeletionTime(pending[n][1].deletion))
  <2> DEFINE t == DeletionTime(pending[n][1].deletion)
  <2>1. t \in Instant
    BY FirstInLine DEF DeletionTime, Time, WatchInv, WatchTypes
  <2>2. Fades(u)
    BY <1>1, <1>2, <2>1, TerminateFades
  <2>3. RecordsInv'
    BY <1>1, <2>2, FadedRecords
  <2>4. Next
    BY <1>2, <2>1 DEF Next
  <2>5. TypeOK' /\ StoreInv'
    BY <1>1, <2>4, TypeStep, StoreStep
  <2>6. now' = now
    BY <1>2 DEF TerminateInstance
  <2> QED
    BY <2>2, <2>3, <2>5, <2>6 DEF Fades
<1>3. CASE ~ Alive(u) /\ UNCHANGED lifecycleVars
  <2>1. TypeOK' /\ StoreInv'
    BY <1>1, <1>3, TypeStep, StoreStep
  <2>2. \A v \in UID : (Resident(v)' <=> Resident(v)) /\ (Alive(v)' <=> Alive(v))
    BY <1>3 DEF lifecycleVars, Resident, Alive
  <2>3. RecordsInv'
    BY <1>1, <1>3 DEF RecordsInv, lifecycleVars, Resident
  <2> QED
    BY <1>3, <2>1, <2>2, <2>3 DEF lifecycleVars
<1> QED
  BY <1>2, <1>3 DEF DeletePod

\* The types of what the informer keeps about one name.
LEMMA TypesStay ==
    ASSUME WatchInv, NEW n \in Name, now' \in Instant, truth' \in [UID -> Stamps],
           made' \in [Name -> Nat], seen' \in [Name -> Nat], cache' \in [Name -> Nat],
           NEW q \in Seq(Event), pending' = [pending EXCEPT ![n] = q]
    PROVE  WatchTypes'
BY DEF WatchInv, WatchTypes

LEMMA HandleKeepsInv ==
    ASSUME WatchInv, NEW n \in Name, Handle(n)
    PROVE  WatchInv'
<1>1. /\ pending[n] # << >> /\ pending' = [pending EXCEPT ![n] = Tail(pending[n])]
      /\ made' = made /\ truth' = truth /\ cache' = cache /\ seen' = seen
  BY DEF Handle
<1>2. WatchTypes /\ TruthInv
  BY DEF WatchInv
<1>3. /\ pending'[n] = Tail(pending[n])
      /\ \A m \in Name : m # n => pending'[m] = pending[m]
  BY <1>1, <1>2 DEF WatchTypes
<1>4. PICK u \in UID : u = pending[n][1].uid
  BY <1>1, FirstInLine
<1>5. \/ pending[n][1].op = "upsert" /\ UpsertPod(u)
      \/ pending[n][1].op = "delete" /\ DeletePod(u, pending[n][1].deletion)
  BY <1>1, <1>4, FirstInLine DEF Handle
<1>6. /\ TypeOK' /\ StoreInv' /\ RecordsInv' /\ now' = now /\ NameInv(n)'
      /\ \A v \in UID : NameOf[v] # n => (Resident(v)' => Resident(v)) /\ (Alive(v)' <=> Alive(v))
  <2>1. CASE pending[n][1].op = "upsert" /\ UpsertPod(u)
    <3>1. /\ TypeOK' /\ StoreInv' /\ RecordsInv' /\ now' = now
          /\ \A v \in UID : NameOf[v] = n => (Resident(v)' => Resident(v) \/ v = u) /\ (Alive(v)' <=> v = u)
          /\ \A v \in UID : NameOf[v] # n => (Resident(v)' => Resident(v)) /\ (Alive(v)' <=> Alive(v))
      BY <1>1, <1>4, <2>1, UpsertMoves
    <3>2. NameInv(n)'
      BY <1>1, <1>3, <1>4, <2>1, <3>1, UpsertHandled
    <3> QED
      BY <3>1, <3>2
  <2>2. CASE pending[n][1].op = "delete" /\ DeletePod(u, pending[n][1].deletion)
    <3>1. /\ TypeOK' /\ StoreInv' /\ RecordsInv' /\ now' = now
          /\ \A v \in UID : (Resident(v)' => Resident(v)) /\ (Alive(v)' <=> Alive(v) /\ v # u)
      BY <1>1, <1>4, <2>2, DeleteMoves
    <3>2. NameInv(n)'
      BY <1>1, <1>3, <1>4, <2>2, <3>1, DeleteHandled
    <3>3. NameOf[u] = n
      BY <1>1, <1>4, FirstInLine
    <3> QED
      BY <3>1, <3>2, <3>3
  <2> QED
    BY <1>5, <2>1, <2>2
<1>7. ASSUME NEW m \in Name, m # n PROVE NameInv(m)'
  <2>1. made[m] \in Nat
    BY <1>2 DEF WatchTypes
  <2>2. \A v \in UID : NameOf[v] = m => (Resident(v)' => Resident(v)) /\ (Alive(v)' <=> Alive(v))
    BY <1>6, <1>7
  <2> QED
    BY <1>1, <1>3, <1>7, <2>1, <2>2, NameUntouched
<1>8. WatchTypes'
  <2>1. Tail(pending[n]) \in Seq(Event)
    BY <1>1, <1>3, TailLeft DEF IsTail
  <2> QED
    BY <1>1, <1>2, <1>6, <2>1, TypesStay DEF WatchTypes
<1>9. TruthInv'
  BY <1>1, <1>2, <1>6 DEF TruthInv
<1> QED
  BY <1>6, <1>7, <1>8, <1>9 DEF WatchInv

-----------------------------------------------------------------------------
(* The informer and the cluster.                                           *)

\* What was made was born, and nothing that was not.
LEMMA MadeIsBorn ==
    ASSUME WatchInv, NEW n \in Name
    PROVE  /\ \A i \in 1 .. made[n] : truth[UidOf(n, i)].born # Zero
           /\ Current(n) \in {0, made[n]}
           /\ Current(n) # 0 => made[n] \in 1 .. made[n] /\ truth[UidOf(n, made[n])].gone = Zero
           /\ Current(n) = 0 /\ made[n] # 0 => truth[UidOf(n, made[n])].gone # Zero
<1>1. made[n] \in Nat
  BY NameFacts
<1>2. \A i \in 1 .. made[n] : UidOf(n, i) \in UID /\ NameOf[UidOf(n, i)] = n /\ Given(UidOf(n, i)) /\ Pos(UidOf(n, i)) = i
  BY NameFacts
<1>3. \A u \in UID : truth[u].born # Zero <=> Given(u) /\ Pos(u) =< made[NameOf[u]]
  BY DEF WatchInv, TruthInv
<1>4. \A i \in 1 .. made[n] : truth[UidOf(n, i)].born # Zero
  <2> TAKE i \in 1 .. made[n]
  <2> DEFINE u == UidOf(n, i)
  <2>1. u \in UID /\ NameOf[u] = n /\ Given(u) /\ Pos(u) = i
    BY <1>2
  <2> HIDE DEF u
  <2>2. truth[u].born # Zero
    BY <1>1, <1>3, <2>1
  <2> QED
    BY <2>2 DEF u
<1>5. made[n] # 0 => made[n] \in 1 .. made[n] /\ made[n] > 0
  BY <1>1
<1> QED
  BY <1>4, <1>5 DEF Current, Exists

\* A step that leaves the store and the cluster alone and is about one name.
LEMMA InformerStep ==
    ASSUME WatchInv, NEW n \in Name, UNCHANGED <<lifecycleVars, made, truth>>, NameInv(n)',
           NEW q \in Seq(Event), pending' = [pending EXCEPT ![n] = q],
           NEW i \in Nat, cache' = [cache EXCEPT ![n] = i], NEW s \in Nat, seen' = [seen EXCEPT ![n] = s]
    PROVE  WatchInv'
<1>1. TypeOK /\ StoreInv /\ RecordsInv /\ WatchTypes /\ TruthInv
  BY DEF WatchInv
<1>2. TypeOK' /\ StoreInv'
  BY <1>1, TypeStep, StoreStep
<1>3. now' = now /\ rec' = rec /\ after' = after /\ made' = made /\ truth' = truth
  BY DEF lifecycleVars
<1>4. RecordsInv' /\ TruthInv'
  BY <1>1, <1>3 DEF RecordsInv, TruthInv, Resident
<1>5. WatchTypes'
  BY <1>1, <1>3 DEF WatchTypes
<1>6. ASSUME NEW m \in Name, m # n PROVE NameInv(m)'
  <2>1. \A v \in UID : NameOf[v] = m => (Resident(v)' => Resident(v)) /\ (Alive(v)' <=> Alive(v))
    BY <1>3 DEF Resident, Alive
  <2>2. /\ pending'[m] = pending[m] /\ cache'[m] = cache[m] /\ seen'[m] = seen[m]
        /\ made'[m] \in Nat /\ made[m] =< made'[m]
    BY <1>1, <1>3, <1>6 DEF WatchTypes
  <2> QED
    BY <1>3, <2>1, <2>2, NameUntouched
<1> QED
  BY <1>2, <1>4, <1>5, <1>6 DEF WatchInv

\* An announcement.
LEMMA NotifyUpsert ==
    ASSUME WatchInv, NEW n \in Name, NEW p \in 1 .. made[n], seen[n] < p \/ cache[n] = p,
           Notify(n, p, Upsert(UidOf(n, p))), seen' = [seen EXCEPT ![n] = p]
    PROVE  WatchInv'
<1>1. WatchTypes
  BY DEF WatchInv
<1>2. p \in Nat
  BY NameFacts
<1>3. /\ pending' = [pending EXCEPT ![n] = Append(pending[n], Upsert(UidOf(n, p)))]
      /\ cache' = [cache EXCEPT ![n] = p] /\ UNCHANGED <<lifecycleVars, made, truth>>
  BY DEF Notify
<1>4. /\ pending'[n] = Append(pending[n], Upsert(UidOf(n, p))) /\ cache'[n] = p /\ seen'[n] = p
      /\ made'[n] = made[n] /\ rec' = rec
  BY <1>1, <1>3 DEF WatchTypes, lifecycleVars
<1>5. NameInv(n)' /\ pending'[n] \in Seq(Event)
  BY <1>4, UpsertQueued
<1> QED
  BY <1>2, <1>3, <1>4, <1>5, InformerStep

\* An end.
LEMMA NotifyDelete ==
    ASSUME WatchInv, NEW n \in Name, cache[n] # 0, NEW dts \in Time,
           Notify(n, 0, Delete(UidOf(n, cache[n]), dts)),
           NEW s \in Nat, seen' = [seen EXCEPT ![n] = s], seen[n] =< s, s =< made[n],
           truth[UidOf(n, s)].gone # Zero
    PROVE  WatchInv'
<1>1. WatchTypes
  BY DEF WatchInv
<1>2. /\ pending' = [pending EXCEPT ![n] = Append(pending[n], Delete(UidOf(n, cache[n]), dts))]
      /\ cache' = [cache EXCEPT ![n] = 0] /\ UNCHANGED <<lifecycleVars, made, truth>>
  BY DEF Notify
<1>3. /\ pending'[n] = Append(pending[n], Delete(UidOf(n, cache[n]), dts)) /\ cache'[n] = 0 /\ seen'[n] = s
      /\ made'[n] = made[n] /\ rec' = rec /\ truth' = truth
  BY <1>1, <1>2 DEF WatchTypes, lifecycleVars
<1>4. NameInv(n)' /\ pending'[n] \in Seq(Event)
  BY <1>3, DeleteQueued
<1>5. 0 \in Nat
  OBVIOUS
<1> QED
  BY <1>2, <1>3, <1>4, <1>5, InformerStep

LEMMA InformerKeepsInv ==
    ASSUME WatchInv, NEW n \in Name, WatchEvent(n) \/ Relist(n) \/ Resync(n)
    PROVE  WatchInv'
<1>1. WatchTypes /\ CacheInv(n)
  BY DEF WatchInv, NameInv
<1>2. /\ made[n] \in Nat /\ seen[n] \in Nat /\ cache[n] \in Nat /\ seen[n] =< made[n] /\ cache[n] \in {0, seen[n]}
  BY <1>1, NameFacts DEF CacheInv
<1>3. seen[n] # 0 => seen[n] \in 1 .. made[n]
  BY <1>2
<1>4. seen[n] # 0 => UidOf(n, seen[n]) \in UID
  BY <1>3, NameFacts
<1>5. cache[n] # 0 => cache[n] = seen[n] /\ seen[n] # 0 /\ truth[UidOf(n, cache[n])].deletion \in Time
  BY <1>1, <1>2, <1>4 DEF WatchTypes, Stamps
<1>6. seen = [seen EXCEPT ![n] = seen[n]]
  BY <1>1 DEF WatchTypes
<1>7. CASE /\ cache[n] = 0 /\ seen[n] < made[n]
           /\ seen' = [seen EXCEPT ![n] = seen[n] + 1]
           /\ Notify(n, seen[n] + 1, Upsert(UidOf(n, seen[n] + 1)))
  <2>1. seen[n] + 1 \in 1 .. made[n] /\ seen[n] < seen[n] + 1
    BY <1>2, <1>7
  <2> QED
    BY <1>7, <2>1, NotifyUpsert
<1>8. CASE /\ cache[n] # 0 /\ ~ Exists(UidOf(n, cache[n])) /\ seen' = seen
           /\ Notify(n, 0, Delete(UidOf(n, cache[n]), truth[UidOf(n, cache[n])].deletion))
  <2>1. truth[UidOf(n, seen[n])].gone # Zero
    <3>1. truth[UidOf(n, seen[n])].born # Zero
      BY <1>3, <1>5, <1>8, MadeIsBorn
    <3> QED
      BY <1>5, <1>8, <3>1 DEF Exists
  <2>2. seen' = [seen EXCEPT ![n] = seen[n]] /\ seen[n] =< seen[n]
    BY <1>2, <1>6, <1>8
  <2> QED
    BY <1>2, <1>5, <1>8, <2>1, <2>2, NotifyDelete
<1>9. CASE /\ Current(n) \notin {0, cache[n]} /\ seen' = [seen EXCEPT ![n] = made[n]]
           /\ Notify(n, Current(n), Upsert(UidOf(n, Current(n))))
  <2>1. Current(n) = made[n] /\ made[n] \in 1 .. made[n] /\ truth[UidOf(n, made[n])].gone = Zero
    BY <1>9, MadeIsBorn
  <2>2. seen[n] < made[n]
    <3>1. seen[n] # made[n]
      BY <1>1, <1>2, <1>9, <2>1 DEF CacheInv
    <3> QED
      BY <1>2, <3>1
  <2> QED
    BY <1>9, <2>1, <2>2, NotifyUpsert
<1>10. CASE /\ Current(n) = 0 /\ cache[n] # 0 /\ seen' = [seen EXCEPT ![n] = made[n]]
            /\ \E dts \in {Zero, truth[UidOf(n, cache[n])].deletion} :
                  Notify(n, 0, Delete(UidOf(n, cache[n]), dts))
  <2>1. PICK dts \in Time : Notify(n, 0, Delete(UidOf(n, cache[n]), dts))
    BY <1>5, <1>10 DEF Time
  <2>2. made[n] # 0
    BY <1>2, <1>5, <1>10
  <2>3. truth[UidOf(n, made[n])].gone # Zero
    BY <1>10, <2>2, MadeIsBorn
  <2>4. made[n] =< made[n]
    BY <1>2
  <2> QED
    BY <1>2, <1>10, <2>1, <2>3, <2>4, NotifyDelete
<1>11. CASE /\ cache[n] # 0 /\ seen' = seen /\ Notify(n, cache[n], Upsert(UidOf(n, cache[n])))
  <2>1. cache[n] \in 1 .. made[n] /\ seen' = [seen EXCEPT ![n] = cache[n]]
    BY <1>3, <1>5, <1>6, <1>11
  <2> QED
    BY <1>11, <2>1, NotifyUpsert
<1> QED
  BY <1>7, <1>8, <1>9, <1>10, <1>11 DEF WatchEvent, Relist, Resync

\* What the cluster does touches no record, no notification and no cache.
LEMMA ClusterStep ==
    ASSUME WatchInv, UNCHANGED <<lifecycleVars, cache, seen, pending>>, made' \in [Name -> Nat],
           truth' \in [UID -> Stamps], TruthInv', \A n \in Name : made[n] =< made'[n],
           \A u \in UID : /\ truth[u].born # Zero => truth'[u].born = truth[u].born
                          /\ truth[u].gone # Zero => truth'[u].gone # Zero
    PROVE  WatchInv'
<1>1. TypeOK /\ StoreInv /\ RecordsInv /\ WatchTypes
  BY DEF WatchInv
<1>2. TypeOK' /\ StoreInv'
  BY <1>1, TypeStep, StoreStep
<1>3. now' = now /\ rec' = rec /\ after' = after /\ cache' = cache /\ seen' = seen /\ pending' = pending
  BY DEF lifecycleVars
<1>4. RecordsInv'
  BY <1>1, <1>3 DEF RecordsInv, Resident
<1>5. WatchTypes'
  BY <1>1, <1>3 DEF WatchTypes
<1>6. ASSUME NEW m \in Name PROVE NameInv(m)'
  <2>1. \A v \in UID : NameOf[v] = m => (Resident(v)' => Resident(v)) /\ (Alive(v)' <=> Alive(v))
    BY <1>3 DEF Resident, Alive
  <2> QED
    BY <1>3, <2>1, NameUntouched
<1> QED
  BY <1>2, <1>4, <1>5, <1>6 DEF WatchInv

LEMMA CreateKeepsInv ==
    ASSUME WatchInv, NEW n \in Name, ClusterCreate(n)
    PROVE  WatchInv'
<1> DEFINE u == UidOf(n, made[n] + 1)
<1>1. WatchTypes /\ TruthInv
  BY DEF WatchInv
<1>2. made[n] \in Nat /\ made[n] + 1 \in 1 .. Len(Incarnations[n]) /\ Len(Incarnations[n]) \in Nat
  BY <1>1, Positions DEF WatchTypes, ClusterCreate
<1>3. u \in UID /\ NameOf[u] = n /\ Given(u) /\ Pos(u) = made[n] + 1
  BY <1>2, Positions
<1>4. /\ Current(n) = 0 /\ made' = [made EXCEPT ![n] = made[n] + 1]
      /\ truth' = [truth EXCEPT ![u].born = now]
      /\ UNCHANGED <<lifecycleVars, cache, seen, pending>>
  BY DEF ClusterCreate
<1> HIDE DEF u
<1>5. now' = now /\ now \in Instant
  BY <1>1, <1>4 DEF lifecycleVars, WatchTypes
<1>6. \A m \in Name : made[m] \in Nat /\ made'[m] = IF m = n THEN made[n] + 1 ELSE made[m]
  BY <1>1, <1>4 DEF WatchTypes
<1>7. truth \in [UID -> Stamps]
  BY <1>1 DEF WatchTypes
<1>8. \A v \in UID : /\ truth'[v].born = (IF v = u THEN now ELSE truth[v].born) /\ truth'[v].gone = truth[v].gone
                     /\ truth'[v] \in Stamps
  BY <1>3, <1>4, <1>5, <1>7 DEF Stamps, Time
<1>9. \A v \in UID : Given(v) => Pos(v) \in Nat /\ NameOf[v] \in Name
  <2>1. \A v \in UID : NameOf[v] \in Name /\ (Given(v) => Pos(v) \in 1 .. Len(Incarnations[NameOf[v]]))
    BY Positions
  <2> QED
    BY <2>1, Positions
<1>10. \A v \in UID : Given(v) /\ NameOf[v] = n /\ Pos(v) =< made[n] + 1 => v = u \/ Pos(v) =< made[n]
  <2> TAKE v \in UID
  <2>1. Given(v) /\ NameOf[v] = n /\ Pos(v) = made[n] + 1 => v = u
    BY <1>3, OnePosition
  <2> QED
    BY <1>2, <1>9, <2>1
<1>11. truth[u].born = Zero /\ truth[u].gone = Zero
  <2>1. ~ (Pos(u) =< made[n])
    BY <1>2, <1>3
  <2> QED
    BY <1>1, <1>3, <2>1 DEF TruthInv
<1>12. now # Zero
  BY <1>5 DEF Instant, Zero
<1>13. \A m \in Name : made'[m] =< Len(Incarnations[m]) /\ made[m] =< made'[m] /\ made'[m] \in Nat
  BY <1>1, <1>2, <1>6 DEF TruthInv
<1>14. ASSUME NEW v \in UID
       PROVE  /\ truth'[v].born =< now' /\ truth'[v].gone =< now'
              /\ truth'[v].born # Zero <=> Given(v) /\ Pos(v) =< made'[NameOf[v]]
              /\ truth'[v].gone # Zero => truth'[v].born # Zero /\ truth'[v].born =< truth'[v].gone
  <2>1. CASE v = u
    <3>1. made'[n] = made[n] + 1 /\ now =< now
      BY <1>5, <1>6 DEF Instant
    <3> QED
      BY <1>1, <1>2, <1>3, <1>5, <1>8, <1>11, <1>12, <2>1, <3>1 DEF TruthInv
  <2>2. CASE v # u
    <3>1. Given(v) => (Pos(v) =< made[NameOf[v]] <=> Pos(v) =< made'[NameOf[v]])
      BY <1>2, <1>6, <1>9, <1>10, <2>2
    <3> QED
      BY <1>1, <1>5, <1>8, <2>2, <3>1 DEF TruthInv
  <2> QED
    BY <2>1, <2>2
<1>15. \A v \in UID : Given(v) /\ NameOf[v] = n /\ Pos(v) =< made[n] => truth[v].gone # Zero
  <2> SUFFICES ASSUME NEW v \in UID, Given(v), NameOf[v] = n, Pos(v) =< made[n] PROVE truth[v].gone # Zero
    OBVIOUS
  <2>1. Pos(v) \in Nat \ {0}
    <3>1. Pos(v) \in 1 .. Len(Incarnations[NameOf[v]]) /\ Len(Incarnations[NameOf[v]]) \in Nat
      BY Positions
    <3> QED
      BY <3>1
  <2>2. made[n] \in 1 .. made[n] /\ made[n] # 0
    BY <1>2, <2>1
  <2> DEFINE w == UidOf(n, made[n])
  <2>3. w \in UID /\ NameOf[w] = n /\ Given(w) /\ Pos(w) = made[n]
    BY <2>2, NameFacts
  <2>4. truth[w].gone # Zero /\ truth[w].born # Zero
    BY <1>4, <2>2, MadeIsBorn
  <2> HIDE DEF w
  <2>5. CASE v = w
    BY <2>4, <2>5
  <2>6. CASE v # w
    <3>1. Pos(v) # Pos(w)
      BY <2>3, <2>6, OnePosition
    <3>2. Pos(v) < Pos(w)
      BY <1>2, <2>1, <2>3, <3>1
    <3> QED
      BY <1>1, <2>3, <2>4, <3>2 DEF TruthInv
  <2> QED
    BY <2>5, <2>6
<1>16. ASSUME NEW v \in UID, NEW w \in UID, Given(v), Given(w), NameOf[v] = NameOf[w], Pos(v) < Pos(w),
              truth'[w].born # Zero
       PROVE  truth'[v].gone # Zero /\ truth'[v].gone =< truth'[w].born
  <2>1. CASE w = u
    <3>1. Pos(v) =< made[n]
      BY <1>2, <1>3, <1>9, <1>16, <2>1
    <3>2. truth[v].gone # Zero /\ truth[v].gone =< now
      BY <1>1, <1>3, <1>15, <1>16, <2>1, <3>1 DEF TruthInv
    <3> QED
      BY <1>8, <2>1, <3>2
  <2>2. CASE w # u
    BY <1>1, <1>8, <1>16, <2>2 DEF TruthInv
  <2> QED
    BY <2>1, <2>2
<1>17. TruthInv'
  BY <1>13, <1>14, <1>16 DEF TruthInv
<1>18. made' \in [Name -> Nat] /\ truth' \in [UID -> Stamps]
  <2>1. made' \in [Name -> Nat]
    BY <1>1, <1>2, <1>4 DEF WatchTypes
  <2>2. truth' = [v \in UID |-> truth'[v]]
    BY <1>4, <1>7
  <2> QED
    BY <1>8, <2>1, <2>2
<1> QED
  BY <1>4, <1>8, <1>11, <1>13, <1>17, <1>18, ClusterStep

LEMMA DeleteKeepsInv ==
    ASSUME WatchInv, NEW n \in Name, ClusterDelete(n)
    PROVE  WatchInv'
<1> DEFINE u == UidOf(n, made[n])
<1>1. WatchTypes /\ TruthInv
  BY DEF WatchInv
<1>2. Current(n) = made[n] /\ made[n] \in 1 .. made[n] /\ truth[u].gone = Zero /\ truth[u].born # Zero
  BY MadeIsBorn DEF ClusterDelete
<1>3. u \in UID /\ NameOf[u] = n /\ Given(u) /\ Pos(u) = made[n] /\ made[n] \in Nat
  BY <1>2, NameFacts
<1>4. PICK dts \in Time : truth' = [truth EXCEPT ![u].gone = now, ![u].deletion = dts]
  BY <1>2 DEF ClusterDelete, Time
<1>5. made' = made /\ UNCHANGED <<lifecycleVars, cache, seen, pending>>
  BY DEF ClusterDelete
<1> HIDE DEF u
<1>6. now' = now /\ now \in Instant
  BY <1>1, <1>5 DEF lifecycleVars, WatchTypes
<1>7. truth \in [UID -> Stamps]
  BY <1>1 DEF WatchTypes
<1>8. \A v \in UID : /\ truth'[v].born = truth[v].born /\ truth'[v].gone = (IF v = u THEN now ELSE truth[v].gone)
                     /\ truth'[v] \in Stamps
  BY <1>3, <1>4, <1>6, <1>7 DEF Stamps, Time
<1>9. truth' \in [UID -> Stamps]
  <2>1. truth' = [v \in UID |-> truth'[v]]
    BY <1>4, <1>7
  <2> QED
    BY <1>8, <2>1
<1>10. now # Zero /\ now =< now
  BY <1>6 DEF Instant, Zero
<1>11. ASSUME NEW v \in UID
       PROVE  /\ truth'[v].born =< now' /\ truth'[v].gone =< now'
              /\ truth'[v].born # Zero <=> Given(v) /\ Pos(v) =< made'[NameOf[v]]
              /\ truth'[v].gone # Zero => truth'[v].born # Zero /\ truth'[v].born =< truth'[v].gone
  <2>1. CASE v = u
    BY <1>1, <1>2, <1>5, <1>6, <1>8, <1>10, <2>1 DEF TruthInv
  <2>2. CASE v # u
    BY <1>1, <1>5, <1>6, <1>8, <2>2 DEF TruthInv
  <2> QED
    BY <2>1, <2>2
<1>12. ASSUME NEW v \in UID, NEW w \in UID, Given(v), Given(w), NameOf[v] = NameOf[w], Pos(v) < Pos(w),
              truth'[w].born # Zero
       PROVE  truth'[v].gone # Zero /\ truth'[v].gone =< truth'[w].born
  <2>1. truth[w].born # Zero
    BY <1>8, <1>12
  <2>2. v # u
    <3>1. truth[v].gone # Zero
      BY <1>1, <1>12, <2>1 DEF TruthInv
    <3> QED
      BY <1>2, <3>1
  <2> QED
    BY <1>1, <1>8, <1>12, <2>1, <2>2 DEF TruthInv
<1>13. TruthInv'
  BY <1>1, <1>5, <1>11, <1>12 DEF TruthInv
<1>14. made' \in [Name -> Nat] /\ \A m \in Name : made[m] =< made'[m]
  BY <1>1, <1>5 DEF WatchTypes
<1>15. \A v \in UID : truth[v].gone # Zero => truth'[v].gone # Zero
  BY <1>8, <1>10
<1> QED
  BY <1>5, <1>8, <1>9, <1>13, <1>14, <1>15, ClusterStep

-----------------------------------------------------------------------------
(* The process.                                                            *)

LEMMA EmptyAgainIsSound == Empty' => StoreInv'
BY EmptyIsSound, PTL

LEMMA RestartKeepsInv ==
    ASSUME WatchInv, Restart
    PROVE  WatchInv'
<1>1. WatchTypes /\ TruthInv /\ TypeOK
  BY DEF WatchInv
<1>2. /\ rec' = [u \in UID |-> Absent] /\ after' = {} /\ dead' = {} /\ now' = now
      /\ cache' = [n \in Name |-> 0] /\ pending' = [n \in Name |-> << >>] /\ made' = made /\ truth' = truth
      /\ seen' = [n \in Name |-> IF Current(n) = 0 THEN made[n] ELSE made[n] - 1]
  BY DEF Restart
<1>3. StoreInv'
  <2>1. Empty'
    BY <1>2 DEF Empty
  <2> QED
    BY <2>1, EmptyAgainIsSound
<1>4. TypeOK'
  <2>1. Absent \in InstanceRecord
    BY DEF Absent, InstanceRecord
  <2> QED
    BY <1>1, <1>2, <2>1 DEF TypeOK
<1>5. \A u \in UID : ~ Resident(u)' /\ ~ Alive(u)'
  BY <1>2 DEF Resident, Alive, Absent
<1>6. RecordsInv' /\ TruthInv'
  BY <1>1, <1>2, <1>5 DEF RecordsInv, TruthInv
<1>7. \A n \in Name : made[n] \in Nat /\ (Current(n) # 0 => made[n] - 1 \in Nat)
  <2> TAKE n \in Name
  <2>1. made[n] \in Nat /\ (Current(n) # 0 => made[n] \in 1 .. made[n])
    BY NameFacts, MadeIsBorn
  <2> QED
    BY <2>1
<1>8. WatchTypes'
  <2>1. << >> \in Seq(Event) /\ 0 \in Nat
    OBVIOUS
  <2>2. seen' \in [Name -> Nat]
    BY <1>2, <1>7
  <2> QED
    BY <1>1, <1>2, <2>1, <2>2 DEF WatchTypes
<1>9. ASSUME NEW n \in Name PROVE NameInv(n)'
  <2>1. /\ pending'[n] = << >> /\ Len(pending'[n]) = 0 /\ cache'[n] = 0 /\ made'[n] = made[n]
        /\ seen'[n] = IF Current(n) = 0 THEN made[n] ELSE made[n] - 1
    BY <1>2
  <2>2. seen'[n] =< made'[n]
    BY <1>7, <2>1
  <2>3. seen'[n] # 0 => truth[UidOf(n, seen'[n])].gone # Zero
    <3>1. CASE Current(n) = 0
      BY <2>1, <3>1, MadeIsBorn
    <3>2. CASE Current(n) # 0 /\ made[n] - 1 # 0
      <4>1. made[n] \in 1 .. made[n] /\ made[n] - 1 \in 1 .. made[n] /\ made[n] - 1 < made[n]
        BY <1>7, <3>2
      <4> DEFINE v == UidOf(n, made[n] - 1)
                 w == UidOf(n, made[n])
      <4>2. /\ v \in UID /\ Given(v) /\ NameOf[v] = n /\ Pos(v) = made[n] - 1
            /\ w \in UID /\ Given(w) /\ NameOf[w] = n /\ Pos(w) = made[n]
        BY <4>1, NameFacts
      <4>3. truth[w].born # Zero
        BY <4>1, MadeIsBorn
      <4> HIDE DEF v, w
      <4>4. truth[v].gone # Zero
        BY <1>1, <4>1, <4>2, <4>3 DEF TruthInv
      <4> QED
        BY <2>1, <3>2, <4>4 DEF v
    <3> QED
      BY <2>1, <3>1, <3>2
  <2>4. CacheInv(n)'
    BY <1>2, <1>5, <2>1, <2>2, <2>3 DEF CacheInv
  <2>5. 1 .. Len(pending'[n]) = {}
    BY <2>1
  <2>6. QueueInv(n)' /\ BehindInv(n)' /\ DeletesInv(n)'
    BY <2>5 DEF QueueInv, BehindInv, DeletesInv
  <2>7. TipInv(n)'
    BY <1>5, <2>1 DEF TipInv
  <2> QED
    BY <2>4, <2>6, <2>7 DEF NameInv
<1> QED
  BY <1>3, <1>4, <1>6, <1>8, <1>9 DEF WatchInv

LEMMA SweepKeepsInv ==
    ASSUME WatchInv, Sweep
    PROVE  WatchInv'
<1>1. TypeOK /\ StoreInv /\ RecordsInv /\ WatchTypes /\ TruthInv
  BY DEF WatchInv
<1>2. GC /\ UNCHANGED <<made, truth, cache, seen, pending>> /\ now' = now
  BY DEF Sweep, watchVars, GC
<1>3. Next
  BY <1>2 DEF Next
<1>4. TypeOK' /\ StoreInv'
  BY <1>1, <1>3, TypeStep, StoreStep
<1>5. Fades(NoUID)
  BY <1>1, <1>2, GCFades
<1>6. RecordsInv'
  BY <1>1, <1>2, <1>5, FadedRecords
<1>7. WatchTypes' /\ TruthInv'
  BY <1>1, <1>2 DEF WatchTypes, TruthInv
<1>8. \A v \in UID : v # NoUID
  BY LifecycleAssumption DEF LifecycleAssumption
<1>9. ASSUME NEW n \in Name PROVE NameInv(n)'
  <2>1. \A v \in UID : NameOf[v] = n => (Resident(v)' => Resident(v)) /\ (Alive(v)' <=> Alive(v))
    BY <1>5, <1>8 DEF Fades
  <2>2. made'[n] \in Nat /\ made[n] =< made'[n]
    BY <1>1, <1>2 DEF WatchTypes
  <2> QED
    BY <1>2, <2>1, <2>2, NameUntouched
<1> QED
  BY <1>4, <1>6, <1>7, <1>9 DEF WatchInv

LEMMA TickKeepsInv ==
    ASSUME WatchInv, Tick
    PROVE  WatchInv'
<1>1. TypeOK /\ StoreInv /\ RecordsInv /\ WatchTypes /\ TruthInv
  BY DEF WatchInv
<1>2. /\ Advance /\ UNCHANGED <<made, truth, cache, seen, pending>>
      /\ now < MaxTime /\ now' = now + 1 /\ UNCHANGED <<rec, after, dead>>
  BY DEF Tick, watchVars, Advance
<1>3. Next
  BY <1>2 DEF Next
<1>4. TypeOK' /\ StoreInv'
  BY <1>1, <1>3, TypeStep, StoreStep
<1>5. RecordsInv'
  BY <1>1, <1>2 DEF RecordsInv, Resident
<1>6. MaxTime \in Nat
  BY LifecycleAssumption DEF LifecycleAssumption
<1>7. now' \in Instant /\ now \in Nat
  BY <1>1, <1>2, <1>6 DEF WatchTypes, Instant
<1>8. WatchTypes'
  BY <1>1, <1>2, <1>7 DEF WatchTypes
<1>9. \A v \in UID : truth[v].born \in Nat /\ truth[v].gone \in Nat
  BY <1>1, <1>6 DEF WatchTypes, Stamps, Time, Instant, Zero
<1>10. \A v \in UID : truth[v].born =< now' /\ truth[v].gone =< now'
  BY <1>1, <1>2, <1>7, <1>9 DEF TruthInv
<1>11. TruthInv'
  BY <1>1, <1>2, <1>10 DEF TruthInv
<1>12. ASSUME NEW n \in Name PROVE NameInv(n)'
  <2>1. \A v \in UID : NameOf[v] = n => (Resident(v)' => Resident(v)) /\ (Alive(v)' <=> Alive(v))
    BY <1>2 DEF Resident, Alive
  <2>2. made'[n] \in Nat /\ made[n] =< made'[n]
    BY <1>1, <1>2 DEF WatchTypes
  <2> QED
    BY <1>2, <2>1, <2>2, NameUntouched
<1> QED
  BY <1>4, <1>5, <1>8, <1>11, <1>12 DEF WatchInv

LEMMA WatchStarts == WatchInit => WatchInv
<1> SUFFICES ASSUME WatchInit PROVE WatchInv
  OBVIOUS
<1>1. /\ now = 1 /\ rec = [u \in UID |-> Absent] /\ after = {} /\ dead = {}
      /\ made = [n \in Name |-> 0] /\ truth = [u \in UID |-> NotMade]
      /\ cache = [n \in Name |-> 0] /\ seen = [n \in Name |-> 0]
      /\ pending = [n \in Name |-> << >>]
  BY DEF WatchInit, Init
<1>2. StoreInv
  BY <1>1, EmptyIsSound DEF Empty
<1>3. TypeOK
  BY <1>1 DEF TypeOK, Absent, InstanceRecord
<1>4. MaxTime \in Nat \ {0}
  BY LifecycleAssumption, WatchAssumption DEF LifecycleAssumption, WatchAssumption
<1>5. WatchTypes
  <2>1. << >> \in Seq(Event) /\ NotMade \in Stamps
    BY DEF NotMade, Stamps, Time
  <2>2. now \in Instant
    BY <1>1, <1>4 DEF Instant
  <2> QED
    BY <1>1, <2>1, <2>2 DEF WatchTypes
<1>6. \A u \in UID : ~ Resident(u) /\ ~ Alive(u)
  BY <1>1 DEF Resident, Alive, Absent
<1>7. RecordsInv
  BY <1>1, <1>6 DEF RecordsInv
<1>8. \A u \in UID : Given(u) => ~ (Pos(u) =< made[NameOf[u]])
  <2> TAKE u \in UID
  <2>1. NameOf[u] \in Name /\ (Given(u) => Pos(u) \in 1 .. Len(Incarnations[NameOf[u]]))
    BY Positions
  <2>2. Len(Incarnations[NameOf[u]]) \in Nat /\ made[NameOf[u]] = 0
    BY <1>1, <2>1, Positions
  <2> QED
    BY <2>1, <2>2
<1>9. TruthInv
  <2>1. \A n \in Name : made[n] =< Len(Incarnations[n])
    BY <1>1, Positions
  <2>2. \A u \in UID : truth[u].born = Zero /\ truth[u].gone = Zero
    BY <1>1 DEF NotMade
  <2>3. Zero =< now
    BY <1>1 DEF Zero
  <2> QED
    BY <1>8, <2>1, <2>2, <2>3 DEF TruthInv
<1>10. ASSUME NEW n \in Name PROVE NameInv(n)
  <2>1. pending[n] = << >> /\ cache[n] = 0 /\ seen[n] = 0 /\ made[n] = 0 /\ 1 .. Len(pending[n]) = {}
    BY <1>1
  <2>2. CacheInv(n) /\ TipInv(n)
    BY <1>6, <2>1 DEF CacheInv, TipInv
  <2>3. QueueInv(n) /\ BehindInv(n) /\ DeletesInv(n)
    BY <2>1 DEF QueueInv, BehindInv, DeletesInv
  <2> QED
    BY <2>2, <2>3 DEF NameInv
<1> QED
  BY <1>2, <1>3, <1>5, <1>7, <1>9, <1>10 DEF WatchInv

\* The invariant of the watcher: whatever the informer skips, repeats or delays, what
\* is pending, what the cache holds and what the store has recorded follow the order
\* in which the cluster gave the name away.
THEOREM WatcherKeepsOrder == WatchSpec => []WatchInv
<1>1. WatchInv /\ [WatchNext]_vars => WatchInv'
  <2> SUFFICES ASSUME WatchInv, [WatchNext]_vars PROVE WatchInv'
    OBVIOUS
  <2>1. CASE \E n \in Name : ClusterCreate(n) \/ ClusterDelete(n)
    BY <2>1, CreateKeepsInv, DeleteKeepsInv
  <2>2. CASE \E n \in Name : WatchEvent(n) \/ Relist(n) \/ Resync(n) \/ Handle(n)
    BY <2>2, InformerKeepsInv, HandleKeepsInv
  <2>3. CASE Restart \/ Sweep \/ Tick
    BY <2>3, RestartKeepsInv, SweepKeepsInv, TickKeepsInv
  <2>4. CASE UNCHANGED vars
    <3>1. UNCHANGED <<lifecycleVars, cache, seen, pending>> /\ made' = made /\ truth' = truth
      BY <2>4 DEF vars, watchVars
    <3>2. TruthInv' /\ made' \in [Name -> Nat] /\ truth' \in [UID -> Stamps] /\ \A n \in Name : made[n] =< made'[n]
      BY <3>1 DEF WatchInv, WatchTypes, TruthInv, lifecycleVars
    <3> QED
      BY <3>1, <3>2, ClusterStep
  <2> QED
    BY <2>1, <2>2, <2>3, <2>4 DEF WatchNext
<1> QED
  BY <1>1, WatchStarts, PTL DEF WatchSpec

\* The store of the running process is sound as well: its calls are some of those any
\* sequence may make, and a restart begins with an empty one.
THEOREM WatchedStoreIsSound == WatchSpec => []StoreSound
<1>1. WatchInv => StoreSound
  BY DEF WatchInv, StoreSound
<1> QED
  BY <1>1, WatcherKeepsOrder, PTL

-----------------------------------------------------------------------------
(* What the lookup answers.                                                *)

\* Of the records that cover an instant, the one of the latest incarnation answers.
LEMMA LatestAnswers ==
    ASSUME WatchInv, NEW n \in Name, NEW t \in Nat, NEW u \in Covering(n, t),
           \A v \in Covering(n, t) : Pos(v) =< Pos(u)
    PROVE  Lookup(n, t) = IF TierOf(u) = "expired" THEN NoUID ELSE u
<1>1. \A v \in Covering(n, t) : v \in UID /\ Resident(v) /\ NameOf[v] = n
  BY DEF Covering, OfName
<1>2. \A v \in Covering(n, t) : Pos(v) \in Nat
  BY <1>1, NameFacts
<1>3. \A v \in Covering(n, t) : v # u => <<u, v>> \in after /\ <<v, u>> \notin after
  <2> SUFFICES ASSUME NEW v \in Covering(n, t), v # u PROVE <<u, v>> \in after /\ <<v, u>> \notin after
    OBVIOUS
  <2>1. <<v, u>> \notin after
    <3>1. <<v, u>> \in after => Pos(u) < Pos(v)
      BY DEF WatchInv, RecordsInv
    <3> QED
      BY <1>2, <3>1
  <2>2. <<u, v>> \in after <=> <<v, u>> \notin after
    BY <1>1 DEF WatchInv, StoreInv, ListIsByBirth
  <2> QED
    BY <2>1, <2>2
<1>4. <<u, u>> \notin after
  BY DEF WatchInv, StoreInv, ListIsByBirth
<1>5. NewestCovering(n, t) = {u}
  <2>1. u \in NewestCovering(n, t)
    BY <1>3, <1>4 DEF NewestCovering
  <2>2. \A v \in NewestCovering(n, t) : v = u
    BY <1>3 DEF NewestCovering
  <2> QED
    BY <2>1, <2>2
<1>6. (CHOOSE w \in NewestCovering(n, t) : TRUE) = u
  BY <1>5
<1>7. Covering(n, t) # {}
  OBVIOUS
<1>8. Lookup(n, t) = IF TierOf(CHOOSE w \in NewestCovering(n, t) : TRUE) = "expired" THEN NoUID
                     ELSE CHOOSE w \in NewestCovering(n, t) : TRUE
  BY <1>7, Zenon DEF Lookup
<1> DEFINE newest == CHOOSE w \in NewestCovering(n, t) : TRUE
<1>9. newest = u /\ Lookup(n, t) = IF TierOf(newest) = "expired" THEN NoUID ELSE newest
  BY <1>6, <1>8, Zenon
<1> HIDE DEF newest
<1> QED
  BY <1>9

\* On a name whose notifications are all handled the store holds what the cluster
\* holds: the queue ends in what the cache says, and an end never leaves an older
\* incarnation alive.
THEOREM SettledNamesAgree == WatchSpec => []SettledAudit
<1>1. ASSUME WatchInv, NEW n \in Name, Settled(n) PROVE StoreMatches(n)
  <2> DEFINE current == {UidOf(n, i) : i \in {Current(n)} \ {0}}
             c == Current(n)
             w == UidOf(n, c)
  <2>1. pending[n] = << >> /\ cache[n] = c
    BY <1>1 DEF Settled
  <2>2. /\ \A v \in UID : NameOf[v] = n /\ Alive(v) => c # 0 /\ v = w
        /\ c # 0 => Alive(w)
    BY <1>1, <2>1 DEF WatchInv, NameInv, TipInv
  <2>3. c # 0 => c = made[n] /\ w \in UID /\ NameOf[w] = n /\ Given(w) /\ Pos(w) = made[n]
    <3>1. c # 0 => c = made[n] /\ made[n] \in 1 .. made[n]
      BY <1>1, MadeIsBorn
    <3> QED
      BY <1>1, <3>1, NameFacts
  <2>4. current = IF c = 0 THEN {} ELSE {w}
    BY DEF current, c, w
  <2> HIDE DEF c, w, current
  <2>5. {v \in OfName(n) : Alive(v)} = current
    BY <2>2, <2>3, <2>4 DEF OfName, Alive
  <2>6. ASSUME c # 0 PROVE Lookup(n, now) = w
    <3>1. w \in UID /\ Alive(w) /\ Resident(w) /\ NameOf[w] = n
      BY <2>2, <2>3, <2>6 DEF Alive
    <3>2. rec[w].born =< now
      BY <1>1, <3>1 DEF WatchInv, RecordsInv, TruthInv
    <3>3. w \in Covering(n, now)
      BY <3>1, <3>2 DEF Covering, OfName, CoversInstant, Alive
    <3>4. \A v \in Covering(n, now) : Pos(v) =< Pos(w)
      <4> TAKE v \in Covering(n, now)
      <4>1. v \in UID /\ Resident(v) /\ NameOf[v] = n
        BY DEF Covering, OfName
      <4>2. Pos(v) =< seen[n] /\ seen[n] =< made[n]
        BY <1>1, <4>1 DEF WatchInv, NameInv, CacheInv
      <4>3. Pos(v) \in Nat /\ seen[n] \in Nat /\ made[n] \in Nat
        BY <1>1, <4>1, NameFacts
      <4> QED
        BY <2>3, <2>6, <4>2, <4>3
    <3>5. TierOf(w) = "alive"
      BY <3>1 DEF TierOf
    <3>6. now \in Nat
      BY <1>1 DEF WatchInv, TypeOK
    <3> QED
      BY <1>1, <3>3, <3>4, <3>5, <3>6, LatestAnswers
  <2>7. \A v \in current : Lookup(n, now) = v
    BY <2>4, <2>6
  <2> QED
    BY <2>5, <2>7 DEF StoreMatches, current, c
<1>2. WatchInv => SettledAudit
  BY <1>1 DEF SettledAudit
<1> QED
  BY <1>2, WatcherKeepsOrder, PTL

\* A set of natural numbers that is not empty has a least one.
Less == {p \in Nat \X Nat : p[1] < p[2]}

LEMMA LeastExists ==
    ASSUME NEW D, D \subseteq Nat, D # {}
    PROVE  \E d \in D : \A e \in D : d =< e
<1>1. PICK d \in D : \A e \in D : <<e, d>> \notin Less
  <2>1. IsWellFoundedOn(Less, Nat)
    BY NatLessThanWellFounded DEF OpToRel, Less
  <2> QED
    BY <2>1, WFMin
<1>2. \A i, j \in Nat : <<i, j>> \notin Less => j =< i
  BY DEF Less
<1> QED
  BY <1>1, <1>2

\* Of the records of a name that cover an instant, one is of the latest incarnation.
LEMMA LatestExists ==
    ASSUME WatchInv, NEW n \in Name, NEW t \in Nat, Covering(n, t) # {}
    PROVE  \E u \in Covering(n, t) : \A v \in Covering(n, t) : Pos(v) =< Pos(u)
<1>1. \A v \in Covering(n, t) : v \in UID /\ Resident(v) /\ NameOf[v] = n
  BY DEF Covering, OfName
<1>2. made[n] \in Nat /\ \A v \in Covering(n, t) : Pos(v) \in Nat /\ Pos(v) =< made[n]
  <2>1. seen[n] \in Nat /\ made[n] \in Nat /\ seen[n] =< made[n]
    BY NameFacts DEF WatchInv, NameInv, CacheInv
  <2>2. \A v \in Covering(n, t) : Pos(v) \in Nat /\ Pos(v) =< seen[n]
    BY <1>1, NameFacts DEF WatchInv, NameInv, CacheInv
  <2> QED
    BY <2>1, <2>2
<1> DEFINE D == {made[n] - Pos(v) : v \in Covering(n, t)}
<1>3. D \subseteq Nat /\ D # {}
  BY <1>2
<1> HIDE DEF D
<1>4. PICK d \in D : \A e \in D : d =< e
  BY <1>3, LeastExists
<1>5. PICK u \in Covering(n, t) : d = made[n] - Pos(u)
  BY DEF D
<1>6. ASSUME NEW v \in Covering(n, t) PROVE Pos(v) =< Pos(u)
  <2>1. made[n] - Pos(v) \in D
    BY DEF D
  <2>2. made[n] - Pos(u) =< made[n] - Pos(v)
    BY <1>4, <1>5, <2>1
  <2> QED
    BY <1>2, <2>2
<1> QED
  BY <1>6

\* A sample that comes late is joined to the object it is about, or refused: what
\* covers its instant and is listed later was born when that object was gone.
THEOREM LateSamplesJoinTheirOwn == WatchSpec => []LateSampleJoinsItsOwn
<1>1. MaxTime \in Nat /\ Instant \subseteq Nat
  BY LifecycleAssumption DEF LifecycleAssumption, Instant
<1>2. ASSUME WatchInv PROVE \A v \in UID : Resident(v) => /\ Given(v) /\ NameOf[v] \in Name /\ Pos(v) \in Nat
                                                        /\ rec[v].born = truth[v].born /\ truth[v].born # Zero
                                                        /\ truth[v].born \in Nat /\ truth[v].gone \in Nat
  <2> SUFFICES ASSUME NEW v \in UID, Resident(v)
               PROVE  /\ Given(v) /\ NameOf[v] \in Name /\ Pos(v) \in Nat
                      /\ rec[v].born = truth[v].born /\ truth[v].born # Zero
                      /\ truth[v].born \in Nat /\ truth[v].gone \in Nat
    OBVIOUS
  <2>1. NameOf[v] \in Name
    BY Positions
  <2>2. Given(v) /\ Pos(v) \in Nat
    BY <1>2, <2>1, NameFacts
  <2>3. rec[v].born = truth[v].born /\ truth[v].born # Zero
    BY <1>2 DEF WatchInv, RecordsInv
  <2>4. truth[v] \in Stamps
    BY <1>2 DEF WatchInv, WatchTypes
  <2>5. Time \subseteq Nat
    BY <1>1 DEF Time, Zero
  <2>6. truth[v].born \in Nat /\ truth[v].gone \in Nat
    BY <2>4, <2>5 DEF Stamps
  <2> QED
    BY <2>1, <2>2, <2>3, <2>6
<1>3. ASSUME WatchInv, NEW u \in UID, NEW t \in Instant, Resident(u), CoversInstant(u, t), ReallyThere(u, t)
      PROVE  Lookup(NameOf[u], t) \in {u} \cup (IF TierOf(u) = "expired" THEN {NoUID} ELSE {})
  <2> DEFINE n == NameOf[u]
  <2>1. n \in Name /\ t \in Nat /\ u \in Covering(n, t)
    BY <1>1, <1>2, <1>3 DEF Covering, OfName
  <2>2. \A v \in Covering(n, t) : Pos(v) =< Pos(u)
    <3> SUFFICES ASSUME NEW v \in Covering(n, t), ~ (Pos(v) =< Pos(u)) PROVE FALSE
      OBVIOUS
    <3>1. v \in UID /\ Resident(v) /\ NameOf[v] = NameOf[u] /\ rec[v].born =< t
      BY DEF Covering, OfName, CoversInstant
    <3>2. Pos(u) < Pos(v) /\ Given(u) /\ Given(v) /\ truth[v].born # Zero /\ rec[v].born = truth[v].born
      BY <1>2, <1>3, <3>1
    <3>3. truth[u].gone # Zero /\ truth[u].gone =< truth[v].born
      BY <1>3, <3>1, <3>2 DEF WatchInv, TruthInv
    <3>4. t < truth[u].gone
      BY <1>3, <3>3 DEF ReallyThere
    <3>5. truth[u].gone \in Nat /\ truth[v].born \in Nat
      BY <1>2, <1>3, <3>1
    <3> QED
      BY <2>1, <3>1, <3>2, <3>3, <3>4, <3>5
  <2>3. Lookup(n, t) = IF TierOf(u) = "expired" THEN NoUID ELSE u
    BY <1>3, <2>1, <2>2, LatestAnswers
  <2> QED
    BY <2>3
<1>4. ASSUME WatchInv, NEW n \in Name, NEW t \in Instant, Lookup(n, t) # NoUID
      PROVE  truth[Lookup(n, t)].born # Zero /\ truth[Lookup(n, t)].born =< t
  <2>1. Covering(n, t) # {}
    BY <1>4 DEF Lookup
  <2>2. PICK u \in Covering(n, t) : \A v \in Covering(n, t) : Pos(v) =< Pos(u)
    BY <1>1, <1>4, <2>1, LatestExists
  <2>3. Lookup(n, t) = u
    BY <1>1, <1>4, <2>2, LatestAnswers
  <2>4. u \in UID /\ Resident(u) /\ rec[u].born =< t
    BY DEF Covering, OfName, CoversInstant
  <2> QED
    BY <1>2, <1>4, <2>3, <2>4
<1>5. WatchInv => LateSampleJoinsItsOwn
  BY <1>3, <1>4 DEF LateSampleJoinsItsOwn
<1> QED
  BY <1>5, WatcherKeepsOrder, PTL

=============================================================================
