---------------------------- MODULE IdentityWatch ----------------------------
(***************************************************************************)
(* The identity watcher of internal/identity/informer.go over the          *)
(* lifecycle store: a cluster that creates and deletes same-named objects, *)
(* a client-go informer whose cache and notifications lag behind it, and   *)
(* the handlers that turn notifications into calls of the store.           *)
(*                                                                         *)
(* External code, modelled from how the handlers use it: the API server    *)
(* (creation and deletion time stamps) and the shared informer (one cache  *)
(* entry per name; notifications of a name in order, lagging the cache; a  *)
(* relist after a broken watch skips what happened meanwhile and reports a *)
(* missed deletion as DeletedFinalStateUnknown, or, when the name is taken *)
(* again, only as an update to the new object; a resync repeats the cached *)
(* object).                                                                *)
(***************************************************************************)
EXTENDS Lifecycle, Sequences

CONSTANTS
    Incarnations,   \* Name -> the sequence of UIDs the cluster gives that name
    MaxGrace,       \* how far ahead of the clock a deletion time stamp may lie
    MaxPending,     \* bound on the pending notifications of a name
    MaxRestarts     \* bound on the restarts of the process

ASSUME WatchAssumption ==
    /\ Incarnations \in [Name -> Seq(UID)]
    /\ \A n \in Name : \A i, j \in 1 .. Len(Incarnations[n]) :
          /\ NameOf[Incarnations[n][i]] = n
          /\ Incarnations[n][i] = Incarnations[n][j] => i = j  \* no UID is given twice
    /\ MaxTime # 0
    /\ MaxGrace \in Nat /\ MaxPending \in Nat \ {0} /\ MaxRestarts \in Nat

VARIABLES
    made,       \* how many incarnations of each name the cluster has created
    truth,      \* the cluster's truth about each UID: created, gone, deletion time
    cache,      \* the informer's cache: which incarnation (0: none) it holds
    seen,       \* the last incarnation of each name the informer has passed by
    pending,    \* notifications of each name not yet handled
    restarts

watchVars == <<made, truth, cache, seen, pending, restarts>>
vars == <<lifecycleVars, watchVars>>

\* The clock reading that stands for "no such time" is Zero, as in Go.
NotMade == [born |-> Zero, gone |-> Zero, deletion |-> Zero]

UidOf(n, i) == Incarnations[n][i]
Exists(u)   == truth[u].born # Zero /\ truth[u].gone = Zero
Current(n)  == IF made[n] > 0 /\ Exists(UidOf(n, made[n])) THEN made[n] ELSE 0
Room(n)     == Len(pending[n]) < MaxPending

Upsert(u)      == [op |-> "upsert", uid |-> u, deletion |-> Zero]
Delete(u, dts) == [op |-> "delete", uid |-> u, deletion |-> dts]

-----------------------------------------------------------------------------
(* The cluster (external).                                                 *)

\* A name is created again only once its previous holder is gone; the creation
\* time stamp is the API server's clock, as coarse as the store's.
ClusterCreate(n) ==
    /\ made[n] < Len(Incarnations[n])
    /\ Current(n) = 0
    /\ made' = [made EXCEPT ![n] = @ + 1]
    /\ truth' = [truth EXCEPT ![UidOf(n, made[n] + 1)].born = now]
    /\ UNCHANGED <<lifecycleVars, cache, seen, pending, restarts>>

\* The final deletion time stamp is absent (forced), or between the birth and the
\* end of a grace period still running when the object disappears.
ClusterDelete(n) ==
    /\ Current(n) # 0
    /\ LET u == UidOf(n, Current(n))
       IN  \E dts \in {Zero} \cup (truth[u].born .. (now + MaxGrace) \cap Instant) :
              truth' = [truth EXCEPT ![u].gone = now, ![u].deletion = dts]
    /\ UNCHANGED <<lifecycleVars, made, cache, seen, pending, restarts>>

-----------------------------------------------------------------------------
(* The informer (external).                                                *)

Notify(n, i, event) ==
    /\ Room(n)
    /\ cache' = [cache EXCEPT ![n] = i]
    /\ pending' = [pending EXCEPT ![n] = Append(@, event)]
    /\ UNCHANGED <<lifecycleVars, made, truth, restarts>>

\* The watch delivers the next creation or deletion of the name, in order.
WatchEvent(n) ==
    \/ /\ cache[n] = 0 /\ seen[n] < made[n]
       /\ seen' = [seen EXCEPT ![n] = @ + 1]
       /\ Notify(n, seen[n] + 1, Upsert(UidOf(n, seen[n] + 1)))
    \/ /\ cache[n] # 0 /\ ~ Exists(UidOf(n, cache[n]))
       /\ UNCHANGED seen
       /\ Notify(n, 0, Delete(UidOf(n, cache[n]), truth[UidOf(n, cache[n])].deletion))

\* A relist jumps to the current state. The last known state of an object that
\* vanished may predate its deletion time stamp.
Relist(n) ==
    /\ seen' = [seen EXCEPT ![n] = made[n]]
    /\ \/ /\ Current(n) \notin {0, cache[n]}
          /\ Notify(n, Current(n), Upsert(UidOf(n, Current(n))))
       \/ /\ Current(n) = 0 /\ cache[n] # 0
          /\ \E dts \in {Zero, truth[UidOf(n, cache[n])].deletion} :
                Notify(n, 0, Delete(UidOf(n, cache[n]), dts))

Resync(n) ==
    /\ cache[n] # 0
    /\ UNCHANGED seen
    /\ Notify(n, cache[n], Upsert(UidOf(n, cache[n])))

-----------------------------------------------------------------------------
(* The handlers.                                                           *)

\* The object's own deletion time stamp, else the time of receipt.
DeletionTime(dts) == IF dts # Zero THEN dts ELSE now

\* The resolution of the role is not modelled: any role may arrive at any call.
UpsertPod(u) ==
    \E role \in Role, state \in {"discovered", "active"} : Observe(u, role, truth[u].born, state)

SlipUnstampedIgnored(u, dts) ==
    IF Alive(u) /\ dts # Zero THEN TerminateInstance(u, dts) ELSE UNCHANGED lifecycleVars

DeletePod(u, dts) ==
    IF Alive(u) THEN TerminateInstance(u, DeletionTime(dts)) ELSE UNCHANGED lifecycleVars

Handle(n) ==
    /\ pending[n] # << >>
    /\ LET event == Head(pending[n])
       IN  \/ event.op = "upsert" /\ UpsertPod(event.uid)
           \/ event.op = "delete" /\ DeletePod(event.uid, event.deletion)
    /\ pending' = [pending EXCEPT ![n] = Tail(@)]
    /\ UNCHANGED <<made, truth, cache, seen, restarts>>

\* The store, the informer and its notifications live in memory only.
Restart ==
    /\ restarts < MaxRestarts
    /\ restarts' = restarts + 1
    /\ rec' = [u \in UID |-> Absent] /\ after' = {} /\ dead' = {}
    /\ cache' = [n \in Name |-> 0]
    /\ seen' = [n \in Name |-> IF Current(n) = 0 THEN made[n] ELSE made[n] - 1]
    /\ pending' = [n \in Name |-> << >>]
    /\ UNCHANGED <<now, made, truth>>

Sweep == GC /\ UNCHANGED watchVars
Tick  == Advance /\ UNCHANGED watchVars

WatchInit ==
    /\ Init
    /\ made = [n \in Name |-> 0] /\ truth = [u \in UID |-> NotMade]
    /\ cache = [n \in Name |-> 0] /\ seen = [n \in Name |-> 0]
    /\ pending = [n \in Name |-> << >>]
    /\ restarts = 0

WatchNext ==
    \/ \E n \in Name : ClusterCreate(n) \/ ClusterDelete(n)
    \/ \E n \in Name : WatchEvent(n) \/ Relist(n) \/ Resync(n) \/ Handle(n)
    \/ Restart \/ Sweep \/ Tick

\* The informer's reflector and the handler goroutine never stop while the
\* process runs; nothing else is promised to happen. The reflector's fairness is
\* strong only because the model bounds the notifications, which are unbounded in
\* the informer: a resync may fill the bound again and again, but never blocks it.
WatchFairness ==
    \A n \in Name : SF_vars(WatchEvent(n) \/ Relist(n)) /\ WF_vars(Handle(n))

WatchSpec     == WatchInit /\ [][WatchNext]_vars
FairWatchSpec == WatchSpec /\ WatchFairness

-----------------------------------------------------------------------------
(* Properties.                                                             *)

\* The cluster says the object was there at that instant.
ReallyThere(u, t) == truth[u].born # Zero /\ truth[u].born =< t
                     /\ (truth[u].gone = Zero \/ t < truth[u].gone)

Settled(n) == pending[n] = << >> /\ cache[n] = Current(n)

\* The store agrees with the cluster about a name: its live record is the
\* current object, which also answers for the present instant.
StoreMatches(n) ==
    LET current == {UidOf(n, i) : i \in {Current(n)} \ {0}}
    IN  /\ {u \in OfName(n) : Alive(u)} = current
        /\ \A u \in current : Lookup(n, now) = u

\* The zero-mis-join gate (audit.go, AuditConsistency and EvaluateGate): on a
\* settled name the audit finds no mis-join, nothing missing and no ghost,
\* whatever deletions were missed, stamped ahead or handled late before.
SettledAudit == \A n \in Name : Settled(n) => StoreMatches(n)

\* The join honeypot (doc 14 section 3.2): a late sample of an instant at which
\* an object really existed, and which its record covers, joins that object and
\* no namesake, older or younger; or it is refused once the record expired. And
\* no sample joins an object born after it: lookup and Observe use the object's
\* own creation time, never the time of receipt.
LateSampleJoinsItsOwn ==
    /\ \A u \in UID, t \in Instant :
          Resident(u) /\ CoversInstant(u, t) /\ ReallyThere(u, t) =>
              Lookup(NameOf[u], t) \in {u} \cup (IF TierOf(u) = "expired" THEN {NoUID} ELSE {})
    /\ \A n \in Name, t \in Instant :
          LET u == Lookup(n, t) IN u # NoUID => truth[u].born # Zero /\ truth[u].born =< t

\* Once the cluster stops changing, the store ends up agreeing with it for good,
\* also when watches broke, events were lost or the process restarted.
EventuallyMatches == \A n \in Name : <>[]StoreMatches(n)

=============================================================================
