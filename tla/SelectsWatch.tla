----------------------------- MODULE SelectsWatch -----------------------------
(***************************************************************************)
(* The selects edges (service -> pod) of edges_watch.go: two handler       *)
(* goroutines, one for Services and one for EndpointSlices, recompute the  *)
(* whole out-set of a service from the listers' caches. Each reads the     *)
(* clock and the caches first and reconciles the edge store afterwards, so *)
(* the other one, and the informers, may act in between.                   *)
(*                                                                         *)
(* One service name, deleted and created again under new UIDs. External,   *)
(* modelled from how the handlers use it: the cluster, and the informers   *)
(* (a cache, and notifications of it handled later, in order).             *)
(***************************************************************************)
EXTENDS EdgeStore, Sequences

CONSTANTS
    Incarnation,    \* the sequence of service CEIs the cluster gives the name
    Pod,            \* pod CEIs
    Slice,          \* the EndpointSlices labelled with the service's name
    MaxChanges,     \* bound on the changes of the slices
    MaxPending,     \* bound on the notifications waiting for a handler
    MaxHandling     \* how long a handler may take between reading and writing

ASSUME SelectsAssumption ==
    /\ Incarnation \in Seq(CEI) /\ Pod \subseteq CEI
    /\ Edge = [type : {"selects"}, from : {Incarnation[i] : i \in 1 .. Len(Incarnation)}, to : Pod]
    /\ MaxChanges \in Nat /\ MaxPending \in Nat \ {0} /\ MaxHandling \in Nat \ {0}
    /\ MaxTime > 1

VARIABLES
    made,       \* how many incarnations of the service the cluster has made
    service,    \* the incarnation that exists in the cluster, 0 for none
    slices,     \* the pods each slice lists in the cluster
    changes,
    serviceSeen,\* the service lister: an incarnation or 0
    slicesSeen, \* the slice lister
    serviceQ,   \* service notifications not yet handled
    sliceQ,     \* how many slice notifications are not yet handled
    task        \* what each handler has read and not yet written

clusterVars == <<made, service, slices, changes>>
cacheVars   == <<serviceSeen, slicesSeen>>
queueVars   == <<serviceQ, sliceQ>>
vars == <<edgeVars, clusterVars, cacheVars, queueVars, task>>

Handler == {"service", "slice"}
Idle    == [op |-> "idle", at |-> Zero, svc |-> 0, pods |-> {}]
Busy(h) == task[h] # Idle

\* The last tick is the quiet one: the cluster has stopped changing and the
\* informers and handlers have caught up before it. The clock is unbounded in the program, so a
\* tick after the last change always comes; the bounded clock must not miss it.
Quiet == MaxTime - 1

Upsert(i) == [op |-> "upsert", svc |-> i]
Delete(i) == [op |-> "delete", svc |-> i]

-----------------------------------------------------------------------------
(* The cluster (external).                                                 *)

ServiceChange ==
    /\ now < Quiet
    /\ \/ /\ service = 0 /\ made < Len(Incarnation)
          /\ made' = made + 1 /\ service' = made + 1
       \/ service # 0 /\ service' = 0 /\ UNCHANGED made
    /\ UNCHANGED <<edgeVars, slices, changes, cacheVars, queueVars, task>>

\* The EndpointSlice controller adds, drops or moves endpoints one slice at a time.
SliceChange(s) ==
    /\ now < Quiet /\ changes < MaxChanges
    /\ changes' = changes + 1
    /\ \E P \in SUBSET Pod : P # slices[s] /\ slices' = [slices EXCEPT ![s] = P]
    /\ UNCHANGED <<edgeVars, made, service, cacheVars, queueVars, task>>

-----------------------------------------------------------------------------
(* The informers (external).                                               *)

NotifyService(i, event) ==
    /\ Len(serviceQ) < MaxPending
    /\ serviceSeen' = i
    /\ serviceQ' = Append(serviceQ, event)
    /\ UNCHANGED <<edgeVars, clusterVars, slicesSeen, sliceQ, task>>

\* A deletion is notified as such, or missed when the watch broke and the name
\* was taken again before the relist: then only the new object is notified.
DeliverService ==
    \/ serviceSeen # 0 /\ service # serviceSeen /\ NotifyService(0, Delete(serviceSeen))
    \/ service \notin {0, serviceSeen} /\ NotifyService(service, Upsert(service))

DeliverSlice(s) ==
    /\ slices[s] # slicesSeen[s]
    /\ sliceQ < MaxPending
    /\ slicesSeen' = [slicesSeen EXCEPT ![s] = slices[s]]
    /\ sliceQ' = sliceQ + 1
    /\ UNCHANGED <<edgeVars, clusterVars, serviceSeen, serviceQ, task>>

\* The resync repeats what is in the caches.
ResyncService == serviceSeen # 0 /\ NotifyService(serviceSeen, Upsert(serviceSeen))

ResyncSlices ==
    /\ \E s \in Slice : slicesSeen[s] # {}
    /\ sliceQ < MaxPending
    /\ sliceQ' = sliceQ + 1
    /\ UNCHANGED <<edgeVars, clusterVars, cacheVars, serviceQ, task>>

-----------------------------------------------------------------------------
(* The handlers.                                                           *)

HasWork(h) == IF h = "service" THEN serviceQ # << >> /\ Head(serviceQ).op = "upsert"
              ELSE sliceQ > 0

Done(h) ==
    /\ serviceQ' = IF h = "service" THEN Tail(serviceQ) ELSE serviceQ
    /\ sliceQ' = IF h = "slice" THEN sliceQ - 1 ELSE sliceQ

SlipOneSlice == slicesSeen[CHOOSE s \in Slice : TRUE]

\* The union over ALL slices of the service: one slice is not authoritative.
Listed == UNION {slicesSeen[s] : s \in Slice}

\* reconcileService, first half: a service not in the lister ends it.
ReconcileRead(h) ==
    /\ ~ Busy(h) /\ HasWork(h)
    /\ IF serviceSeen = 0
       THEN Done(h) /\ UNCHANGED task
       ELSE task' = [task EXCEPT ![h] = [op |-> "reconcile", at |-> now, svc |-> serviceSeen, pods |-> Listed]]
            /\ UNCHANGED queueVars
    /\ UNCHANGED <<edgeVars, clusterVars, cacheVars>>

\* Second half: one call of the store, under its lock.
ReconcileWrite(h) ==
    /\ task[h].op = "reconcile"
    /\ ReconcileOut("selects", Incarnation[task[h].svc], task[h].pods, task[h].at)
    /\ task' = [task EXCEPT ![h] = Idle]
    /\ Done(h)
    /\ UNCHANGED <<clusterVars, cacheVars>>

\* deleteService: the time is read, and then the store called.
DeleteServiceRead ==
    /\ ~ Busy("service")
    /\ serviceQ # << >> /\ Head(serviceQ).op = "delete"
    /\ task' = [task EXCEPT !["service"] = [op |-> "retract", at |-> now, svc |-> Head(serviceQ).svc, pods |-> {}]]
    /\ UNCHANGED <<edgeVars, clusterVars, cacheVars, queueVars>>

DeleteService ==
    /\ task["service"].op = "retract"
    /\ RetractAllFrom(Incarnation[task["service"].svc], task["service"].at)
    /\ task' = [task EXCEPT !["service"] = Idle]
    /\ Done("service")
    /\ UNCHANGED <<clusterVars, cacheVars>>

Tick ==
    /\ \A h \in Handler : Busy(h) => now < task[h].at + MaxHandling
    /\ now = Quiet => serviceSeen = service /\ slicesSeen = slices
                      /\ \A h \in Handler : task[h].op = "reconcile" =>
                              task[h].svc = serviceSeen /\ task[h].pods = Listed
    /\ Advance
    /\ UNCHANGED <<clusterVars, cacheVars, queueVars, task>>

Sweep == GC /\ UNCHANGED <<clusterVars, cacheVars, queueVars, task>>

SelectsInit ==
    /\ Init
    /\ made = 0 /\ service = 0 /\ slices = [s \in Slice |-> {}] /\ changes = 0
    /\ serviceSeen = 0 /\ slicesSeen = [s \in Slice |-> {}]
    /\ serviceQ = << >> /\ sliceQ = 0
    /\ task = [h \in Handler |-> Idle]

SelectsNext ==
    \/ ServiceChange \/ DeliverService \/ ResyncService \/ ResyncSlices
    \/ \E s \in Slice : SliceChange(s) \/ DeliverSlice(s)
    \/ \E h \in Handler : ReconcileRead(h) \/ ReconcileWrite(h)
    \/ DeleteServiceRead \/ DeleteService \/ Tick \/ Sweep

\* The handlers and the reflectors never stop, the resync timer of the informers
\* fires again and again (informer.go: its period drives edge confirmation), the
\* clock moves. Strong for the informers, whose room for notifications is bounded
\* in the model only.
SelectsFairness ==
    /\ \A h \in Handler : WF_vars(ReconcileRead(h)) /\ WF_vars(ReconcileWrite(h))
    /\ WF_vars(DeleteServiceRead) /\ WF_vars(DeleteService) /\ SF_vars(Tick)
    /\ SF_vars(DeliverService) /\ \A s \in Slice : SF_vars(DeliverSlice(s))
    /\ SF_vars(ResyncService)

SelectsSpec     == SelectsInit /\ [][SelectsNext]_vars
FairSelectsSpec == SelectsSpec /\ SelectsFairness

-----------------------------------------------------------------------------
(* Properties.                                                             *)

SelectsEdge(i, p) == [type |-> "selects", from |-> Incarnation[i], to |-> p]

\* Once the cluster is quiet, the live edges of the service are, for good, exactly
\* those to the pods its slices list, whatever the two handlers read and wrote
\* across each other, and across deletions missed or taken in order.
SelectsSettles ==
    <>[](service # 0 => \A p \in Pod :
           Live(edges[SelectsEdge(service, p)]) <=> p \in UNION {slices[s] : s \in Slice})
=============================================================================
