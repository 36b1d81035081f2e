------------------------------- MODULE Capture -------------------------------
(* The capture of a run into a replay bundle (internal/replay/capture.go,    *)
(* the scrape and evaluation loops of cmd/obsd/main.go), crashes and         *)
(* restarts into the same directory, and the replay of the bundle            *)
(* (internal/replay/engine.go).                                              *)
EXTENDS WarmStore

CONSTANTS
    Delivery,      \* the sets of streams a scrape cycle can bring
    Bars,          \* resolved-bar sets a compile can give
    HotCapacity,   \* samples a hot ring holds
    MaxTime, MaxStep, MaxCycles, MaxTicks, MaxRuns, MaxFaults   \* bounds of the model

ASSUME CaptureAssumption ==
    /\ HotCapacity \in Nat \ {0} /\ None \notin Bars
    /\ Delivery \subseteq (SUBSET Stream) \ {{}}
    /\ MaxTime \in Nat /\ MaxTicks \in Nat /\ MaxFaults \in Nat

VARIABLES
    store,      \* the warm tier, on disk and in the process
    barsFiles,  \* epoch -> the bars its bars-<epoch>.json holds
    up, clock,
    rings,      \* hot store: the last samples of each stream
    memory,     \* ticks the cascade and unexplained trackers have observed
    bars,       \* the binder's last compiled result, None before the first
    epoch, barsHash,   \* Capture's bookkeeping
    scrape,     \* the scrape loop: phase, receive stamp, streams to ingest
    tick,       \* the evaluation loop: phase, instant and digest to record
    cycles, ticks, runs, faults   \* counted for the bounds

bundle  == <<store, barsFiles>>
process == <<up, rings, memory, bars, epoch, barsHash, scrape, tick>>
count   == <<cycles, ticks, runs, faults>>
vars    == <<store, barsFiles, clock, process, count>>

-----------------------------------------------------------------------------
(* What an evaluation computes depends on the rings, the bars and what the   *)
(* trackers remember; without a compiled result it is empty.                 *)

NoRings == [s \in Stream |-> <<>>]
View(rs, b, m) ==
    IF b = None THEN [rings |-> NoRings, bars |-> None, memory |-> 0]
    ELSE [rings |-> rs, bars |-> b, memory |-> m]

Observed(m, b) == IF b = None THEN m ELSE m + 1

(* HotStore.Append: a full ring forgets its oldest sample.                   *)
Pushed(rs, s, v) ==
    [rs EXCEPT ![s] = IF Len(@) < HotCapacity THEN @ \o <<v>> ELSE Tail(@) \o <<v>>]

Fault == faults < MaxFaults /\ faults' = faults + 1

(* Time passes between two instants at which the loops read the clock.       *)
Later == {t \in clock..MaxTime : t - clock <= MaxStep}

Idle     == [phase |-> "idle", recv |-> 0, todo |-> {}]
IdleTick == [phase |-> "idle", now |-> 0, digest |-> None]

(* NewCapture continues the bundle at its newest epoch.                      *)
NewestEpoch == MaxOf({0} \cup DOMAIN barsFiles)
HashOf(e)   == IF e = 0 THEN None ELSE barsFiles[e]

Init ==
    /\ store = EmptyStore /\ barsFiles = NoFiles
    /\ clock = 0 /\ up = TRUE
    /\ rings = NoRings /\ memory = 0 /\ bars = None
    /\ epoch = 0 /\ barsHash = None
    /\ scrape = Idle /\ tick = IdleTick
    /\ cycles = 0 /\ ticks = 0 /\ runs = 1 /\ faults = 0

-----------------------------------------------------------------------------
(* The scrape loop: it fetches without the gate, then ingests the cycle      *)
(* under the gate's write side, each sample into the ring and the log.       *)

GateFreeForIngest == tick.phase = "idle"
(* A slip would let a tick start in the middle of a cycle.                   *)
SlipNoGate        == TRUE
GateFreeForTick   == scrape.phase # "ingesting"

Fetch ==
    /\ up /\ scrape.phase = "idle" /\ cycles < MaxCycles
    /\ clock' \in Later
    /\ \E S \in Delivery : scrape' = [phase |-> "fetched", recv |-> clock', todo |-> S]
    /\ cycles' = cycles + 1
    /\ UNCHANGED <<bundle, up, rings, memory, bars, epoch, barsHash, tick, ticks, runs, faults>>

IngestSample(s) ==
    /\ up /\ s \in scrape.todo
    /\ scrape.phase = "ingesting" \/ GateFreeForIngest
    /\ rings' = Pushed(rings, s, scrape.recv)
    /\ store' = AppendSample(store, s, scrape.recv, scrape.recv)
    /\ scrape' = IF scrape.todo = {s} THEN Idle
                 ELSE [scrape EXCEPT !.phase = "ingesting", !.todo = @ \ {s}]
    /\ UNCHANGED <<barsFiles, clock, up, memory, bars, epoch, barsHash, tick, count>>

-----------------------------------------------------------------------------
(* The evaluation loop: a tick holds the gate's read side throughout.        *)

(* compile keeps the last result or replaces it (it gives none as long as    *)
(* the cluster cannot be listed); the trackers then observe.                 *)
TickEvaluate ==
    /\ up /\ tick.phase = "idle" /\ ticks < MaxTicks
    /\ GateFreeForTick
    /\ clock' \in Later
    /\ \E b \in Bars \cup {bars} :
         /\ IF b = None THEN Fault ELSE UNCHANGED faults
         /\ bars' = b
         /\ memory' = Observed(memory, b)
         /\ tick' = [phase |-> "capture", now |-> clock', digest |-> View(rings, b, memory)]
    /\ ticks' = ticks + 1
    /\ UNCHANGED <<bundle, up, rings, epoch, barsHash, scrape, cycles, runs>>

(* SetBars writes a new epoch file only when the bars changed; a tick        *)
(* without a compiled result names epoch 0.                                  *)
NeedsEpoch == bars # None /\ bars # barsHash

TickCapture ==
    /\ up /\ tick.phase = "capture"
    /\ IF NeedsEpoch
       THEN /\ epoch' = epoch + 1
            /\ barsHash' = bars
            /\ barsFiles' = With(barsFiles, epoch + 1, bars)
       ELSE UNCHANGED <<barsFiles, epoch, barsHash>>
    /\ store' = Tick(store, tick.now, [epoch  |-> IF bars = None THEN 0 ELSE epoch',
                                       digest |-> tick.digest])
    /\ tick' = IdleTick
    /\ UNCHANGED <<clock, up, rings, memory, bars, scrape, count>>

(* The bars file cannot be written: this tick is not captured.               *)
TickNotCaptured ==
    /\ up /\ tick.phase = "capture" /\ NeedsEpoch
    /\ Fault
    /\ tick' = IdleTick
    /\ UNCHANGED <<bundle, clock, up, rings, memory, bars, epoch, barsHash, scrape, cycles, ticks, runs>>

-----------------------------------------------------------------------------
(* The syncer, the end of the process, and its restart.                      *)

OnlyStore == UNCHANGED <<barsFiles, clock, process, count>>

FsyncLoop    == up /\ ~store.closed /\ store' = Sync(store) /\ OnlyStore
DiskFails ==
    /\ up /\ store.seg # None /\ ~store.err
    /\ store' = Latch(store) /\ Fault
    /\ UNCHANGED <<barsFiles, clock, process, cycles, ticks, runs>>
CloseCapture == up /\ ~store.closed /\ store' = Close(store) /\ OnlyStore

Down ==
    /\ up' = FALSE
    /\ rings' = NoRings /\ memory' = 0 /\ bars' = None
    /\ epoch' = 0 /\ barsHash' = None
    /\ scrape' = Idle /\ tick' = IdleTick
    /\ UNCHANGED <<barsFiles, clock, count>>

Crash ==
    /\ up
    /\ \E n \in CanSurvive(store) : store' = Dead(store, n)
    /\ Down

CrashWhileSealing ==
    /\ up /\ store.seg # None /\ ~Refuses(store)
    /\ OpenName(store) \notin DOMAIN store.sealed
    /\ store' = DeadWhileSealing(store)
    /\ Down

Restart ==
    /\ ~up /\ runs < MaxRuns
    /\ ~Refused(store)
    /\ store' = Recovered(store)
    /\ up' = TRUE /\ runs' = runs + 1
    /\ epoch' = NewestEpoch /\ barsHash' = HashOf(NewestEpoch)
    /\ UNCHANGED <<barsFiles, clock, rings, memory, bars, scrape, tick, cycles, ticks, faults>>

Next ==
    \/ Fetch \/ (\E s \in Stream : IngestSample(s))
    \/ TickEvaluate \/ TickCapture \/ TickNotCaptured
    \/ FsyncLoop \/ DiskFails \/ CloseCapture
    \/ Crash \/ CrashWhileSealing \/ Restart

Spec == Init /\ [][Next]_vars

-----------------------------------------------------------------------------
(* Replay of the sealed segments: the rings and the trackers restart at a    *)
(* run boundary, and each tick is evaluated again.                           *)

Fresh == [rings |-> NoRings, memory |-> 0, anchored |-> FALSE, ticks |-> {}]

ReplayStep(r, f) ==
    CASE f.kind = "run"    -> [Fresh EXCEPT !.anchored = TRUE, !.ticks = r.ticks]
      [] f.kind = "def"    -> r
      [] f.kind = "sample" -> [r EXCEPT !.rings = Pushed(@, f.stream, f.value)]
      [] f.kind = "tick"   ->
           LET b == HashOf(f.record.epoch)
           IN  [r EXCEPT !.memory = Observed(@, b),
                         !.ticks = @ \cup {[now |-> f.recv, recorded |-> f.record.digest, anchored |-> r.anchored,
                                               replayed |-> View(r.rings, b, r.memory)]}]

ReplayedTicks ==
    LET frames == SealedFrames(store)
        after[i \in 0..Len(frames)] ==
            IF i = 0 THEN Fresh ELSE ReplayStep(after[i - 1], frames[i])
    IN  after[Len(frames)].ticks

-----------------------------------------------------------------------------
(* Types, and the writer's bookkeeping: at most one file is open or left     *)
(* over, and the durable prefix is one of its prefixes.                      *)
CaptureTypeOK ==
    /\ Cardinality(DOMAIN store.active) <= 1
    /\ \A s \in DOMAIN store.active :
         s % SegmentDuration = 0 /\ store.synced \in 0..Len(store.active[s])
    /\ store.seg # None => store.seg \in DOMAIN store.active
    /\ DOMAIN store.active = {} => store.synced = 0
    /\ \A n \in DOMAIN store.sealed : n[1] % SegmentDuration = 0 /\ n[1] <= n[2] /\ n[2] <= MaxTime
    /\ store.idx \subseteq Stream
    /\ rings \in [Stream -> UNION {[1..n -> 0..MaxTime] : n \in 0..HotCapacity}]
    /\ memory \in 0..MaxTicks /\ bars \in Bars \cup {None}
    /\ DOMAIN barsFiles = 1..NewestEpoch
    /\ up => epoch = NewestEpoch

(* A sample's stream is defined before it in its own segment, in every       *)
(* segment a crash or a seal can leave: replay refuses a segment otherwise   *)
(* ("sample references undefined stream index", engine.go).                  *)
Defined(frames) ==
    \A i \in DOMAIN frames : frames[i].kind = "sample" =>
        \E j \in 1..(i - 1) : frames[j].kind = "def" /\ frames[j].stream = frames[i].stream

DefinedBeforeUsed ==
    /\ \A s \in DOMAIN store.active : Defined(store.active[s])
    /\ \A n \in DOMAIN store.sealed : Defined(store.sealed[n])

(* What every crash and seal leaves on disk can be read back.                *)
SegmentsSound == CaptureTypeOK /\ DefinedBeforeUsed

(* The warm tier keeps one log in arrival order through rolls, crashes,      *)
(* recoveries and retention, no sealed segment changes, and a crash takes    *)
(* nothing that was synced.                                                  *)
Log == INSTANCE DurableLog WITH log <- EntryLog(store), volatile <- VolatileEntries(store)

KeepsTheLog == Log!LogSpec

(* Byte-identical replay, of what a tick reads: at every recorded tick whose *)
(* run boundary is still in the bundle, replay has the rings and the bars    *)
(* the evaluation had, whatever crashed, rolled or failed, and its trackers  *)
(* remember the same ticks but for those a write failure kept out.           *)
ReplaySeesWhatTheTickSaw ==
    \A t \in ReplayedTicks : t.anchored =>
        /\ t.replayed.rings = t.recorded.rings /\ t.replayed.bars = t.recorded.bars
        /\ t.recorded.memory - t.replayed.memory \in 0..faults
=============================================================================
