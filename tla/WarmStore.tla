------------------------------ MODULE WarmStore ------------------------------
(* The warm tier (internal/qss/warm.go): one append-only segment file, open  *)
(* as .active and sealed under its (start, end) name when its window ends.   *)
(* A store value holds the directory and the process's writer; every         *)
(* operation is an operator from a store to a store.                         *)
EXTENDS Integers, FiniteSets, Sequences, SequencesExt

CONSTANTS
    Stream,            \* stream ids
    SegmentDuration,   \* width of a segment's window
    Retention,         \* age at which a sealed segment is deleted, 0 = never
    None

ASSUME WarmAssumption ==
    /\ SegmentDuration \in Nat \ {0}
    /\ Retention \in Nat
    /\ None \notin Nat

-----------------------------------------------------------------------------
(* Frames.  A frame's payload is opaque to the store.                        *)

RunStart(recv)          == [kind |-> "run", recv |-> recv]
Def(s)                  == [kind |-> "def", stream |-> s]
SampleFrame(s, recv, v) == [kind |-> "sample", stream |-> s, recv |-> recv, value |-> v]
TickFrame(recv, rec)    == [kind |-> "tick", recv |-> recv, record |-> rec]

MaxOf(S) == CHOOSE x \in S : \A y \in S : y <= x

(* The newest receive stamp among some frames; definitions carry none.       *)
NewestRecv(frames) ==
    LET stamped == {i \in DOMAIN frames : frames[i].kind # "def"}
    IN  MaxOf({0} \cup {frames[i].recv : i \in stamped})

-----------------------------------------------------------------------------
(* sealed: (start, end) -> frames.  active: start -> frames, those still in  *)
(* the writer's buffer included, of which the first `synced` of the open     *)
(* segment are known to be on disk; linked: the leftover file also has its  *)
(* sealed name.                                                              *)

NoFiles == [x \in {} |-> <<>>]
EmptyStore ==
    [sealed |-> NoFiles, active |-> NoFiles, synced |-> 0, seg |-> None, lastRecv |-> 0,
     idx |-> {}, runStartPending |-> TRUE, closed |-> FALSE, err |-> FALSE, linked |-> FALSE]

Refuses(st) == st.err \/ st.closed

Without(files, keys) == [k \in DOMAIN files \ keys |-> files[k]]
With(files, k, v)    == [x \in DOMAIN files \cup {k} |-> IF x = k THEN v ELSE files[x]]

SealedName(start, end) == <<start, MaxOf({start, end})>>
OpenName(st) == SealedName(st.seg, st.lastRecv)

(* Sealed segments that ended more than Retention before the one just sealed.*)
Outlived(st, end) ==
    IF Retention = 0 THEN {} ELSE {n \in DOMAIN st.sealed : n[2] < end - Retention}

(* A sealed segment is never replaced: a name that is taken latches an error.*)
SealLocked(st) ==
    IF st.seg = None \/ st.err THEN st
    ELSE LET name  == OpenName(st)
             taken == name \in DOMAIN st.sealed
             all   == With(st.sealed, name, st.active[st.seg])
         IN  IF taken
             THEN [st EXCEPT !.err = TRUE, !.synced = Len(st.active[st.seg])]
             ELSE [st EXCEPT !.sealed = Without(all, Outlived([st EXCEPT !.sealed = all], name[2])),
                             !.active = Without(st.active, {st.seg}),
                             !.synced = 0, !.seg = None]

(* Windows are aligned.                                                      *)
WindowStart(recv)   == recv - (recv % SegmentDuration)

(* A slip: the stream index of the previous segment is kept.                 *)
SlipKeepsIndex(st, recv) ==
    [st EXCEPT !.active = With(@, WindowStart(recv), IF st.runStartPending THEN <<RunStart(recv)>> ELSE <<>>),
               !.synced = 0, !.seg = WindowStart(recv), !.lastRecv = recv, !.runStartPending = FALSE]

OpenSegment(st, recv) ==
    [st EXCEPT !.active = With(@, WindowStart(recv), IF st.runStartPending THEN <<RunStart(recv)>> ELSE <<>>),
               !.synced = 0, !.seg = WindowStart(recv), !.lastRecv = recv,
               !.idx = {}, !.runStartPending = FALSE]

Rolls(st, recv) == st.seg # None /\ recv - st.seg >= SegmentDuration

EnsureSegment(st, recv) ==
    LET st1 == IF Rolls(st, recv) THEN SealLocked(st) ELSE st
    IN  IF Refuses(st1) \/ st1.seg # None THEN st1 ELSE OpenSegment(st1, recv)

Written(st, frames, recv) ==
    [st EXCEPT !.active[st.seg] = @ \o frames, !.lastRecv = MaxOf({@, recv})]

(* One sample, preceded by its stream's definition the first time the        *)
(* stream appears in the segment.                                            *)
AppendSample(st, s, recv, v) ==
    IF Refuses(st) THEN st
    ELSE LET e   == EnsureSegment(st, recv)
             def == IF s \in e.idx THEN <<>> ELSE <<Def(s)>>
         IN  IF Refuses(e) THEN e
             ELSE Written([e EXCEPT !.idx = @ \cup {s}], def \o <<SampleFrame(s, recv, v)>>, recv)

Tick(st, recv, rec) ==
    IF Refuses(st) THEN st
    ELSE LET e == EnsureSegment(st, recv)
         IN  IF Refuses(e) THEN e ELSE Written(e, <<TickFrame(recv, rec)>>, recv)

Sync(st) ==
    IF st.seg = None \/ st.err THEN st ELSE [st EXCEPT !.synced = Len(st.active[st.seg])]

Close(st) ==
    IF st.closed THEN st ELSE [SealLocked(st) EXCEPT !.closed = TRUE]

(* A write to the open file fails: the error is latched and every later      *)
(* operation returns it.  The buffered writer keeps the error too, so that   *)
(* Close cannot seal what it holds.                                          *)
Latch(st) == [st EXCEPT !.err = TRUE]

-----------------------------------------------------------------------------
(* Crash and recovery.                                                       *)

(* The directory left when n frames of the open segment reached the disk.    *)
Dead(st, n) ==
    [EmptyStore EXCEPT
        !.sealed = st.sealed,
        !.active = IF st.seg = None THEN st.active ELSE With(st.active, st.seg, SubSeq(st.active[st.seg], 1, n)),
        !.synced = n]

CanSurvive(st) == IF st.seg = None THEN {0} ELSE st.synced..Len(st.active[st.seg])

(* The process dies between os.Link and os.Remove of sealRename.             *)
DeadWhileSealing(st) ==
    [Dead(st, Len(st.active[st.seg])) EXCEPT
        !.sealed = With(@, OpenName(st), st.active[st.seg]),
        !.synced = 0, !.linked = TRUE]

(* OpenWarm: a leftover file with a whole frame is sealed under the name its *)
(* frames give, any other is deleted; a taken name refuses the whole open.   *)
(* A slip would delete every leftover file.                                 *)
SlipNoRecovery(st)   == {}
Leftover(st)         == {s \in DOMAIN st.active : st.active[s] # <<>>}
RecoveredName(st, s) == SealedName(s, NewestRecv(st.active[s]))
Refused(st)          == \E s \in Leftover(st) : RecoveredName(st, s) \in DOMAIN st.sealed

Recovered(st) ==
    LET names == {RecoveredName(st, s) : s \in Leftover(st)}
    IN  [EmptyStore EXCEPT !.sealed = [n \in DOMAIN st.sealed \cup names |->
            IF n \in names THEN st.active[n[1]] ELSE st.sealed[n]]]

-----------------------------------------------------------------------------
(* Reading.                                                                  *)

(* Sealed segments in the order replay reads them: by start, then by end.    *)
Precedes(a, b) == a[1] < b[1] \/ (a[1] = b[1] /\ a[2] < b[2])

ListSegments(st) ==
    LET names == DOMAIN st.sealed IN
    [i \in 1..Cardinality(names) |->
        CHOOSE n \in names : Cardinality({m \in names : Precedes(m, n)}) = i - 1]

SealedFrames(st) ==
    LET names == ListSegments(st) IN FlattenSeq([i \in DOMAIN names |-> st.sealed[names[i]]])

(* The frames a caller wrote: definitions are the store's own.               *)
Entries(frames) ==
    LET entries[q \in {frames}] ==
            LET kept[i \in 0..Len(q)] ==
                    IF i = 0 THEN <<>>
                    ELSE IF q[i].kind = "def" THEN kept[i - 1] ELSE Append(kept[i - 1], q[i])
            IN  kept[Len(q)]
    IN  entries[frames]

(* The log of entries, for the promise in DurableLog.  A linked file is in   *)
(* it once.                                                                  *)
OpenFrames(st) ==
    IF DOMAIN st.active = {} \/ st.linked THEN <<>>
    ELSE st.active[CHOOSE s \in DOMAIN st.active : TRUE]

EntryLog(st) == Entries(SealedFrames(st) \o OpenFrames(st))
VolatileEntries(st) ==
    Len(Entries(SubSeq(OpenFrames(st), st.synced + 1, Len(OpenFrames(st)))))
=============================================================================
