----------------------------- MODULE DurableLog -----------------------------
(* What the warm tier promises its callers: one log of entries in the order *)
(* they were appended, of which a crash takes away no more than the newest, *)
(* volatile ones, and which forgets only its oldest entries.  Module        *)
(* Capture implements it.                                                   *)
EXTENDS Integers, Sequences, SequencesExt

VARIABLES
    log,       \* the entries kept, oldest first
    volatile   \* how many of the newest a crash can still take

logVars == <<log, volatile>>

LogInit == log = <<>> /\ volatile = 0

(* A crash keeps the durable entries and any number of those after them.    *)
Lose ==
    \E old \in {log}, new \in {log'} :
        /\ IsPrefix(new, old)
        /\ Len(old) - Len(new) <= volatile
        /\ volatile' = 0

(* At most one entry is appended, with a run boundary before it when it is  *)
(* the first of a run; older entries turn durable and may be forgotten.     *)
Extend ==
    \E old \in {log}, new \in {log'} : \E forgotten \in 0..(Len(old) - volatile) :
        LET added == Len(new) - (Len(old) - forgotten) IN
        /\ added \in 0..2
        /\ IsPrefix(SubSeq(old, forgotten + 1, Len(old)), new)
        /\ volatile' \in 0..(volatile + added)

LogNext == Lose \/ Extend

LogSpec == LogInit /\ [][LogNext]_logVars
=============================================================================
