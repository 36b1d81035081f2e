---------------------------- MODULE MCUnexplained ----------------------------
(* A pod with three metrics and its node with one; a match of the pod that   *)
(* consumes the node's metric, one of a single metric and one of a pair.     *)
EXTENDS Unexplained

CONSTANTS pod, node, cpu, mem, psi

MCScope  == {pod, node}
MCMetric == {cpu, mem, psi}
MCKindOf == [s \in MCScope |-> IF s = pod THEN "Pod" ELSE "Node"]

Cascade   == [phenomenon |-> 1, covers |-> {<<pod, cpu>>, <<node, psi>>}]
Memory    == [phenomenon |-> 2, covers |-> {<<pod, mem>>}]
Starved == [phenomenon |-> 3, covers |-> {<<pod, cpu>>, <<pod, mem>>}]
MCMatch == {Cascade, Memory, Starved}

MCLoudness ==
    {[s \in MCScope |-> IF s = pod THEN p ELSE {}] : p \in {{}, {cpu}, {cpu, mem}, {mem, psi}}}
    \cup {[s \in MCScope |-> IF s = pod THEN p ELSE {psi}] : p \in {{}, {cpu, mem}}}
=============================================================================
