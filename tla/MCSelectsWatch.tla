--------------------------- MODULE MCSelectsWatch ---------------------------
(* A service made twice, one pod, two slices it can move between.          *)
EXTENDS SelectsWatch

CONSTANTS u1, u2, p1, s1, s2

MCIncarnation == <<u1, u2>>
MCPod         == {p1}
MCSlice       == {s1, s2}
MCCEI         == {u1, u2, p1}
MCEdge        == [type : {"selects"}, from : {u1, u2}, to : {p1}]
MCBudget      == [t \in {"selects"} |-> 1]
=============================================================================
