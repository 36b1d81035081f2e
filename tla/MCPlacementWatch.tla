-------------------------- MODULE MCPlacementWatch --------------------------
(* One pod on a node registered twice, with a claim; two pods of one name   *)
(* on one node.                                                            *)
EXTENDS PlacementWatch

CONSTANTS w1, w2, n1, n2, c1

EdgesOf(P, N, C) == [type : {"runs-on"}, from : P, to : N]
                        \cup [type : {"mounts"}, from : P, to : C]

MCType        == {"runs-on", "mounts"}
MCCEI         == {w1, w2, n1, n2, c1}
MCBudget      == [t \in MCType |-> 1]
OnePod        == <<w1>>
TwoPods       == <<w1, w2>>
OneNode       == <<n1>>
TwoNodes      == <<n1, n2>>
MovingEdges   == EdgesOf({w1}, {n1, n2}, {c1})
ReplacedEdges == EdgesOf({w1, w2}, {n1}, {})
=============================================================================
