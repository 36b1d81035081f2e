------------------------------ MODULE MCCapture ------------------------------
(* Two streams and two sets of bars, rings of one sample, a window of two    *)
(* instants and one restart.                                                 *)
EXTENDS Capture, TLC

CONSTANTS s1, s2, b1, b2

MCStream == {s1, s2}
MCBars   == {b1, b2}

WholeCycles == {MCStream}

(* Neither the streams nor the bars are told apart by anything but equality. *)
CaptureSymmetry == Permutations(MCStream) \cup Permutations(MCBars)
=============================================================================
