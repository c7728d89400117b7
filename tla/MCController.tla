---------------------------- MODULE MCController ----------------------------
(* Instances of Controller for TLC.                                         *)
EXTENDS Controller, TLC
CONSTANTS s1, s2, s3
TwoSessions == {s1, s2}
ThreeSessions == {s1, s2, s3}
Symmetry == Permutations(Sessions)
=============================================================================
