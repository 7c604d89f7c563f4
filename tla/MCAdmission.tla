----------------------------- MODULE MCAdmission -----------------------------
(* Small hosts for TLC: connections are interchangeable, and so are modes  *)
(* and baked keys.                                                         *)
EXTENDS Admission, TLC

Symmetry == Permutations(Sessions) \cup Permutations(Modes) \cup Permutations(Bakes)
=============================================================================
