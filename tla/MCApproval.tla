------------------------------ MODULE MCApproval ------------------------------
(* A small console for TLC: connections, devices and the requests of a     *)
(* console are interchangeable.                                            *)
EXTENDS Approval, TLC

Symmetry == Permutations(Conns) \cup Permutations(Operators) \cup Permutations(Devices)
==============================================================================
