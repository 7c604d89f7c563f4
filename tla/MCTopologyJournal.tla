-------------------------- MODULE MCTopologyJournal --------------------------
(* TLC instances of TopologyJournal: sessions and heads are interchangeable.*)
EXTENDS TopologyJournal, TLC

Symmetry == Permutations(Sessions) \cup Permutations(Heads)
=============================================================================
