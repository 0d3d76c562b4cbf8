------------------------- MODULE MCCorpusLifecycle -------------------------
(* Instances of CorpusLifecycle for TLC. *)
EXTENDS CorpusLifecycle, TLC

Symmetry == Permutations(Operator) \cup Permutations(Version)
=============================================================================
