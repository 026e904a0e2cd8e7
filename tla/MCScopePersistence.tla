------------------------- MODULE MCScopePersistence -------------------------
(* The instance of ScopePersistence that TLC checks. *)
EXTENDS ScopePersistence, TLC

\* The goroutines run the same code and are told apart by nothing else.
SaverSymmetry == Permutations(Savers)
=============================================================================
