----------------------------- MODULE MCJobQueue -----------------------------
(* Instances of JobQueue for TLC. *)
EXTENDS JobQueue, TLC

CONSTANTS j1, j2, p1, p2

MCTwoLevels  == {3, 8}     \* the last high and the first low priority
MCOneLevel   == {5}

Permuted == Permutations(Procs)
=============================================================================
