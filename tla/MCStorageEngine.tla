-------------------------- MODULE MCStorageEngine --------------------------
(***************************************************************************)
(* Model-checking instance of StorageEngine.  Keys, values and threads are *)
(* model values given in the .cfg files; the bounds are named here.        *)
(***************************************************************************)
EXTENDS StorageEngine, TLC

\* Two timestamps are enough for an older, a newer and an equal version.
MCMaxTs == 2

\* Four appends: two overlapping calls, then two more after a restart.
MCMaxLog == 4

\* Threads and keys are interchangeable, values too.
MCSymmetry == Permutations(Threads) \cup Permutations(Vals)

=============================================================================
