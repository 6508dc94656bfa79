----------------------------- MODULE MCJobQueue -----------------------------
(* Small instances of JobQueue for TLC. *)
EXTENDS JobQueue, TLC

\* Every worker advertises every capability.
AllCapable == Workers \X (0..Last)

WorkerSymmetry == Permutations(Workers)
=============================================================================
