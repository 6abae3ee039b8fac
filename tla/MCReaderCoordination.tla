----------------------- MODULE MCReaderCoordination -----------------------
(* Instances of ReaderCoordination for TLC. *)
EXTENDS ReaderCoordination, TLC

\* Commands are interchangeable, and so are pids (safety runs only).
Symmetry == Permutations(Cli) \cup Permutations(Pid)
=============================================================================
