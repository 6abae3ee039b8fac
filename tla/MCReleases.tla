----------------------------- MODULE MCReleases -----------------------------
(* Instances of Releases for TLC. *)
EXTENDS Releases, TLC

\* Revisions are interchangeable, and so are jobs.
Symmetry == Permutations(Commit) \cup Permutations(Job)
=============================================================================
