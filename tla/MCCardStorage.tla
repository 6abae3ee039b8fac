--------------------------- MODULE MCCardStorage ---------------------------
\* Instances of CardStorage: every sequence of chunks is a program.
EXTENDS CardStorage, TLC

MCProgram == UNION {[1..n -> Chunk] : n \in 1..NumBlocks}

\* A digest without collisions.
MCDigest == [c \in Contents |-> c]

Symmetry == Permutations(Cli)
=============================================================================
