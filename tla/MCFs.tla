-------------------------------- MODULE MCFs --------------------------------
EXTENDS Fs

\* The directory entries are interchangeable.
Symmetry == Permutations(Files)

\* The properties of the passing run say nothing once old words of a block are
\* read as pointers, and stale stays TRUE: what follows need not be explored.
Cleared == ~stale
=============================================================================
