------------------------------ MODULE MCFsServ ------------------------------
\* FsServ for TLC: clients and files are interchangeable.
EXTENDS FsServ, TLC

Symmetry == Permutations(Clients) \cup Permutations(Files)
=============================================================================
