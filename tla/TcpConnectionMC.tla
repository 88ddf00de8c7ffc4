--------------------------- MODULE TcpConnectionMC ---------------------------
(* TcpConnection on small instances.                                       *)
EXTENDS TcpConnection, TLC

\* Messages are interchangeable.
Symmetry == Permutations(Messages)
=============================================================================
