--------------------------- MODULE MCTcpTransport ---------------------------
(* Instances of TcpTransport for TLC.                                        *)
EXTENDS TcpImplementsCoordinator, TLC

\* Writers are interchangeable, and so are connection names.
Symmetry == Permutations(Writers) \cup Permutations(Conns)
=============================================================================
