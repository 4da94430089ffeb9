------------------------------- MODULE MCDhcp -------------------------------
(* Small instances of DhcpServer for TLC.                                  *)
EXTENDS DhcpServer, TLC

\* Clients are interchangeable.
Symmetry == Permutations(Clients)
=============================================================================
