---------------------------- MODULE MCHostServer ----------------------------
\* Instances of HostServer; the connections are alike.
EXTENDS HostServer, TLC

Symmetry == Permutations(Conn)
=============================================================================
