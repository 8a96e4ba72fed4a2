---------------------------- MODULE MCInvocations ----------------------------
EXTENDS Invocations, TLC

\* Clients and records are interchangeable; the receivers' indices are not.
Symmetry == Permutations(Clients) \cup Permutations(Invs)
==============================================================================
