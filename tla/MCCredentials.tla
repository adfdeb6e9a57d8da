--------------------------- MODULE MCCredentials ---------------------------
EXTENDS Credentials, TLC

\* Request slots are interchangeable.
Symmetry == Permutations(Requests)
=============================================================================
