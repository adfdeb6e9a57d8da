----------------------------- MODULE MCKeyVault -----------------------------
EXTENDS KeyVault, TLC

\* Request slots, addresses and passwords are interchangeable.
Symmetry == Permutations(Requests) \cup Permutations(Emails)
              \cup Permutations(Passwords)
=============================================================================
