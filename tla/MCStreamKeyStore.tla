--------------------------- MODULE MCStreamKeyStore ---------------------------
EXTENDS StreamKeyStore, TLC

\* Accounts, keys and handlers are each interchangeable.
Symmetry == Permutations(Accounts) \cup Permutations(Keys)
              \cup Permutations(Handlers)
==============================================================================
