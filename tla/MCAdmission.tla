----------------------------- MODULE MCAdmission -----------------------------
EXTENDS Admission, TLC

\* The relays behind a firewall are interchangeable, and so are the viewers.
Symmetry == Permutations(Firewalled) \cup Permutations(Viewers)
==============================================================================
