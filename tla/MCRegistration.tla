--------------------------- MODULE MCRegistration ---------------------------
\* Registration for two callers and two requests; either may trade places.
EXTENDS Registration, TLC

Symmetry == Permutations(Clients) \cup Permutations(Requests)
=============================================================================
