--------------------------- MODULE MCTokenService ---------------------------
\* TokenService with two processes, two tokens and two calls at a time
EXTENDS TokenService, TLC

Symmetry == Permutations(Tokens) \cup Permutations(Calls) \cup Permutations(Processes)
=============================================================================
