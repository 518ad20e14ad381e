------------------------------- MODULE MCLogin --------------------------------
(* A tick is 15 minutes; the refresh token's 7 days become 4 ticks.          *)
EXTENDS Login, TLC

Symmetry == Permutations(Workers) \cup Permutations(Passwords)
                \cup Permutations(Links)
=============================================================================
