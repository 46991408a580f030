---------------------------- MODULE MCTokenService ----------------------------
EXTENDS TokenService, TLC

MCGrants == {{"admin"}, {"read"}}
Symmetry == Permutations(Tokens) \cup Permutations(Requests)
==============================================================================
