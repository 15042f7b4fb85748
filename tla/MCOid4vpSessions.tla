------------------------- MODULE MCOid4vpSessions -------------------------
EXTENDS Oid4vpSessions, TLC

Symmetry ==
  Permutations(Instances) \union Permutations(Responses)
    \union Permutations(SessionIds) \union Permutations(Claims)

=============================================================================
