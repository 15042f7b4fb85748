---------------------------- MODULE MCKeyManager ----------------------------
EXTENDS KeyManager, TLC

Symmetry == Permutations(Kids) \union Permutations(Rotations)

=============================================================================
