------------------------------- MODULE MCBackups -------------------------------
EXTENDS Backups, TLC
Actors == Permutations(Tick) \union Permutations(Restore) \union Permutations(Policy)
=============================================================================
