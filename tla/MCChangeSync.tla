---------------------------- MODULE MCChangeSync ----------------------------
EXTENDS ChangeSync

SyncSymmetry == Permutations(Writers)
=============================================================================
