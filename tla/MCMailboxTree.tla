---------------------------- MODULE MCMailboxTree ----------------------------
EXTENDS MailboxTree, TLC

TreeSymmetry ==
    Permutations(Actors) \cup Permutations(Names) \cup Permutations(Docs)
=============================================================================
