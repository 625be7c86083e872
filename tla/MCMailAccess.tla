---------------------------- MODULE MCMailAccess ----------------------------
EXTENDS MailAccess, TLC

CONSTANTS d1, d2, d3

TwoStored == <<d1, d2>>
DocSymmetry == Permutations(Docs \ ToSet(Initial)) \cup Permutations(Imap)
=============================================================================
