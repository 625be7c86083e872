--------------------------- MODULE MCMessageStore ---------------------------
(* Small instances of MessageStore.  Threads are interchangeable.            *)
EXTENDS MessageStore, TLC

CONSTANTS w1, w2, a1, a2, h1, h2

WorkerSymmetry == Permutations(Workers)
============================================================================
