--------------------------- MODULE MCWorkerQueue ---------------------------
EXTENDS WorkerQueue, TLC

\* Tasks are alike, and so are consumers.
Symmetry == Permutations(Tasks) \cup Permutations(Consumers)
============================================================================
