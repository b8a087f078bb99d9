---------------------------- MODULE MCSharedMutex ----------------------------
EXTENDS SharedMutex, TLC

\* The workers are interchangeable.
Symmetry == Permutations(Worker)

OneMutex == [c \in Cv |-> "m_mtx"]
=============================================================================
