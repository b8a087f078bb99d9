---------------------------- MODULE MCTimedMutex ----------------------------
EXTENDS TimedMutex

OneMutex == [c \in Cv |-> "m_mtx"]
=============================================================================
