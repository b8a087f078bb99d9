------------------------------ MODULE MCMutex ------------------------------
EXTENDS Mutex

CONSTANTS a, b, c

\* Two workers share scheduler 1, the third is alone on scheduler 2.
TwoSchedulers == <<<<a, b>>, <<c>>>>
=============================================================================
