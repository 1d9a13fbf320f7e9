----------------------------- MODULE MCFetcherPool -----------------------------
EXTENDS FetcherPool, TLC

CONSTANTS a, b, i

OnePool == {"history"}
One == [p \in OnePool |-> 1]
Two == [p \in OnePool |-> 2]
=============================================================================
