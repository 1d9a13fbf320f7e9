---------------------------- MODULE MCEntityFetcher ----------------------------
EXTENDS EntityFetcher, TLC

CONSTANTS a, i, j

Pools == {"pending", "cache", "fetch"}
SmallChunks == [p \in Pools |-> IF p = "fetch" THEN 1 ELSE 2]
OneByOne == [p \in Pools |-> 1]

TwoCalls == {1, 2}
TwoCallers == <<i, j>>
SameId == <<{a}, {a}>>
=============================================================================
