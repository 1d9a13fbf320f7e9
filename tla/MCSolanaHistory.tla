---------------------------- MODULE MCSolanaHistory ----------------------------
EXTENDS SolanaHistory

OneFetcher == {"account"}
TwoASlot == [i \in Position |-> (i + 1) \div 2]
=============================================================================
