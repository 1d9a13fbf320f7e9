--------------------------- MODULE MCEthereumHistory ---------------------------
EXTENDS EthereumHistory

Fetchers == {"blocks", "account"}
Pooled == {"account"}
TwoAPage == [f \in Fetchers |-> 2]
OneOrTwoPages == [f \in Fetchers |-> IF f = "blocks" THEN 3 ELSE 2]
=============================================================================
