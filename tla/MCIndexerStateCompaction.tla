----------------------- MODULE MCIndexerStateCompaction -----------------------
EXTENDS IndexerStateCompaction, TLC

MergerSymmetry == Permutations(Merger)
=============================================================================
