------------------------ MODULE MCIndexerEntityFetcher ------------------------
EXTENDS IndexerEntityFetcher

(* A date range whose filter accepts every entity, whatever is listed. *)
WideOffers == {[lists |-> S, accepts |-> Id] : S \in SUBSET Id}
=============================================================================
