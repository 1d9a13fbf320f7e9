----------------------------- MODULE RequestBoard -----------------------------
(***************************************************************************)
(* What the indexer's entity fetcher promises to the account indexers that *)
(* ask it for entities, with none of its machinery: a request is opened    *)
(* with the identifiers it wants, it may be answered only once every one   *)
(* of them is known, and it is closed by whoever consumed the answer.      *)
(* Entities, once known, stay known.                                       *)
(*                                                                         *)
(* IndexerEntityFetcher implements this specification.                     *)
(***************************************************************************)
CONSTANTS
  Nonce,      (* the requests, named by the nonce they are given           *)
  Id          (* the entities                                              *)

VARIABLES
  status,     (* how far each request is                                   *)
  wanted,     (* the entities each open request asked for                  *)
  known       (* the entities whose content the indexer holds              *)

boardVars == <<status, wanted, known>>

Status == {"new", "open", "complete", "gone"}

BoardInit ==
  /\ status = [n \in Nonce |-> "new"]
  /\ wanted = [n \in Nonce |-> {}]
  /\ known = {}

(* A request that wants nothing is answered as it is opened. *)
Open(n, W) ==
  /\ status[n] = "new"
  /\ status' = [status EXCEPT ![n] = IF W = {} THEN "complete" ELSE "open"]
  /\ wanted' = [wanted EXCEPT ![n] = W]
  /\ UNCHANGED known

Learn(S) ==
  /\ known' = known \cup S
  /\ UNCHANGED <<status, wanted>>

Complete(n) ==
  /\ status[n] = "open"
  /\ wanted[n] \subseteq known
  /\ status' = [status EXCEPT ![n] = "complete"]
  /\ UNCHANGED <<wanted, known>>

Close(n) ==
  /\ status[n] = "complete"
  /\ status' = [status EXCEPT ![n] = "gone"]
  /\ UNCHANGED <<wanted, known>>

BoardNext ==
  \/ \E n \in Nonce :
       \/ \E W \in SUBSET Id : Open(n, W)
       \/ Complete(n)
       \/ Close(n)
  \/ \E S \in SUBSET Id : Learn(S)

BoardSpec == BoardInit /\ [][BoardNext]_boardVars
=============================================================================
