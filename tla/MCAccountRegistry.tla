--------------------------- MODULE MCAccountRegistry ---------------------------
EXTENDS AccountRegistry, TLC
CONSTANTS p1, f1, f2, i1, a1, a2

(* Each account prefers another fetcher.                                    *)
MCPrefers == (a1 :> <<f2, f1, i1>>) @@ (a2 :> <<f1, f2, i1>>)
================================================================================
