----------------------------- MODULE MCLocalView -----------------------------
EXTENDS LocalView, TLC

CONSTANTS k1, k2, w1, f1, f2, l1, l2

(* One device and another write the first document, the second is there    *)
(* from the beginning.                                                     *)
Places == (w1 :> k1) @@ (f1 :> k1) @@ (f2 :> k2)
=============================================================================
