----------------------------- MODULE MCUserSearch -----------------------------
EXTENDS UserSearch, TLC

CONSTANTS p1, p2, p3, k1, k2

(* One text finds two people, the other one of them.                       *)
TwoTexts == (k1 :> {p1, p2}) @@ (k2 :> {p2})
=============================================================================
