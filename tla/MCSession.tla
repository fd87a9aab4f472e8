------------------------------ MODULE MCSession ------------------------------
(* Session for TLC: two sign-ups may meet at one of three accounts.         *)
EXTENDS Session

CONSTANTS a1, a2, a3, s1, s2
=============================================================================
