--------------------------- MODULE MCWriteStream ---------------------------
(* An instance of WriteStream for TLC: a chain of two writes, as a message *)
(* makes them, and further writes, of which the server refuses one.        *)
EXTENDS WriteStream

CONSTANTS u1, u2, w1, w2, w3, w4

Chain == [w \in Writes |-> IF w = w1 THEN w2 ELSE NoWrite]
=============================================================================
